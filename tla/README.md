# A verification development for CompilerPP

CompilerPP (`src/`) is a sequential compiler of a small class-based language: it
reads one file, runs a pipeline of passes in one process and writes an
executable, an object file or LLVM IR. There is no concurrency and nothing
persists between runs. What is hard is the agreement of passes that visit the
same tree one after the other and answer each other's questions through tables
of numbers and pointers, and their behaviour on programs that are partly wrong:
every pass after the parser runs whatever errors were found before it.

## The system

| component | state | operations | interacts with |
|---|---|---|---|
| driver (`main.cpp`), `FrontendErrors` | the collected errors, their limit of 20 | runs the passes in order; `AddError` throws at the limit | called by every pass |
| lexer (`Lexer.l`) | position, start condition | `Tokenize`, recovery at an unknown character | gives tokens to the parser |
| parser (`Parser.y`, `Parser.cpp`) | Bison's stack and error status, `pending_errors`, the partial tree | reductions, three error productions | registers class types |
| type storage (`Types.cpp`) | the types; class types by name | `GetOrCreateClassType`, `CreateFunctionType` | written by the parser, read by all |
| statement numerizer | anchors and numbers of nodes; stacks of the visit | enter, leave, acquire, `ProjectUseToScope` | asked by the resolver, the type checker |
| symbol table | local tables with parents and owners; stack of the visit | `AddSymbolInfo`, enter, leave | asked by the resolver |
| use resolver | resolved symbols by use | `ResolveUse`, `RegisterUse`, member checks | uses numerizer, symbol table, member lookup |
| class member lookup | visited classes | `LookupClassMember` | used by resolver, access checker, type checker, lowering |
| access checker | the current class and function | field accesses | uses the resolver's results |
| type checker | current function, `recovering_from_error_` | statements, expressions, calls | uses the resolver's results, class relations |
| class, function, global relations | collected declarations, order of classes, chains of bases | `Build`, getters | used by lowering |
| LLVM IR lowering | module, blocks, storages, v-tables | classes, functions, statements | last pass |
| interpreter | environments | statements, expressions | an alternative back end, for tests |
| printers, object and executable output | none | formatting, files, the linker | |

What makes each correct, and where it is hard:

* *numerizer, symbol table, resolver*: two visits must build the same tree of
  scopes; a comparison of numbers made long afterwards must decide visibility
  as reading the program from the top would; functions must not be shadowed
  behind the back of their uses; cyclic inheritance must not hang a lookup.
* *parser*: every syntax error is reported once, at its own place, whatever
  follows it during recovery; a tree with holes must not reach passes that
  assume there are none.
* *driver*: the errors of a stage are printed once, a program with an error is
  never lowered.
* *class relations, v-tables*: bases come before derived classes, an override takes
  the slot of its base method, with the same signature.
* *type checker, access checker*: saved and restored context, silenced
  follow-up errors.
* *lowering, interpreter*: one terminator per basic block, a storage for every
  variable a body uses, initialization order, and the same output from both.
* *lexer*: a debug info says where its token is, a literal keeps its value.
* *output*: exit code 0 means that the output is there; temporary files go away.

## Modules

| module | models | state and actions |
|---|---|---|
| `Syntax` | the names of programs | constants only |
| `StatementNumerizer` | `StatementNumerizerBuilder` | `anchors` (`ref_by_node_` of scope owners), `scope_anchor_stack_`, `next_stmt_id_stack_`, `current_stmt_ref_` and the `previous_stmt_ref` locals of the visits in progress; acquire, enter, leave |
| `SymbolTable` | `LocalSymbolTable`, `SymbolTable`, `SymbolTableBuilder` | `tables` (`owned_tables_` with parent, owner and symbols), `scopeStack`, `errors`; `AddSymbolInfo`, enter, leave |
| `ClassTypes` | class types of `TypeStorage` as the parser leaves them, `LookupClassMember` | `classType` (`class_decl`, `base_class` by name), `members`; a lookup is a class and the set visited |
| `ScopeBuilder` | the two visits of one program | one action per node both visits handle; the program is chosen as it is visited |
| `Resolver` | `BuildUseResolver` | one step per turn of `ResolveUse`, of `ProjectUseToScope` and of `LookupClassMember`, and per member check |
| `ResolverProps` | | properties and the inductive invariant |
| `Grammar` | the rules of `Parser.y`; the tables Bison makes of them | constants only: rules, the LR(0) automaton computed from them, and what is assumed of it |
| `Parser` | `parser::parse` on those tables, `BisonParser::error`, `pending_errors` | `stack` (states, and whether a value holds a function without a body), lookahead, error status, pending and reported errors; one action per branch of the parser's loop; tokens are chosen as they are read |
| `ClassRelations` | `BuildClassRelations`, cycle reports of the type checker | declarations in order of encounter with the names of their fields and methods; the depth-first search as a stack of calls, `class_order` |
| `VTables` | `ClassInfo` layout, v-tables, calls of methods | `BuildClassInfo` class by class and method by method; calls as lowered |
| `DynamicDispatch` | | abstract: a call runs the method of its name that is nearest to the object's class |
| `TypeChecker` | `TypeCheckerVisitor`: expressions, statements, arguments | `recovering_from_error_`, `function_return_type_stack_`; what one visit does is an operator |
| `AccessAllowanceChecker` | `AccessAllowanceCheckerVisitor` | `current_method_owner_class_` |
| `SemanticChecks` | the walk of both checkers over one program | `open`: the visits in progress; the program is chosen as it is visited |
| `FunctionLowering` | `FunctionLoweringContext`: blocks of one body | `blocks`, `insert`, and the calls of `Lower...` in progress; the body is chosen as it is lowered |
| `FrontendErrors` | `FrontendErrors`: `AddError`, `ThrowErrors`, the limit | `errors`, by the pass that reported each; `thrown`, the exception on its way to main |
| `Lexer` | the rules of `Lexer.l` in both start conditions | `position` (`g_offset`, `g_line`, `g_column`), `condition`, `tokens`; one action per rule; the source is chosen as it is scanned |
| `Output` | `LowerToObjectFile`, `LowerToExecutableFile`, text output of `main.cpp` | `output` and `temporary` files, `step`; every step of LLVM, clang and the file system may fail |
| `Driver` | `main`: the passes in their order, and its handler of exceptions | `stage`, what `printed`; composes `Lexer` and `Output`, and what every pass between them may report |
| `ProgramText` | the tree of a visited program as the passes after it walk it | definitions only: lists of statements, definitions of names, positions |
| `Storage` | `FunctionRelations`, `GlobalRelations`, `PreallocateLocalDeclarations`, the addresses lowering takes | definitions only |
| `Interpreter` | `Interpret` | `variables` (the one map of the context), the walk, `output`, `exception`; one action per kind of statement |
| `CompiledCode` | the program lowering makes, run: `__global_init`, main, calls | `globals`, `stack` of activations with their frames, `printed` |
| `Execution` | one program visited, resolved, interpreted, lowered and run | `stage`; composes `ScopeBuilder`, `Interpreter`, `Storage` and `CompiledCode` |
| `MCResolver`, `MCParser`, `MCVTables`, `MCSemanticChecks`, `MCDriver`, `MCExecution` | | instances for TLC |
| `CommonLemmas`, `ResolverProofs`, `ParserProofs`, `VTablesProofs`, `DriverProofs`, `FunctionLoweringProofs`, `SemanticChecksProofs`, `ExecutionProofs` | | lemmas and theorems |

A scope owner is the position at which its scope was entered, the same in both
visits: `Program` is 1. A use keeps the number and the table the two visits gave its
node. An expression has at most one use: a longer one repeats the action of the
resolver with the same reference and the same table. `complete`, `uses[i].before` and
`trail` are history variables: no guard reads them, and the properties compare
what the code computes with what they record.

The visits are modelled interleaved, node by node; the code runs
`BuildStatementNumerizer` over the whole tree and then `BuildSymbolTable`. The
two share no state but the tree (`SymbolTableBuilder` only asks for numbers of nodes
that the numbering gave already), so the interleaving has the same results, and
it shows their stacks side by side.

`Grammar` keeps every rule of `Parser.y` (what a run leaves out is left out of its
set of tokens) and computes the automaton, as Bison is external: states are sets of
items, no state has a choice of rules (`AutomatonIsDeterministic`), a state whose only
moves are reductions reads no lookahead, and a state reduces by default unless it
shifts `error`.

The search of `BuildClassOrderAndChains` is an explicit stack: `permanently_visited` is
the set of classes in the order, `stack_visited` the set on the stack. Relations
and layout are modelled for programs that `CheckTypes` would reject as well,
because `LowerToLLVMIR` and the tests call them without it.

`SemanticChecks` walks one program for both checkers at once. They share nothing
but the program, so the order of their steps is of no consequence. Names are
resolved; an expression is an atom or an operator on atoms, and an atom that
fails stands for any expression in which one error was reported. A statement the
type checker leaves out after an error is visited all the same, marked as not
visited.

`FunctionLowering` keeps what makes blocks: statements in order, ifs, returns,
`&&` and `||`. A statement without control flow emits one event, an operand
one event and a truth value. `expected` and `path` are history variables: they say
in which runs (one for every assignment of truth values to operands) the body
does an event, and which runs get to the place that is being lowered. Operands of
arithmetic, comparisons and calls are one operand; a call's arguments are
in `SemanticChecks`.

`Lexer` knows a text by its length, its line ends and what follows the last of them, which is
all `AdvancePosition` reads of it. `at`, `skipped` and the fields `from`, `behind` and
`literal` of tokens are history: where the token really is, and the number it is written as.
Keywords are identifiers, operators have one or two characters. `Driver` lets every pass
between scanner and lowering report as many errors as it likes: `Parser`, `Resolver` and
`SemanticChecks` are about which ones. What they share is kept: a name that is left unresolved
makes a checker throw later, a function that is left without a body makes the numbering abort.

`Execution` takes a program `ScopeBuilder` has visited, with the meaning of names from
the reference definition the resolver is compared with (`ResolutionIsLexical`), and
lets it run on both back ends. A value is known by where it was made: the statement
that wrote it, a default, an argument, an address of a function, or nothing at all (what
an alloca holds before it is stored to). So two outputs agree when they
print values made at the same places. The truth of a condition is chosen
when it is first met with a value, and is the same in both back ends and at every later
time (`truth`). An expression has one use, and a call one argument that is not
looked at; arithmetic is left out. `Storage` is evaluated on the finished program, as
the lowering allocates everything a function declares before it lowers its body;
`CompiledCode` is the statements in the order in which `FunctionLowering` shows the
blocks to execute them.

## Runs

| run | what it asks | bounds |
|---|---|---|
| `resolver_programs` | types, `ScopesAgree`, `ProjectionNeverFails`, `ResolutionIsLexical`, `OnlyLaterFunctionsShadowed`, `FirstDeclarationStays`, `ResolverEnds` | 4 statements, 4 scopes, 1 use (a call or a method call); functions and variables of two names `f`, `x`, nested functions, ifs with else and else-if tails, classes of two names with any bases |
| `cyclic_lookup` | `NoCycleReachesLookup`, violated | 3 statements, 3 scopes |
| `parser_recovery` | types, `PendingIsOnStack`, `AcceptedReportsAll`, `CanRecover`, `BlocksEndAtBraces`, `ParserEnds` | every sequence of up to 10 tokens of 10 kinds (`class`, `func`, identifiers, brackets, `;`, `var`, `int`); error limit 3 |
| `pending_error_assertion` | `PendingErrorAtReport`, violated | 6 tokens of 5 kinds (`func`, `)`, `{`, `}`, `;`) |
| `function_without_body` | `EveryFunctionHasBody`, violated | 6 tokens of 5 kinds (`func`, `)`, `{`, `}`, `;`) |
| `v_tables` | types, `BasesFirst`, `CycleReportsAgree`, `AssignableIsEmbedded`, `SlotsStable`, `NearestOverride`, `LookupAgreesWithSlots`, `CallsDispatch` | 3 declarations of any names, bases and nesting, 3 fields and methods of 2 names, methods of 2 types |
| `override_of_another_type` | `OverridesKeepType`, violated | 2 classes, 2 methods |
| `enclosing_method_call` | `CallsHaveSlot`, violated | 2 classes, 2 methods |
| `semantic_checks` | types, `OneErrorPerStatement`, `WrongIsReported`, `ReturnTypesOfOpenBodies`, `AccessInOwnMethods`, `ArgumentsFillParameters` | 4 statements, fields and methods; calls of up to 2 arguments |
| `function_lowering` | types, `VerifyModule`, `BuilderFollowsBody`, `SameEvents`, `EveryBlockExecuted` | 4 statements, 3 operands |
| `front_end` | `PositionsBehind`, `LiteralsKept`, `ErrorsReachUser`, `OutputMeansSuccess` | sources of 5 texts (blanks with and without line ends, identifiers of up to 2 characters, literals inside and outside both types); an int of 4 values beside a long of at most 7; error limit 3; the three emit modes, with and without clang |
| `program_execution` | `EveryUseHasStorage`, `ReadsAreInitialized`, `OutputsAgree`, `NamesAreKnown` | 4 scopes, 4 statements, 3 uses, 4 activations; functions `main`, `f`, variables `x`, one class `A` |

The bounds are enough for the cases that matter. Of `resolver_programs`: four scopes
hold a function in a function in an if and a sibling scope, so that a scope is entered
after another was left at the same depth; four statements hold a declaration before, a
declaration after and a use at different depths; two class names hold a base and a
derived class, a cycle of one and of two, a cycle that does not contain the
starting class, and two classes that share a name. One use is enough, as the
resolver keeps no state from one use to the next but its results. A block of its own
is entered and left like the true block of an if, and is left to
`program_execution`.

Of `front_end`: five texts hold a recovery, the blank that ends it, a token after it, a
second recovery and a token after that; the third error is the last, so that the limit is
reached within a pass, between two passes and by the last error of the last one. The
widths of int and long only need to differ: a literal is in both, in the wider one or in
none. Every step that writes the output may fail, at every
place, and so may the removal of the temporary file, of which nobody hears.

Of `program_execution`: four scopes hold the program, main, a function and a block, function or
class in either; four activations hold the initializer of a global, two calls and a recursive
one; three uses hold the call of a function that reads, or assigns, and the read after it.
Calls that are deeper are not followed. The interpreter has no calls, returns or objects: it
throws when it meets one, and `OutputsAgree` compares the two outputs up to that place, while
both are complete in a program without. A variable may lack an initializer (`defaulted`): a
local one is then stored its default, a global one has it as its constant and nothing is stored
to it (`IsLeftAlone`), so that a function an earlier initializer called may have assigned to it
before. That takes two globals and five statements, more than the run has: the instance with
two names, three scopes and five statements reaches the case and all four properties hold of
it, but it has 7.3 million states, and so the case is left to the theorem
`ReadsFollowDeclarations`, which has no bound.

`ResolutionIsLexical` compares the resolver with a reference definition that
knows no numbers: the innermost enclosing scope whose declaration of the name was
complete when the text of the use was met, or counts everywhere in its scope
(functions of the program, members of classes), or, for a call in a class, that
inherits a method of the name.

Three classes hold an override of a grandparent's method with a class between that
does not override, a cycle of one, two and three classes, a base declared after
its derived class, and two declarations that share a name; three members hold two methods of
a name and a field that hides one. A field is found before the methods of its class and of the
bases, but takes no slot: `LookupAgreesWithSlots` says what the lookup and the slot have in common
in each case. Names of classes and types
of methods are symmetric: no definition tells one from another. `CallsDispatch` is a
refinement: slots computed once, from declarations, implement a search by name at
the moment of the call ("All methods are virtual", `Grammar.txt:90`).

Four statements hold a class with a method whose local function or local class is left
again before the next access or return, and an error in the true block of an if with
an else tail, which the type checker then leaves out: `WrongIsReported` says that this
costs errors, but never the only one of a statement. Two arguments hold a mixture of
named and positional ones, a name twice and an unknown name.

Four statements and three operands hold a return on either side of an if, on both,
and in an else-if, statements after each of them, and an `&&` or `||` as right operand
of another, whose last block is not the one the right operand began in.
`SameEvents` executes the blocks for every run and compares what they do with
the body; `BuilderFollowsBody` says the same of every unfinished body, at the insert
point. Together they say that `IsCurrentBlockTerminated`, which reads one block, is
right about reachability.

Fairness of `ParserEnds` is `WF_vars(Step)`, for the same reason as the resolver's:
one thread that never waits, and a finite program.

Fairness of `ResolverEnds` is `WF_vars(Resolve)`: the resolver is one thread that never waits, so
it takes its next step when it has one. The visits need none: `ResolverEnds`
starts when they have ended. `front_end` and `program_execution` state no liveness: the
program decides whether it ends, and `clang` may not.

## What is proved

`ResolverProofs`, for every set of names and classes, every form of use and
every bound, from the assumptions `NoClassAssumption` and `BuilderAssumption`:

* `TypeCorrect`: `Spec => []TypeOK`.
* `SameTreeOfScopes`: `Spec => []ScopesAgree`.
* `ProjectionSucceeds`: `Spec => []ProjectionNeverFails`.
* `SymbolsStay`: `Spec => FirstDeclarationStays`.

The first three follow from one inductive invariant, `IInv` (theorem
`Invariant`). Beside the properties it says: only the program has no scope
around it (`TreeInv`); a symbol is in the table of the scope its
`declaration_ref` names (`SymbolInv`); during the visit every open scope has
saved the statement it was entered in, and after an if its statement is current
again, because its else takes it as anchor (`VisitInv`); a use is numbered in
the scope whose table it has (`UseInv`); and the tables `ResolveUse` has looked at lead
from the use to the table in hand without a gap, while the climb of
`ProjectUseToScope` is on one of them (`WalkInv`). The last part is why
the projection cannot fail: the climb moves along the parents, stays on the
tables already looked at, and stops at the table in hand, because that is the
scope of the symbol. Its lemmas on the two visits are one for staying in a scope, one
for entering and one for leaving.

In the same module, from these assumptions and `ClassesAssumption` (a program declares
finitely many classes):

* `LexicalInvariant`: `Spec => []LInv`.
* `ResolutionLexical`: `Spec => []ResolutionIsLexical`.
* `FunctionsShadowedByLater`: `Spec => []OnlyLaterFunctionsShadowed`.

`ResolutionIsLexical` is what the three components are for: the reference meaning knows what
was declared when the use was met, the resolver knows only numbers, long after. Its invariant
`LInv` has, on top of `IInv`, a part for the visits and a part for the resolver. Of the visits
`LexicalInv` says: in every open scope the counter is beyond the number of everything in it,
and the scope entered last has the number before it (`NumbersInv`); an else tail numbers its
branch like the if, which has declared nothing (`ElseInv`); a declaration that is behind the
visit is in its table or was refused for good, and in a scope around an open one it is behind
exactly when its number is smaller than that of the statement being visited, but for a function
whose body is open (`CompleteInv`); and so, when a use is met, what is behind it is what has
the smaller number, compared at the use itself or at the scope that leads to the use
(`BeforeInv`). The last part must be kept while symbols with new numbers come into old tables,
and this is where `OnlyLaterFunctionsShadowed` is needed and why both are proved together. Of
the resolver `SearchInv` says that the tables already left gave the use no meaning, that the
climb is at a number to compare with, and that `LookupClassMember` has gone from the class of
the table up without finding the name. That a lookup in a cyclic inheritance ends where the
reference definition ends, which takes as many steps as there are classes, is counting again: a
class seen twice repeats what was seen. `Enclosing`, `HolderOf` and `StatementAround` are
recursive along the parents of the tree; that they exist and grow with it is one lemma
(`ParentRecursionExists` in `CommonLemmas`).

`VTablesProofs`, for every set of names and types, every program and every
bound, from `RelationsAssumption` and `NoClassAssumption`:

* `TypeCorrect`: `Spec => []TypeOK`.
* `BasesComeFirst`: `Spec => []BasesFirst`.
* `SlotsStayStable`: `Spec => []SlotsStable`.
* `OverridesAreNearest`: `Spec => []NearestOverride`.

* `CyclesAreReportedTwice`: `Spec => []CycleReportsAgree`.
* `AssignableObjectsAreEmbedded`: `Spec => []AssignableIsEmbedded`.
* `LookupFindsTheSlot`: `Spec => []LookupAgreesWithSlots`.
* `VTablesDispatch`: `Spec => CallsDispatch`, the refinement of `DynamicDispatch`.

The first four follow from one inductive invariant, proved action by action. Of the search it
says that the stack leads from each class to its base, that the stack and the
order have no class in common, that every class before the next one to start at
is in one of them, and that a class whose base's call has returned has its base in
the order, unless a cycle was met. So the base of the i-th class of the order is
an earlier one, its `ClassInfo` is complete when it is copied, and it is not the one being
laid out: that is why the slots of a base never change after a derived class took
them. A slot's method has the slot's name, so an override replaces nothing but
its own name. Neither `BasesFirst` nor `SlotsStable` is inductive without the parts on
the stack.

The other four rest on it and on a second invariant, `DispatchInv` (theorem
`DispatchInvariant`): what the class types hold is what was declared (`TypesInv`); as long as
no cycle was met, the chain of a class is itself and the chain of its base, and an error is of
classes the type checker's own walk finds to be in a cycle (`ChainsInv`); calls are lowered on
complete tables (`CallsInv`). Both walks along the bases, the type checker's and that of the
abstract specification, are functions by recursion on the number of steps: that they exist, and
what they are at each step, is one lemma by induction (`IterationExists` in `CommonLemmas`).
With it, a chain that ends is as long as the class's place in the order allows, so the bounds
of the walks are never met; a slot that was found by a class is in the same place in every
class whose chain holds it; and its method is the one the walk from the class of the object
meets first. Where `LookupClassMember` meets a field first, none of the classes before has a
method of the name, and the slot is that of the base of the field's class. The step of a call
then is a step of `DynamicDispatch`, every other step of the calls a stutter, and every step
before them its choice of classes.

`CommonLemmas` has what the developments share: sequences, least numbers, three
forms of induction over the naturals and the iteration of a function. The induction
theorems of the library take an operator as a parameter, which the provers cannot
instantiate; these are stated for a set, the numbers for which the fact holds, and proved from the
least number outside it.

`DriverProofs`, for every limit, every width of int and long, every set of blanks and
literals and every length of the source, from `LexerAssumption` (above all that an int has
more than one value), `LimitAssumption` and `EmitModesAssumption`:

* `PositionsAreBehind`: `Spec => []PositionsBehind`.
* `LiteralsAreKept`: `Spec => []LiteralsKept`.
* `ErrorsAreTold`: `Spec => []ErrorsReachUser`.
* `SuccessHasOutput`: `Spec => []OutputMeansSuccess`.

The invariant (theorem `Invariant`) has four parts. The scanner's position is where the text
is, but for what was skipped, and every token ends at or before it (`LexerInv`): with that
the order of the ranges is one step. What is collected stays below the limit until
the exception of the limit is on its way, and nothing is printed before the
handler (`ErrorsInv`). A pass that still runs has no exception, and from lowering on
there are no errors (`StageInv`). Which files there are follows from the step of the
output and the emit mode (`FilesInv`).

`FunctionLoweringProofs`, for every body, from `BodyAssumption`:

* `BlocksAreHeld`: `Spec => []IInv`.
* `FunctionIsWellFormed`: `Spec => []VerifyModule`.
* `RunsAreFollowed`: `Spec => []SInv`.
* `BuilderIsWhereRunsAre`: `Spec => []BuilderFollowsBody`.
* `FunctionDoesWhatBodyDoes`: `Spec => []SameEvents`.
* `BlocksAreCovered`: `Spec => []CInv`.
* `TypeCorrect`: `Spec => []TypeOK`.
* `NoBlockInVain`: `Spec => []EveryBlockExecuted`.

`VerifyModule` speaks of the finished function, and the invariant of every moment before.
Every call of `Lower...` in progress holds blocks of its own, different from those of all
others: the false side of an if, the way of `&&` and `||` around the right operand,
and the merge block, which is made early and put in the function last. Only these and
the block of the builder may lack a terminator. A branch leads to a block in
the function or to a merge block that is still held; a phi has exactly the
predecessors of its block; and an expression is lowered only while the current block is open, so
no code follows a terminator. When the last call returns nothing is held,
and what is left is `VerifyModule`.

`SameEvents` is the semantic correctness of the lowering: whatever the operands are, the
blocks do what the body does. Its invariant `SInv` adds to `IInv` where every run is at every
moment. `RunInv` says that there is a walk through the blocks made so far
(`Follows`) that does the events the body has had for the run, and that ends in a place
that fits the stack of calls (`Situated`): in the block of the builder if the run
gets to what is lowered next, and otherwise in a block of a call that waits for it, in
exactly the runs which that call says take the other way (`Waits`: the false side of an
if, the short way of `&&` and `||`, an arm that has branched to its merge block). `HasValue` says
that the value an expression returned is, in the phis the run has passed, the truth value of
the expression. `ExpressionInv` says which calls may ask for a value. Each action has
a lemma (`...Seen`): a walk is lengthened by the block that is entered, and an old block is
changed only where no walk has been yet or where the walk ends. `Execution` is a recursive
function bounded by the number of blocks; that it is the walk (`RunIsExecuted`) needs that
no walk is longer, which is counting: every action keeps that a walk is in no block twice
(`IsPath`).

`EveryBlockExecuted` needs that there are runs, not only where they are. Its invariant `CInv`
adds to `SInv` that every block put into the function so far is in the walk of some run
(`Covered`), and what keeps it so (`Occupied`): some run gets to the insert point while that is
open, some run waits at each block a call comes back to, and what an expression returned is
true in some of the runs that got there and false in others (`BothWays`), so that both ways of
a condition are taken. The last holds because operands are independent: sets of runs are told by
the operands so far (`Depends`), so the next one splits any of them (`NextOperand`), and `&&`
and `||` of expressions that can go both ways can go both ways (`MergeLogicalStep`). Each
action adds at most blocks that some run gets to (`GotTo`), and a walk that was in a block
stays in it (`StillVisits`). The types of values and instructions are in the same invariant
(`CodeTypes`, `TypesInv`), which gives `TypeOK`.

`SemanticChecksProofs`, for programs of any number of statements, calls of any number of
arguments, all signatures and all values, from `ChecksAssumption`:

* `WrongIsToldOf`: `Spec => []WrongIsReported`.
* `OneErrorEach`: `Spec => []OneErrorPerStatement`.
* `ReturnTypesAreOfBodies`: `Spec => []ReturnTypesOfOpenBodies`.
* `AccessesAreInOwnMethods`: `Spec => []AccessInOwnMethods`.
* `ArgumentsFill`: `Spec => []ArgumentsFillParameters`.
* `TypeCorrect`: `Spec => []TypeOK`.

The lemmas before the invariant say of each check of `TypeChecker` that it reports once if
what it checks is wrong by the rules of the language, and not at all if it is right; the rest is
why a whole program inherits that. Of what is open the invariant (`IInv`) says: what is
visited is only in what is visited, and what is left out of something visited was left out
because of an error, which is reported (`FramesInv`); the checker is silent only after
a report of the statement it is in, and the loop over the arguments of a call agrees with
the arguments so far as long as it is not (`ErrorsInv`); the innermost body gives the owner and has
saved that of the body around it (`OwnerInv`); every visited body has its return type at its
depth, bodies that are left out having none (`ReturnsInv`). `WrongIsReported` alone
is not inductive: whether the end of a block makes its if wrong and not reported depends on
why a block was left out. That no parameter is left empty is counting: as many
named arguments as parameters, no name twice, so every name.

`ExecutionProofs`, from the assumptions of `ResolverProofs`:

* `ProgramInvariant`: `ExecutionSpec => []SInv`.
* `StorageFound`: `ExecutionSpec => []EveryUseHasStorage`.
* `StackInvariant`: `ExecutionSpec => [](SInv /\ StackInv)`.
* `ReadsFollowDeclarations`: `ExecutionSpec => []ReadsAreInitialized`.
* `InterpreterInvariant`: `ExecutionSpec => [](SInv /\ InterpreterInv)`.
* `InterpreterKnowsNames`: `ExecutionSpec => []NamesAreKnown`.
* `ExecutionInvariant`: `ExecutionSpec => [](SInv /\ FilledInv /\ StackInv /\ InterpreterInv
  /\ AgreeInv)`.
* `OutputsOfBothAgree`: `ExecutionSpec => []OutputsAgree`.

`EveryUseHasStorage` compares two ways of asking where a use is: the lowering's, which takes the
context it is in and looks for the definition among what that context has allocated, class it
belongs to or globals (`HasStorage`), and one by the scopes around use and definition. `SInv`
adds to `IInv` and `LexicalInv` what is in the text: who may own a scope or
a symbol (`OwnersInv`); that a number is that of one declaration, one function or class, one use,
or of the blocks and conditions of one if (`NumberedOnce`), and not larger than the number of
statements (`BoundedInv`); that the condition of a block is a use in its statement
(`ConditionsInv`); and that what is executed is what was accepted, with the meanings
`LexicalInv` is about (`StageInv`). `Context` and `ListsOf`, which follow the parents of scopes,
are shown to be what `Enclosing` says: the innermost function or class around, and the
scopes of which that is the function.

`ReadsAreInitialized` speaks of a moment, and its reason is in the past: what is read was
declared by a statement the same call has passed. `StackInv` says it of every activation
(`ActivationInv`): its walk is in its body and in blocks, each of a statement just passed, and
nothing behind it ends in a return (`PathInv`); what is declared in these lists behind the walk
is in its frame (`PassedIn`). The initializer of globals can only be the first activation, and
when it has ended all globals have a value (`StackOK`), those of the default from the start. A
step of a walk changes one place, so each statement needs one lemma on what it leaves behind;
that a walk that has nothing more to do has passed the whole body, which makes the globals
complete, is counting the statements of a list. The theorem then has no walk in it: a use is
met with a meaning that is behind it (`SInv`), what is behind a use in a block around it is
behind the walk, and so in the frame or, of the program, in the globals. The exceptions in the
property (a global, in a call of an initializer) are where this fails.

The interpreter has one walk through one map that is never emptied at the end of a block, so
`NamesAreKnown` needs both directions. `InterpreterInv` says that its walk is one like those of
compiled code and knows what it has passed, and that whatever it knows is a variable
behind it (`HasDeclared`). `Behind` compares a declaration with a walk in the innermost
list they have in common; a declaration that is reached is not behind, so it is not
known yet, and "already declared" is never thrown. The property asks of every place at which the
interpreter evaluates a use - initializers, conditions (`UseOf`) and all other statements - that
the variable is known.

`OutputsAgree` relates two runs, of which one is over when the other starts, and the
interpreter keeps no history. `AgreeInv` speaks of it nevertheless: there is a set of states
(where it is, what it knows, what it has printed) that holds the first one, and for each of
them the one a step makes of it, up to where the interpreter is now (`Passes`). The steps are
given without primes (`Interprets`), so that they are still those steps when compiled code
runs. Then compiled code is always at one of these states (`Matches`): one activation, at the
same place, that finds for every known variable the same value under the address it takes. A
step of it comes to the next state (`RunFollows`, with a lemma for each kind of statement),
until it ends where the interpreter did or goes past an exception. That this is the same step
needs four facts: no use in these states is a call; the condition of a block was decided, with
the same value, when the interpreter passed, and conditions are never forgotten (`SaysMore`);
there is one `main` (`OneMain`); and at a place that is no declaration and no block there is a
use, so that both find the same (`UseIsThere`). The last two follow from `FilledInv`: no number
of a statement is left out, which needs what every visit puts at the number it takes (`Fills`),
and a function is found under its name. `AgreeInv` has a quantifier over sets of states and was
not given to TLC; what follows from it, `OutputsAgree`, is.

`ParserProofs`, for all tokens and every bound on them and on the errors, from
`ParserAssumption` and the assumptions of `Grammar`:

* `ParserInvariant`: `Spec => []ParserInv`.
* `ParserTyped`: `Spec => []TypeOK`.
* `PendingErrorsAreOnStack`: `Spec => []PendingIsOnStack`.
* `ErrorsAreReported`: `Spec => []AcceptedReportsAll`.
* `RecoveryIsPossible`: `Spec => []CanRecover`.
* `BlocksAreLeftAtBraces`: `Spec => BlocksEndAtBraces`.

The assumptions of `Grammar` are facts about the rules and the automaton, which have no
parameters: each is true or false, and TLC evaluates all of them before it runs
`parser_recovery`. They are of two kinds. `RulesOfSymbols`, `ItemsAreOfRules` and
`ItemsAreRecognized` hold of any automaton made this way, and say that the symbols on
the stack are those of the rule that is reduced. `ErrorsAreShifted` and `ProgramEnds` are
about this grammar: behind the brace of a block, and behind the symbol that follows an `error`, the
parser does not look at the next token, and from there it comes to a state that shifts `error`.

`ParserInv` says that the stack is a path of the automaton, whose end is the end of the
program (`StackInv`); how many tokens were read (`LookaheadInv`); and that what was
announced is reported or waits, and that Bison's count is 3 exactly while `error` is on top
(`ErrorsInv`). The last is what makes `PendingIsOnStack` inductive. A new error is met with
another symbol on top: then every `error` on the stack has a state above it that
shifts `error`, recovery stops there at the latest, and none is popped. A token is
discarded with `error` on top: then recovery pops this one and pushes it again. For the
same reason no recovery pops the brace of a block. That does not make recovery local: the
tokens it discards on its way to a `;` may hold the block's own `}`, and the block then ends
at a later one; `BlocksEndAtBraces` says no more than that a block is left by shifting a `}`. A
reduction by a rule without `error`
pops none, and one by an error rule exactly one, as no rule has two.

Model-checked only: the liveness properties `ResolverEnds` and `ParserEnds`, as liveness is
out of the prover's reach. Every invariant and action property of a passing run is stated by a
theorem.

## Disagreements found

The runs that are expected to fail show code against one of its own assertions:

* `cyclic_lookup`: `LookupClassMember` asserts that inheritance is acyclic, but
  the resolver calls it before any pass reports a cycle.
* `pending_error_assertion`: an error rule asserts that an error is pending
  (`Parser.y:257`), but Bison announces no error before three tokens were shifted after
  the last one: two errors in a row are announced once and reported twice.
* `function_without_body`: the numbering asserts that a function has a body
  (`StatementNumerizer.cpp:175`); recovery makes one without, and main numbers the program
  before it asks whether there were errors.
* `override_of_another_type`: the layout asserts that an override has the type of what
  it overrides (`LLVMIRLowering.cpp:304`); no pass compares them.
* `enclosing_method_call`: lowering asserts that the class of `__this` has a slot for a
  method called by name (`LLVMIRLowering.cpp:1453`); the resolver also finds methods of
  classes further out.

Some properties of passing runs state a rule with the exceptions the code makes
of it, and no others:

* `OnlyLaterFunctionsShadowed`: the rule that a function is not shadowed covers only declarations
  that follow the function. `func f() { func g() {} } func g() {}` is accepted,
  although the global `g` is visible in all of `f`.
* `EveryUseHasStorage`: a variable of an enclosing function
  (`LLVMIRLowering.cpp:1728`), a member in a function nested in a method (`:1704`) and a
  function that is assigned to itself (`:2097`) are accepted and end in an assertion of
  the lowering.
* `ReadsAreInitialized`: a global with an initializer may be read before it has run, by a function
  that an earlier initializer, or its own, calls.
* `OutputMeansSuccess`: exit code 0 without an output when there is no clang
  (`ExecutableLowering.cpp:255`), and when a text could not be written (`main.cpp:135`).
* `LiteralsKept`: a literal that a long holds and an int does not gets another value
  (`Lexer.l:97`).
* `PositionsBehind`: positions are behind after a recovery (`Lexer.l:200`).

## Not modelled

* *Printers*: they format a tree and keep no state a property could be about; so
  does the wording of messages.
* *Values*: arithmetic and its exceptions, comparisons, conversions, LLVM types. A value in
  `Execution` is the place it was made.
* *Objects*: fields (but for their names, which hide methods), their layout and initialization, allocators, `delete`. Classes are there as
  scopes, as v-tables and as owners of members.
* *The tree*: the parser's values are abstracted to whether a function has no body;
  trees enter the later modules through `ScopeBuilder`, `SemanticChecks` and
  `FunctionLowering`, each of which builds every tree of its kind.
* *Type checker*: the visibility of local classes, function types as values, and which
  fields and methods a type has (`LookupClassMember` in the resolver's module).
  That it throws for a name the resolver left unresolved is in `Driver`.
* *External programs*: what LLVM and clang do is a choice between success and failure;
  the linker's command line and the search for it on macOS are left out.

Six hazards have no property. A method of a local class that names a field of the
class around it (`LLVMIRLowering.cpp:1703`) needs five scopes and objects; field initializers
that read fields initialized later (`:2317`) need allocators; the return type
and the parameters of main (`:1110`) meet assertions only, and the address of a
declaration that recovery pops (`Parser.y:178`) is a matter of lifetimes the parser's
model does not have. That classes of one name share a type (`Types.cpp:41`) is in the models, but
in the definitions they are compared with as well; and the errors that are never found after the
access checker has thrown (`AccessAllowanceChecker.cpp:40`) are no part of what `Driver` collects.

## Plan

The modules were written in the order resolver, parser, v-tables, lowering of control
flow, checkers, front end and output, execution. What is left, in order of weight:

1. *Objects*: fields and their layout on top of `VTables`, allocators and initializers on
   top of `CompiledCode`, `__this` in calls and in nested functions. Properties: a field
   read through a base is the one written through a derived class; a method called by an
   initializer reads what its field holds at that time.
2. *Type checker*: visibility of local classes on top of `ScopeBuilder`, compared with the
   resolver's.
3. *Proofs*: what `ResolverEnds` and `ParserEnds` rest on, a measure that every step lowers, as
   an action property that could be proved.
