-------------------------------- MODULE Parser --------------------------------
(***************************************************************************)
(* BisonParser::parse and ParseTokensImpl: the automaton of Grammar        *)
(* driven by Bison's skeleton lalr1.cc, with the error recovery of the     *)
(* `error` rules of Parser.y.  The tokens are chosen as they are read.     *)
(* Semantic values are left out but for one fact: whether a value holds a  *)
(* function without a body (FunctionDeclarationStatement{}).               *)
(***************************************************************************)
EXTENDS Grammar

CONSTANTS
  Tokens,        \* bound: the kinds of tokens a program is made of
  MaxTokens,     \* bound: tokens of the program
  ErrorLimit     \* FrontendErrors::SetLimit, 20 in main

VARIABLES
  stack,         \* yystack_: the states entered, the symbols and their values
  lookahead,     \* yyla; NoToken when it is empty
  yyerrstatus,   \* yyerrstatus_: tokens to shift before errors count again
  taken,         \* tokens read from the program, its end included
  pending_errors,\* how many errors wait for a rule to report them
  errors,        \* how many FrontendErrors has
  announced,     \* history: how many errors BisonParser::error was told of
  outcome        \* "parsing", and the ways ParseTokens ends

vars == <<stack, lookahead, yyerrstatus, taken, pending_errors, errors, announced, outcome>>

NoToken == "none"
Terminals == Symbols \ (Nonterminals \cup {"error", "eof"})

ASSUME ParserAssumption ==
  /\ Tokens \subseteq Terminals
  /\ MaxTokens \in Nat /\ ErrorLimit \in Nat \ {0}

Entry(state, symbol, hollow) == [state |-> state, symbol |-> symbol, hollow |-> hollow]

Init ==
  /\ stack = <<Entry(Start, "", FALSE)>>
  /\ lookahead = NoToken
  /\ yyerrstatus = 0
  /\ taken = 0
  /\ pending_errors = 0
  /\ errors = 0
  /\ announced = 0
  /\ outcome = "parsing"

-----------------------------------------------------------------------------
Top == Last(stack).state
Parsing == outcome = "parsing"

\* yylex
ReadToken ==
  /\ Parsing /\ lookahead = NoToken /\ ~Consistent(Top)
  /\ \E token \in (IF taken < MaxTokens THEN Tokens ELSE {}) \cup {"eof"} : lookahead' = token
  /\ taken' = taken + 1
  /\ UNCHANGED <<stack, yyerrstatus, pending_errors, errors, announced, outcome>>

Shifts == lookahead \in DOMAIN Goto[Top]

\* Faulty: counts tokens when there is no error to recover from.
FaultyStatusAfterShift == yyerrstatus - 1
\* "Count tokens shifted since error; after three, turn off error status."
StatusAfterShift == IF yyerrstatus > 0 THEN yyerrstatus - 1 ELSE 0

Shift ==
  /\ Parsing /\ Shifts
  /\ stack' = Append(stack, Entry(Goto[Top][lookahead], lookahead, FALSE))
  /\ lookahead' = NoToken
  /\ yyerrstatus' = StatusAfterShift
  /\ outcome' = IF Goto[Top][lookahead] = Final THEN "accepted" ELSE outcome
  /\ UNCHANGED <<taken, pending_errors, errors, announced>>

-----------------------------------------------------------------------------
(* Reductions *)

\* FrontendErrors::AddError throws when the limit is reached.
AddError(otherwise) ==
  /\ errors' = errors + 1
  /\ outcome' = IF errors + 1 >= ErrorLimit THEN "too many errors" ELSE otherwise

PopAndPush(rule) ==
  LET A == rule[1]
      base == SubSeq(stack, 1, Len(stack) - Len(rule[2]))
      popped == SubSeq(stack, Len(base) + 1, Len(stack))
      hollow == rule[2] = <<"func", "error", "block">> \/ \E k \in DOMAIN popped : popped[k].hollow
  IN  stack' = Append(base, Entry(Goto[Last(base).state][A], A, hollow))

\* Faulty: the action of the rule in blocks reports nothing.
FaultyIsErrorRule(rule) ==
  rule[1] # "stmt_list" /\ \E k \in DOMAIN rule[2] : rule[2][k] = "error"
\* The rules whose action is AddPendingParseErrorUntil...; yyerrok.
IsErrorRule(rule) == \E k \in DOMAIN rule[2] : rule[2][k] = "error"

ReduceDue ==
  /\ Parsing /\ Reduces(Top)
  /\ Consistent(Top) \/ (lookahead # NoToken /\ ~Shifts /\ ReducesOn(Top, lookahead))

Reduce ==
  /\ ReduceDue /\ ~IsErrorRule(Reduction(Top))
  /\ PopAndPush(Reduction(Top))
  /\ UNCHANGED <<lookahead, yyerrstatus, taken, pending_errors, errors, announced, outcome>>

\* Faulty: pop_back is missing.
FaultyPendingAfterReport == pending_errors
PendingAfterReport == pending_errors - 1

\* GetPendingError, AddPendingParseErrorWithContext
ReduceError ==
  /\ ReduceDue /\ IsErrorRule(Reduction(Top)) /\ pending_errors > 0
  /\ pending_errors' = PendingAfterReport
  /\ AddError("parsing")
  /\ PopAndPush(Reduction(Top))
  /\ yyerrstatus' = 0
  /\ UNCHANGED <<lookahead, taken, announced>>

\* GetPendingError: assert(!state.pending_errors.empty())
NothingPending ==
  /\ ReduceDue /\ IsErrorRule(Reduction(Top)) /\ pending_errors = 0
  /\ outcome' = "no pending error"
  /\ UNCHANGED <<stack, lookahead, yyerrstatus, taken, pending_errors, errors, announced>>

-----------------------------------------------------------------------------
(* Errors: yyerrlab, yyerrlab1 *)

Unexpected ==
  /\ Parsing /\ lookahead # NoToken
  /\ ~Consistent(Top) /\ ~Shifts /\ ~ReducesOn(Top, lookahead)

\* Faulty: states are popped up to the first that shifts `error`.
FaultyShiftError ==
  LET k == Min({i \in DOMAIN stack : ShiftsError(stack[i].state)})
  IN  stack' = Append(SubSeq(stack, 1, k), Entry(Goto[stack[k].state]["error"], "error", FALSE))

\* States are popped up to one that shifts `error`.
ShiftError ==
  LET k == Max({i \in DOMAIN stack : ShiftsError(stack[i].state)})
  IN  stack' = Append(SubSeq(stack, 1, k), Entry(Goto[stack[k].state]["error"], "error", FALSE))

\* BisonParser::error is told of an error only when none is being recovered from.
IsNewError == yyerrstatus = 0

DetectError ==
  /\ Unexpected /\ yyerrstatus < 3
  /\ IF IsNewError
       THEN pending_errors' = pending_errors + 1 /\ announced' = announced + 1
       ELSE UNCHANGED <<pending_errors, announced>>
  /\ ShiftError
  /\ yyerrstatus' = 3
  /\ UNCHANGED <<lookahead, taken, errors, outcome>>

\* Faulty: the token is kept.
FaultyAfterDiscard == lookahead
AfterDiscard == NoToken

\* The token did not fit after `error` either.
DiscardToken ==
  /\ Unexpected /\ yyerrstatus = 3 /\ lookahead # "eof"
  /\ lookahead' = AfterDiscard
  /\ ShiftError
  /\ UNCHANGED <<yyerrstatus, taken, pending_errors, errors, announced, outcome>>

\* parse() returns 1, and ParseTokensImpl adds "Parsing failed".
FailAtEnd ==
  /\ Unexpected /\ yyerrstatus = 3 /\ lookahead = "eof"
  /\ AddError("failed")
  /\ UNCHANGED <<stack, lookahead, yyerrstatus, taken, pending_errors, announced>>

Ends == {"accepted", "failed", "too many errors", "no pending error"}
Ended == outcome \in Ends /\ UNCHANGED vars

Step ==
  \/ ReadToken \/ Shift \/ Reduce \/ ReduceError \/ NothingPending
  \/ DetectError \/ DiscardToken \/ FailAtEnd

Next == Step \/ Ended

Spec == Init /\ [][Next]_vars
\* The parser is one thread of control that never waits.
FairSpec == Spec /\ WF_vars(Step)

-----------------------------------------------------------------------------
\* Every variable of the parser has its type.
TypeOK ==
  /\ stack \in Seq([state : States, symbol : Symbols \cup {""}, hollow : BOOLEAN]) /\ stack # <<>>
  /\ lookahead \in Tokens \cup {NoToken, "eof"}
  /\ yyerrstatus \in 0..3
  /\ taken \in 0..(MaxTokens + 1)
  /\ pending_errors \in Nat /\ errors \in 0..ErrorLimit /\ announced \in Nat
  /\ outcome \in {"parsing"} \cup Ends

ErrorSymbols == {k \in DOMAIN stack : stack[k].symbol = "error"}

\* Whatever the recovery pops, an error waits only as long as the `error`
\* symbol it was shifted for is on the stack to report it.
PendingIsOnStack == pending_errors <= Cardinality(ErrorSymbols)

\* A program is accepted in silence only if no error was found in it: every
\* error the parser was told of is reported, once, by the time it accepts; and
\* a function without a body is in the program only with an error reported.
AcceptedReportsAll ==
  outcome = "accepted" =>
    /\ pending_errors = 0 /\ errors = announced
    /\ stack[Len(stack) - 1].hollow => errors > 0

\* Recovery always finds a state to go on from: ParseTokens fails only at the
\* end of the program.
CanRecover == Unexpected => \E k \in DOMAIN stack : ShiftsError(stack[k].state)

\* The blocks the parser is in: where their braces are, those that are not of a class.
OpenBlocks ==
  {k \in DOMAIN stack : stack[k].symbol = "{" /\ stack[k - 1].symbol # "inheritance_opt"}

\* The parser leaves a block only behind a `}` it has shifted: whatever errors are found in
\* the block, no recovery pops its brace, and the list of its statements goes on.  (That `}`
\* need not be the block's own, which recovery discards if it comes before the `;` that
\* recovery looks for.)
BlocksEndAtBraces ==
  [][OpenBlocks \subseteq OpenBlocks' \/ Last(stack).symbol = "}"]_vars

\* The parser ends on every sequence of tokens.
ParserEnds == <>(outcome \in Ends)

-----------------------------------------------------------------------------
\* assert(!state.pending_errors.empty()) (Parser.y:257)
PendingErrorAtReport == outcome # "no pending error"

\* assert(function_declaration.body != nullptr) (StatementNumerizer.cpp:175):
\* the program main hands to the passes has no function without a body.
EveryFunctionHasBody == outcome = "accepted" => ~stack[Len(stack) - 1].hollow
=============================================================================
