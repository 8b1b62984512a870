------------------------------- MODULE Grammar -------------------------------
(***************************************************************************)
(* The grammar of Parser.y, and the automaton Bison makes of it.           *)
(* A token is named by its text, IDENT and NUM by "ident" and "num".       *)
(***************************************************************************)
EXTENDS Integers, Sequences, FiniteSets, SequencesExt, TLC

-----------------------------------------------------------------------------
(* The rules: the right-hand sides of every nonterminal *)

DeclStmtListRules ==
  {<<>>, <<"decl_stmt_list", "decl_stmt">>, <<"decl_stmt_list", "error", ";">>}
StmtListRules == {<<>>, <<"stmt_list", "stmt">>, <<"stmt_list", "error", ";">>}

ListRules ==
  [program |-> {<<"decl_stmt_list">>},
   decl_stmt_list |-> DeclStmtListRules,
   stmt_list |-> StmtListRules,
   stmt |-> {<<s>> : s \in {"decl_stmt", "assign_stmt", "print_stmt", "delete_stmt", "if_stmt",
                            "return_stmt", "expr_stmt", "block_stmt"}},
   decl_stmt |-> {<<s>> : s \in {"var_decl", "func_decl", "class_decl"}}]

DeclarationRules ==
  [var_decl |-> {<<"var", "ident", "type", "init_opt", ";">>},
   func_decl |->
     {<<"func", "ident", "(", "param_list_opt", ")", "return_type_opt", "block">>,
      <<"func", "error", "block">>},
   class_decl |->
     {<<"class", "ident", "inheritance_opt", "{", "class_field_decl_list",
        "class_method_decl_list", "}">>},
   inheritance_opt |-> {<<>>, <<":", "ident">>},
   class_field_decl_list |-> {<<>>, <<"class_field_decl_list", "var_decl">>},
   class_method_decl_list |-> {<<>>, <<"class_method_decl_list", "func_decl">>},
   init_opt |-> {<<>>, <<"=", "expr">>},
   param_list_opt |-> {<<>>, <<"param_list">>},
   param_list |-> {<<"param">>, <<"param_list", ",", "param">>},
   param |-> {<<"ident", "type">>},
   type |-> {<<"base_type">>},
   base_type |-> {<<"int">>, <<"bool">>, <<"ident">>},
   return_type_opt |-> {<<>>, <<"type">>}]

StatementRules ==
  [assign_stmt |-> {<<"ident", "=", "expr", ";">>},
   print_stmt |-> {<<"print", "(", "expr", ")", ";">>},
   delete_stmt |-> {<<"delete", "ident", ";">>},
   if_stmt |-> {<<"if", "expr", "block", "else_tail">>},
   else_tail |-> {<<>>, <<"else", "block">>, <<"else", "if_stmt">>},
   return_stmt |-> {<<"return", "return_arg_opt", ";">>},
   return_arg_opt |-> {<<>>, <<"expr">>},
   expr_stmt |-> {<<"expr", ";">>},
   block_stmt |-> {<<"block">>},
   block |-> {<<"{", "stmt_list", "}">>}]

CallRules ==
  [func_call |-> {<<"ident", "(", "call_args_opt", ")">>},
   field_access |-> {<<"ident", ".", "ident">>},
   method_call |-> {<<"ident", ".", "func_call">>},
   call_args_opt |-> {<<>>, <<"call_args">>},
   call_args |-> {<<"named_arg_list">>, <<"pos_arg_list">>},
   named_arg_list |-> {<<"named_arg">>, <<"named_arg_list", ",", "named_arg">>},
   named_arg |-> {<<"ident", ":", "expr">>},
   pos_arg_list |-> {<<"expr">>, <<"pos_arg_list", ",", "expr">>}]

\* A level of binary operators, which associate to the left.
Binary(level, operand, ops) == {<<operand>>} \cup {<<level, op, operand>> : op \in ops}

ExpressionRules ==
  [expr |-> {<<"logic_or_expr">>},
   logic_or_expr |-> Binary("logic_or_expr", "logic_and_expr", {"||"}),
   logic_and_expr |-> Binary("logic_and_expr", "equality_expr", {"&&"}),
   equality_expr |-> Binary("equality_expr", "relational_expr", {"==", "!="}),
   relational_expr |-> Binary("relational_expr", "add_expr", {"<", ">", "<=", ">="}),
   add_expr |-> Binary("add_expr", "mul_expr", {"+", "-"}),
   mul_expr |-> Binary("mul_expr", "unary_expr", {"*", "/", "%"}),
   unary_expr |-> {<<"final_expr">>} \cup {<<op, "unary_expr">> : op \in {"+", "-", "!"}},
   final_expr |->
     {<<f>> : f \in {"ident", "num", "true", "false", "func_call", "field_access", "method_call"}}
     \cup {<<"(", "expr", ")">>}]

Rules ==
  [accept |-> {<<"program", "eof">>}] @@ ListRules @@ DeclarationRules @@ StatementRules
  @@ CallRules @@ ExpressionRules

-----------------------------------------------------------------------------
(* The automaton: a state is a set of items <<lhs, rhs, symbols recognized>> *)

Nonterminals == DOMAIN Rules
Fresh(A) == {<<A, rhs, 0>> : rhs \in Rules[A]}
Complete(item) == item[3] = Len(item[2])
After(item) == item[2][item[3] + 1]
Open(items) == {i \in items : ~Complete(i)}

\* <<A, B>>: a sentence of A may begin with one of B.
FirstOf(A) == {rhs[1] : rhs \in Rules[A] \ {<<>>}} \cap Nonterminals
Longer(corners) == corners \cup UNION {{p[1]} \X FirstOf(p[2]) : p \in corners}
LeftCorners ==
  LET reach[n \in 0..20] == IF n = 0 THEN {<<A, A>> : A \in Nonterminals} ELSE Longer(reach[n - 1])
  IN  reach[20]

Closure(kernel) ==
  kernel \cup UNION {Fresh(p[2]) : p \in {q \in LeftCorners :
                                            q[1] \in {After(i) : i \in Open(kernel)}}}

Advanced(open) ==
  [X \in {After(i) : i \in open} |->
     {<<i[1], i[2], i[3] + 1>> : i \in {j \in open : After(j) = X}}]
Successors(kernel) == Advanced(Open(Closure(kernel)))

\* The states reachable from the start, which is the first of them: every round
\* adds the successors of the states found in the round before.
Found(old) == UNION {Range(Successors(old.all[k])) : k \in old.from..Len(old.all)}
ListedAfter(set, list) == FoldSet(LAMBDA x, seq : Append(seq, x), list, set)
Round(old) ==
  [all |-> ListedAfter(Found(old) \ Range(old.all), old.all), from |-> Len(old.all) + 1]
Kernels ==
  LET explore[n \in 0..12] ==
        IF n = 0 THEN [all |-> <<{<<"accept", <<"program", "eof">>, 0>>}>>, from |-> 1]
        ELSE Round(explore[n - 1])
  IN  explore[12].all

\* The state a shift of X, or a reduction to X, leads to.
Named(next, kernels) ==
  [X \in DOMAIN next |-> CHOOSE s \in DOMAIN kernels : kernels[s] = next[X]]
Gotos(kernels) == [s \in DOMAIN kernels |-> Named(Successors(kernels[s]), kernels)]
Goto == Gotos(Kernels)
States == DOMAIN Goto
Symbols == UNION {DOMAIN Goto[s] : s \in States}

\* The rules a state has recognized; the end of the program is no rule.
RulesRecognized(kernels) ==
  [s \in DOMAIN kernels |->
     {<<i[1], i[2]>> : i \in {j \in Closure(kernels[s]) : Complete(j) /\ j[1] # "accept"}}]
Recognized == RulesRecognized(Kernels)

Start == 1
Final == Goto[Goto[Start]["program"]]["eof"]

Reduces(s) == Recognized[s] # {}
Reduction(s) == CHOOSE rule \in Recognized[s] : TRUE
ShiftsError(s) == "error" \in DOMAIN Goto[s]
\* Every token leads to the same reduction, and none is read.
Consistent(s) == Reduces(s) /\ DOMAIN Goto[s] \subseteq Nonterminals
\* Faulty: the program ends where no declaration follows, whatever follows instead.
FaultyReducesOn(s, token) == Reduces(s)
\* Bison gives a state its reduction by default, unless it shifts `error`.
ReducesOn(s, token) == Reduces(s) /\ (ShiftsError(s) => token = "eof")

\* No state has a choice of rules, and of the states that shift `error` only
\* the one after all of decl_stmt_list reduces, to program, at the end of it
\* (and twelve rounds have found every state: Goto would not be defined
\* otherwise).
ASSUME AutomatonIsDeterministic ==
  \A s \in States :
    /\ Cardinality(Recognized[s]) <= 1
    /\ ShiftsError(s) /\ Reduces(s) => Reduction(s) = <<"program", <<"decl_stmt_list">>>>

-----------------------------------------------------------------------------
(***************************************************************************)
(* What the proofs about the parser use of the rules and the automaton.    *)
(* They have no parameters: TLC evaluates these facts for all states.      *)
(***************************************************************************)

\* A rule is a sequence of symbols, none of which is twice `error`; one with a `{` ends with `}`.
ASSUME RulesOfSymbols ==
  \A A \in Nonterminals :
    /\ A \notin {"error", "eof"}
    /\ \A rhs \in Rules[A] :
         /\ rhs \in Seq(STRING)
         /\ \A j, k \in DOMAIN rhs : rhs[j] = "error" /\ rhs[k] = "error" => j = k
         /\ \A j \in DOMAIN rhs : rhs[j] = "{" => rhs[Len(rhs)] = "}"

Items(s) == Closure(Kernels[s])

\* Items are rules, up to one of their symbols.
ASSUME ItemsAreOfRules ==
  \A s \in States : \A item \in Items(s) :
    \E A \in Nonterminals : \E rhs \in Rules[A] : \E d \in 0..Len(rhs) : item = <<A, rhs, d>>

\* No symbol enters the first state.  The items of a state that is entered tell what was
\* recognized on the way to it: a rule leads back to the state it begins in, and on from there.
ASSUME ItemsAreRecognized ==
  /\ Start \in States
  /\ \A s \in States : \A item \in Items(s) :
       IF item[3] = 0 THEN item[1] = "accept" \/ item[1] \in DOMAIN Goto[s] ELSE s # Start
  /\ \A s \in States : \A X \in DOMAIN Goto[s] :
       /\ Goto[s][X] \in States \ {Start} /\ X \notin {"", "none"}
       /\ \A item \in Items(Goto[s][X]) : item[3] # 0 =>
            item[2][item[3]] = X /\ <<item[1], item[2], item[3] - 1>> \in Items(s)

\* The states s leads to.
LeadsTo(s) == {Goto[s][X] : X \in DOMAIN Goto[s]}

\* Behind `error`, and in the braces of a block, what follows leaves the parser consistent, and
\* what follows then leads to a state that shifts `error`.
SoonShiftsError(s) == Consistent(s) /\ \A t \in LeadsTo(s) : ShiftsError(t)
ASSUME ErrorsAreShifted ==
  /\ \A s \in States : ShiftsError(s) =>
       LET e == Goto[s]["error"]
       IN  ~Reduces(e) /\ ~ShiftsError(e) /\ \A t \in LeadsTo(e) : SoonShiftsError(t)
  /\ "{" \notin DOMAIN Goto[Start]
  /\ \A s \in States : \A X \in DOMAIN Goto[s] \ {"inheritance_opt"} :
       "{" \in DOMAIN Goto[Goto[s][X]] => SoonShiftsError(Goto[Goto[s][X]]["{"])

\* The program is the list of declarations, and its end follows it.
ASSUME ProgramEnds ==
  LET program == Goto[Start]["program"]
  IN  /\ "program" \in Nonterminals
      /\ Consistent(Start) /\ ~Reduces(program) /\ DOMAIN Goto[program] = {"eof"}
      /\ \A X \in DOMAIN Goto[Start] \ {"program"} : ShiftsError(Goto[Start][X])
      /\ \A s \in States : \A X \in DOMAIN Goto[s] :
           /\ Goto[s][X] = program => s = Start /\ X = "program"
           /\ Goto[s][X] = Final => s = program
           /\ X = "eof" => Goto[s][X] = Final
      /\ \A s \in States : \A rule \in Recognized[s] :
           rule[1] = "program" => ShiftsError(s) /\ ~Consistent(s)
=============================================================================
