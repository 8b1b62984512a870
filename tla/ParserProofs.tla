----------------------------- MODULE ParserProofs -----------------------------
(***************************************************************************)
(* Proofs about the parser, for all tokens, and every bound on them and on *)
(* the errors.  What they use of the automaton are the assumptions of      *)
(* Grammar, which have no parameters and which TLC evaluates.  ParserInv   *)
(* says why no error is lost: the stack is a path of the automaton         *)
(* (StackInv), on which recovery from a new error never reaches an `error` *)
(* symbol, and what is announced is reported or waits (ErrorsInv) with its *)
(* symbol on the stack (PendingIsOnStack).                                 *)
(***************************************************************************)
EXTENDS Parser, CommonLemmas

-----------------------------------------------------------------------------
(* The inductive invariant *)

Entries == [state : States, symbol : Symbols \cup {""}, hollow : BOOLEAN]

\* Every entry is the state that its symbol leads to from the state below it.
IsPath(st) ==
  /\ st \in Seq(Entries) /\ st # <<>>
  /\ st[1].state = Start /\ st[1].symbol = ""
  /\ \A k \in 1..(Len(st) - 1) :
       /\ st[k + 1].symbol \in DOMAIN Goto[st[k].state]
       /\ st[k + 1].state = Goto[st[k].state][st[k + 1].symbol]

\* The program is reduced at its end, which is shifted last.
StackInv ==
  /\ IsPath(stack)
  /\ Parsing => \A k \in DOMAIN stack : stack[k].symbol # "eof"
  /\ Parsing /\ Top = Goto[Start]["program"] => lookahead = "eof"

\* The end of the program is read once, and only it after MaxTokens tokens.
LookaheadInv ==
  /\ lookahead \in Tokens \cup {NoToken, "eof"}
  /\ taken \in 0..(MaxTokens + 1)
  /\ Parsing /\ lookahead # "eof" => taken <= MaxTokens

\* An error is reported or waits; the parser is at `error` exactly as long as none of the tokens
\* after it has been shifted.
ErrorsInv ==
  /\ yyerrstatus \in 0..3
  /\ pending_errors \in Nat /\ errors \in 0..ErrorLimit /\ announced \in Nat
  /\ outcome \in {"parsing"} \cup Ends
  /\ Parsing => errors < ErrorLimit /\ (yyerrstatus = 3 <=> Last(stack).symbol = "error")
  /\ outcome # "failed" /\ outcome # "too many errors" => errors + pending_errors = announced
  /\ \A k \in DOMAIN stack : stack[k].hollow => errors > 0
  /\ outcome = "accepted" => Len(stack) = 3 /\ ErrorSymbols = {}

ParserInv == StackInv /\ LookaheadInv /\ ErrorsInv /\ PendingIsOnStack

-----------------------------------------------------------------------------
(* Paths through the automaton *)

\* The type of a path and of its entries.
LEMMA PathParts ==
  ASSUME NEW st, IsPath(st)
  PROVE  /\ Len(st) \in Nat \ {0} /\ DOMAIN st = 1..Len(st) /\ Last(st) = st[Len(st)]
         /\ \A k \in 1..Len(st) : /\ st[k] \in Entries /\ st[k].state \in States
<1>1. st \in Seq(Entries) /\ st # <<>>
  BY DEF IsPath
<1>2. Len(st) \in Nat \ {0} /\ DOMAIN st = 1..Len(st) /\ Last(st) = st[Len(st)]
  BY <1>1, LastProperties, LenProperties
<1>3. \A k \in 1..Len(st) : st[k] \in Entries
  BY <1>1, <1>2
<1>4. QED BY <1>2, <1>3 DEF Entries

\* The rule of a state that reduces is an item that is complete.
LEMMA RuleIsItem ==
  ASSUME NEW s \in States, Reduces(s), NEW rule, rule = Reduction(s)
  PROVE  /\ rule[1] \in Nonterminals /\ rule[1] # "accept"
         /\ rule[2] \in Rules[rule[1]] /\ rule[2] \in Seq(STRING)
         /\ Len(rule[2]) \in Nat /\ DOMAIN rule[2] = 1..Len(rule[2])
         /\ <<rule[1], rule[2], Len(rule[2])>> \in Items(s)
         /\ rule \in Recognized[s]
<1>1. rule \in Recognized[s]
  BY DEF Reduces, Reduction
<1>2. PICK i \in Items(s) : rule = <<i[1], i[2]>> /\ Complete(i) /\ i[1] # "accept"
  <2>1. s \in DOMAIN Kernels
    BY DEF States, Goto, Gotos
  <2>2. Recognized[s] =
          {<<i[1], i[2]>> : i \in {j \in Closure(Kernels[s]) : Complete(j) /\ j[1] # "accept"}}
    BY <2>1 DEF Recognized, RulesRecognized
  <2>3. QED BY <1>1, <2>2 DEF Items
<1>3. PICK A \in Nonterminals : \E rhs \in Rules[A] : \E d \in 0..Len(rhs) : i = <<A, rhs, d>>
  BY <1>2, ItemsAreOfRules
<1>4. PICK rhs \in Rules[A] : \E d \in 0..Len(rhs) : i = <<A, rhs, d>>
  BY <1>3
<1>5. PICK d \in 0..Len(rhs) : i = <<A, rhs, d>>
  BY <1>4
<1>6. rule[1] = A /\ rule[2] = rhs /\ i[3] = d /\ i[1] = A /\ i[2] = rhs
  BY <1>2, <1>5
<1>7. d = Len(rhs)
  BY <1>2, <1>6 DEF Complete
<1>8. rhs \in Seq(STRING)
  BY RulesOfSymbols
<1>9. QED BY <1>1, <1>2, <1>5, <1>6, <1>7, <1>8

\* What a rule has recognized is on top of the stack, over a state that goes on with what the
\* rule makes of it.
LEMMA RuleOnStack ==
  ASSUME NEW st, IsPath(st), Reduces(Last(st).state), NEW rule, rule = Reduction(Last(st).state)
  PROVE  \E n \in 0..(Len(st) - 1) :
           /\ n = Len(rule[2])
           /\ \A k \in 1..n : st[Len(st) - n + k].symbol = rule[2][k]
           /\ rule[1] \in DOMAIN Goto[st[Len(st) - n].state]
<1> DEFINE A == rule[1]
           rhs == rule[2]
<1>0. PICK s, n : s = Last(st).state /\ n = Len(rule[2])
  OBVIOUS
<1>1. PICK m \in Nat \ {0} : m = Len(st)
  BY PathParts
<1>2. s = st[m].state /\ s \in States
  BY <1>0, <1>1, PathParts
<1>3. n \in Nat /\ <<A, rhs, n>> \in Items(s) /\ A # "accept"
  BY <1>0, <1>2, RuleIsItem
<1> DEFINE P(d) == d < m /\ <<A, rhs, n - d>> \in Items(st[m - d].state)
           T == {d \in Nat : P(d)}
<1>4. ASSUME NEW d \in 0..(n - 1), d \in T
      PROVE  d + 1 \in T /\ st[m - d].symbol = rhs[n - d]
  <2> DEFINE i == <<A, rhs, n - d>>
  <2>1. d \in Nat /\ d < m /\ i \in Items(st[m - d].state) /\ n - d \in Nat \ {0}
    BY <1>3, <1>4
  <2>2. m - d \in 1..m /\ st[m - d].state \in States
    <3>1. m - d \in 1..m
      BY <2>1
    <3>2. QED BY <1>1, <3>1, PathParts
  <2>3. i[1] = A /\ i[2] = rhs /\ i[3] = n - d /\ i[3] # 0
    BY <2>1
  <2>4. st[m - d].state # Start
    BY <2>1, <2>2, <2>3, ItemsAreRecognized
  <2>5. m - d # 1
    BY <2>4 DEF IsPath
  <2>6. PICK k \in 1..(m - 1) : k + 1 = m - d /\ k = m - (d + 1) /\ d + 1 < m
    <3>1. m - (d + 1) \in 1..(m - 1) /\ m - (d + 1) + 1 = m - d /\ d + 1 < m
      BY <2>1, <2>2, <2>5
    <3>2. QED BY <3>1
  <2>7. /\ st[k + 1].symbol \in DOMAIN Goto[st[k].state] /\ st[k].state \in States
        /\ st[k + 1].state = Goto[st[k].state][st[k + 1].symbol]
    <3>1. k \in 1..m
      BY <2>6
    <3>2. QED BY <1>1, <2>6, <3>1, PathParts DEF IsPath
  <2>8. i[2][i[3]] = st[k + 1].symbol /\ <<i[1], i[2], i[3] - 1>> \in Items(st[k].state)
    <3>1. PICK t, X, u : t = st[k].state /\ X = st[k + 1].symbol /\ u = st[m - d].state
      OBVIOUS
    <3>2. t \in States /\ X \in DOMAIN Goto[t] /\ u = Goto[t][X]
      BY <2>6, <2>7, <3>1
    <3>3. i \in Items(Goto[t][X]) /\ i[3] # 0
      BY <2>1, <2>3, <3>1, <3>2
    <3>4. i[2][i[3]] = X /\ <<i[1], i[2], i[3] - 1>> \in Items(t)
      BY <3>2, <3>3, ItemsAreRecognized
    <3>5. QED BY <3>1, <3>4
  <2>9. n - d - 1 = n - (d + 1)
    BY <1>3, <2>1
  <2>10. QED BY <2>1, <2>3, <2>6, <2>8, <2>9
<1>5. 0 \in T
  BY <1>1, <1>2, <1>3
<1>6. \A d \in 0..n : d \in T
  <2> HIDE DEF T
  <2>1. QED BY <1>3, <1>4, <1>5, InductionUpTo
<1>7. n < m /\ <<A, rhs, 0>> \in Items(st[m - n].state)
  <2>1. n \in T /\ n - n = 0
    BY <1>3, <1>6
  <2>2. QED BY <2>1
<1>8. A \in DOMAIN Goto[st[m - n].state]
  <2> DEFINE i == <<A, rhs, 0>>
  <2>1. i[1] = A /\ i[3] = 0
    OBVIOUS
  <2>2. m - n \in 1..m
    BY <1>3, <1>7
  <2>3. st[m - n].state \in States
    BY <1>1, <2>2, PathParts
  <2>4. QED BY <1>3, <1>7, <2>1, <2>3, ItemsAreRecognized
<1>9. ASSUME NEW k \in 1..n PROVE st[m - n + k].symbol = rhs[k]
  <2>1. PICK d \in 0..(n - 1) : d = n - k /\ n - d = k /\ m - d = m - n + k
    <3>1. n - k \in 0..(n - 1) /\ n - (n - k) = k /\ m - (n - k) = m - n + k
      BY <1>3, <1>9
    <3>2. QED BY <3>1
  <2>2. d \in T
    <3> HIDE DEF T
    <3>1. d \in 0..n
      BY <1>3, <2>1
    <3>2. QED BY <1>6, <3>1
  <2>3. st[m - d].symbol = rhs[n - d]
    BY <1>4, <2>2
  <2>4. QED
    <3> HIDE DEF T
    <3>1. QED BY <2>1, <2>3
<1>10. n \in 0..(m - 1)
  BY <1>3, <1>7
<1>11. QED
  <2> HIDE DEF T
  <2>1. QED BY <1>0, <1>1, <1>8, <1>9, <1>10

-----------------------------------------------------------------------------
(* The symbols `error` on the stack, and what is pushed on it *)

ErrorsIn(st) == {k \in DOMAIN st : st[k].symbol = "error"}

\* There are finitely many, and the first entry is none.
LEMMA ErrorsAreFinite ==
  ASSUME NEW st, IsPath(st)
  PROVE  IsFiniteSet(ErrorsIn(st)) /\ Cardinality(ErrorsIn(st)) \in Nat
         /\ ErrorsIn(st) \subseteq 2..Len(st)
<1>1. ErrorsIn(st) \subseteq 1..Len(st) /\ Len(st) \in Nat
  BY PathParts DEF ErrorsIn
<1>2. 1 \notin ErrorsIn(st)
  BY DEF ErrorsIn, IsPath
<1>3. IsFiniteSet(1..Len(st))
  BY <1>1, FS_Interval
<1>4. IsFiniteSet(ErrorsIn(st)) /\ Cardinality(ErrorsIn(st)) \in Nat
  BY <1>1, <1>3, FS_Subset, FS_CardinalityType
<1>5. QED BY <1>1, <1>2, <1>4

\* The stack cut at k, and an entry that goes on from there.
LEMMA PushOn ==
  ASSUME NEW st, IsPath(st), NEW k \in 1..Len(st),
         NEW base, base \in Seq(Entries), Len(base) = k, \A j \in 1..k : base[j] = st[j],
         NEW e, e \in Entries, e.symbol \in DOMAIN Goto[st[k].state],
         e.state = Goto[st[k].state][e.symbol]
  PROVE  /\ IsPath(Append(base, e)) /\ Len(Append(base, e)) = k + 1
         /\ Append(base, e)[k + 1] = e /\ Last(Append(base, e)) = e
         /\ \A j \in 1..k : Append(base, e)[j] = st[j]
<1>0. PICK new : new = Append(base, e)
  OBVIOUS
<1>1. k \in Nat \ {0}
  BY PathParts
<1>2. /\ new \in Seq(Entries) /\ Len(new) = k + 1
      /\ \A j \in 1..k : new[j] = base[j]
      /\ new[k + 1] = e
  <2>1. PICK m : m = Len(base)
    OBVIOUS
  <2>2. /\ Append(base, e) \in Seq(Entries) /\ Len(Append(base, e)) = m + 1
        /\ \A j \in 1..m : Append(base, e)[j] = base[j]
        /\ Append(base, e)[m + 1] = e
    BY <2>1, AppendType
  <2>3. QED BY <1>0, <2>1, <2>2
<1>3. new # <<>> /\ Last(new) = e
  <2>1. new # <<>>
    BY <1>1, <1>2
  <2>2. QED BY <1>2, <2>1, LastProperties
<1>4. \A j \in 1..k : new[j] = st[j]
  BY <1>2
<1>5. new[1].state = Start /\ new[1].symbol = ""
  <2>1. 1 \in 1..k
    BY <1>1
  <2>2. QED BY <1>4, <2>1 DEF IsPath
<1>6. ASSUME NEW j \in 1..(Len(new) - 1)
      PROVE  /\ new[j + 1].symbol \in DOMAIN Goto[new[j].state]
             /\ new[j + 1].state = Goto[new[j].state][new[j + 1].symbol]
  <2>1. j \in 1..k /\ (j # k => j + 1 \in 1..k /\ j \in 1..(Len(st) - 1))
    <3>1. PICK m \in Nat : m = Len(st) /\ k <= m
      BY PathParts
    <3>2. QED BY <1>1, <1>2, <3>1
  <2>2. CASE j = k
    BY <1>2, <1>4, <2>1, <2>2
  <2>3. CASE j # k
    BY <1>4, <2>1, <2>3 DEF IsPath
  <2>4. QED BY <2>2, <2>3
<1>7. IsPath(new)
  BY <1>2, <1>3, <1>5, <1>6 DEF IsPath
<1>8. QED BY <1>0, <1>2, <1>3, <1>4, <1>7

\* Its errors are those below the cut, and the entry if it is one.
LEMMA ErrorsOfPush ==
  ASSUME NEW st, IsPath(st), NEW new, IsPath(new), NEW k \in 1..Len(st), Len(new) = k + 1,
         \A j \in 1..k : new[j] = st[j]
  PROVE  ErrorsIn(new) = {j \in ErrorsIn(st) : j <= k}
                         \cup (IF new[k + 1].symbol = "error" THEN {k + 1} ELSE {})
<1>1. PICK m \in Nat \ {0} : m = Len(st)
  BY PathParts
<1>2. k \in 1..m /\ DOMAIN st = 1..m /\ DOMAIN new = 1..(k + 1)
  BY <1>1, PathParts
<1>3. ASSUME NEW j \in ErrorsIn(new)
      PROVE  (j \in ErrorsIn(st) /\ j <= k) \/ (j = k + 1 /\ new[k + 1].symbol = "error")
  BY <1>2, <1>3 DEF ErrorsIn
<1>4. ASSUME NEW j \in ErrorsIn(st), j <= k PROVE j \in ErrorsIn(new)
  BY <1>2, <1>4 DEF ErrorsIn
<1>5. new[k + 1].symbol = "error" => k + 1 \in ErrorsIn(new)
  BY <1>2 DEF ErrorsIn
<1>6. QED BY <1>3, <1>4, <1>5

\* The lower part of the stack.
LEMMA CutParts ==
  ASSUME NEW st, IsPath(st), NEW k \in 1..Len(st)
  PROVE  /\ SubSeq(st, 1, k) \in Seq(Entries) /\ Len(SubSeq(st, 1, k)) = k
         /\ \A j \in 1..k : SubSeq(st, 1, k)[j] = st[j]
         /\ Last(SubSeq(st, 1, k)) = st[k]
<1>0. PICK base : base = SubSeq(st, 1, k)
  OBVIOUS
<1>1. st \in Seq(Entries)
  BY DEF IsPath
<1>2. PICK m \in Nat \ {0} : m = Len(st)
  BY PathParts
<1>3. k \in Nat \ {0} /\ k <= m /\ k \in Int /\ 1 \in Int
  BY <1>2
<1>4. \A j \in 1..k : st[j] \in Entries
  BY <1>2, <1>3, PathParts
<1>5. /\ base \in Seq(Entries) /\ Len(base) = (IF 1 <= k THEN k - 1 + 1 ELSE 0)
      /\ \A j \in 1..(k - 1 + 1) : base[j] = st[1 + j - 1]
  BY <1>0, <1>3, <1>4, SubSeqProperties
<1>6. Len(base) = k /\ \A j \in 1..k : base[j] = st[j]
  BY <1>3, <1>5
<1>7. base # <<>>
  BY <1>3, <1>6
<1>8. Last(base) = st[k]
  <2>1. Last(base) = base[Len(base)]
    BY <1>5, <1>7, LastProperties
  <2>2. k \in 1..k
    BY <1>3
  <2>3. QED BY <1>6, <2>1, <2>2
<1>9. QED BY <1>0, <1>5, <1>6, <1>8

\* What a symbol leads to.
LEMMA EntryParts ==
  ASSUME NEW s \in States, NEW X \in DOMAIN Goto[s]
  PROVE  /\ Goto[s][X] \in States /\ Goto[s][X] # Start
         /\ X \in Symbols /\ X # "" /\ X # "none"
<1>1. Goto[s][X] \in States /\ Goto[s][X] # Start /\ X # "" /\ X # "none"
  BY ItemsAreRecognized
<1>2. X \in Symbols
  BY DEF Symbols
<1>3. QED BY <1>1, <1>2

-----------------------------------------------------------------------------
(* Reductions *)

\* A reduction puts what the rule makes on what is below the symbols it is made of, and what it
\* makes is hollow if one of these is, or the function has no body.
LEMMA ReducePushes ==
  ASSUME ParserInv, ReduceDue, NEW rule, rule = Reduction(Top), PopAndPush(rule)
  PROVE  \E k \in 1..Len(stack) :
           /\ k = Len(stack) - Len(rule[2])
           /\ IsPath(stack') /\ Len(stack') = k + 1
           /\ \A j \in 1..k : stack'[j] = stack[j]
           /\ Last(stack') = stack'[k + 1]
           /\ stack'[k + 1].symbol = rule[1] /\ rule[1] \in Nonterminals
           /\ rule[1] \in DOMAIN Goto[stack[k].state]
           /\ stack'[k + 1].state = Goto[stack[k].state][rule[1]]
           /\ stack'[k + 1].hollow => \/ rule[2] = <<"func", "error", "block">>
                                      \/ \E j \in DOMAIN stack : stack[j].hollow
<1>1. IsPath(stack)
  BY DEF ParserInv, StackInv
<1>2. PICK m \in Nat \ {0} : m = Len(stack)
  BY <1>1, PathParts
<1>3. Reduces(Top) /\ Top = Last(stack).state /\ Top \in States
  BY <1>1, <1>2, PathParts DEF ReduceDue, Top
<1>4. PICK n \in 0..(m - 1) :
        n = Len(rule[2]) /\ rule[1] \in DOMAIN Goto[stack[m - n].state]
  BY <1>1, <1>2, <1>3, RuleOnStack
<1>5. PICK k \in 1..m : k = m - n
  <2>1. m - n \in 1..m
    OBVIOUS
  <2>2. QED BY <2>1
<1>6. PICK A : A = rule[1] /\ A \in DOMAIN Goto[stack[k].state] /\ A \in Nonterminals
  <2>2. rule[1] \in DOMAIN Goto[stack[k].state]
    BY <1>4, <1>5
  <2>3. QED BY <1>3, <2>2, RuleIsItem
<1>7. PICK base, popped, new :
        /\ base = SubSeq(stack, 1, k) /\ popped = SubSeq(stack, k + 1, m) /\ new = stack'
  OBVIOUS
<1>8. base \in Seq(Entries) /\ Len(base) = k /\ Last(base) = stack[k]
      /\ \A j \in 1..k : base[j] = stack[j]
  <2>1. k \in 1..Len(stack)
    BY <1>2, <1>5
  <2>2. QED BY <1>1, <1>7, <2>1, CutParts
<1>9. new = Append(base, Entry(Goto[Last(base).state][A], A,
                               \/ rule[2] = <<"func", "error", "block">>
                               \/ \E j \in DOMAIN popped : popped[j].hollow))
  <2>1. base = SubSeq(stack, 1, Len(stack) - Len(rule[2]))
    BY <1>2, <1>4, <1>5, <1>7
  <2>2. popped = SubSeq(stack, Len(base) + 1, Len(stack))
    BY <1>2, <1>7, <1>8
  <2>3. QED BY <1>6, <1>7, <2>1, <2>2 DEF PopAndPush
<1>10. PICK e : /\ new = Append(base, e) /\ e = Entry(Goto[Last(base).state][A], A,
                               \/ rule[2] = <<"func", "error", "block">>
                               \/ \E j \in DOMAIN popped : popped[j].hollow)
  BY <1>9
<1>11. stack[k].state \in States
  BY <1>1, <1>2, <1>5, PathParts
<1>12. e \in Entries /\ e.symbol = A /\ e.state = Goto[stack[k].state][A]
  <2>1. Goto[stack[k].state][A] \in States /\ A \in Symbols
    BY <1>6, <1>11, EntryParts
  <2>2. (\/ rule[2] = <<"func", "error", "block">>
         \/ \E j \in DOMAIN popped : popped[j].hollow) \in BOOLEAN
    OBVIOUS
  <2>3. QED BY <1>8, <1>10, <2>1, <2>2 DEF Entry, Entries
<1>13. e.hollow => \/ rule[2] = <<"func", "error", "block">>
                   \/ \E j \in DOMAIN popped : popped[j].hollow
  BY <1>10 DEF Entry
<1>14. ASSUME NEW j \in DOMAIN popped, popped[j].hollow
       PROVE  \E i \in DOMAIN stack : stack[i].hollow
  <2>1. k + 1 \in Int /\ m \in Int /\ \A i \in (k + 1)..m : stack[i] \in Entries
    <3>1. PICK l \in 1..m : l = k
      BY <1>5
    <3>2. l + 1 \in Int /\ m \in Int /\ \A i \in (l + 1)..m : i \in 1..m
      BY <3>1
    <3>3. \A i \in 1..m : stack[i] \in Entries
      BY <1>1, <1>2, PathParts
    <3>4. QED BY <3>1, <3>2, <3>3
  <2>2. /\ popped \in Seq(Entries)
        /\ Len(popped) = IF k + 1 <= m THEN m - (k + 1) + 1 ELSE 0
        /\ \A i \in 1..(m - (k + 1) + 1) : popped[i] = stack[k + 1 + i - 1]
    <3>1. PICK l \in Int : l = k + 1
      BY <2>1
    <3>2. /\ SubSeq(stack, l, m) \in Seq(Entries)
          /\ Len(SubSeq(stack, l, m)) = IF l <= m THEN m - l + 1 ELSE 0
          /\ \A i \in 1..(m - l + 1) : SubSeq(stack, l, m)[i] = stack[l + i - 1]
      <4>1. m \in Int /\ \A i \in l..m : stack[i] \in Entries
        BY <2>1, <3>1
      <4>2. QED BY <4>1, SubSeqProperties
    <3>3. QED BY <1>7, <3>1, <3>2
  <2>3. Len(popped) = m - k
    BY <1>5, <2>2
  <2>4. j \in 1..(m - k)
    BY <1>14, <2>2, <2>3
  <2>5. popped[j] = stack[k + j] /\ k + j \in 1..m
    <3>1. PICK l \in 1..m : l = k
      BY <1>5
    <3>3. j \in 1..(m - l) /\ l + 1 + j - 1 = l + j /\ j \in 1..(m - (l + 1) + 1) /\ l + j \in 1..m
      BY <2>4, <3>1
    <3>4. QED BY <2>2, <3>1, <3>3
  <2>6. QED BY <1>1, <1>2, <1>14, <2>5, PathParts
<1>15. k \in 1..Len(stack)
  BY <1>2, <1>5
<1>16. /\ IsPath(new) /\ Len(new) = k + 1 /\ new[k + 1] = e /\ Last(new) = e
       /\ \A j \in 1..k : new[j] = stack[j]
  <2>1. e \in Entries /\ e.symbol \in DOMAIN Goto[stack[k].state]
        /\ e.state = Goto[stack[k].state][e.symbol]
    BY <1>6, <1>12
  <2>2. PICK st : st = stack
    OBVIOUS
  <2>3. /\ IsPath(st) /\ k \in 1..Len(st) /\ base \in Seq(Entries) /\ Len(base) = k
        /\ \A j \in 1..k : base[j] = st[j]
        /\ e.symbol \in DOMAIN Goto[st[k].state] /\ e.state = Goto[st[k].state][e.symbol]
    BY <1>1, <1>8, <1>15, <2>1, <2>2
  <2>4. /\ IsPath(Append(base, e)) /\ Len(Append(base, e)) = k + 1
        /\ Append(base, e)[k + 1] = e /\ Last(Append(base, e)) = e
        /\ \A j \in 1..k : Append(base, e)[j] = st[j]
    BY <2>1, <2>3, PushOn
  <2>5. QED BY <1>10, <2>2, <2>4
<1>17. k = Len(stack) - Len(rule[2])
  BY <1>2, <1>4, <1>5
<1>18. QED BY <1>6, <1>7, <1>12, <1>13, <1>14, <1>15, <1>16, <1>17

\* The symbols `error` that are popped are those of the rule.
LEMMA ErrorsOfReduce ==
  ASSUME ParserInv, ReduceDue, NEW rule, rule = Reduction(Top), PopAndPush(rule)
  PROVE  /\ ~IsErrorRule(rule) => ErrorsIn(stack') = ErrorsIn(stack)
         /\ IsErrorRule(rule) => \E j \in ErrorsIn(stack) : ErrorsIn(stack') = ErrorsIn(stack) \ {j}
<1>1. IsPath(stack)
  BY DEF ParserInv, StackInv
<1>2. PICK m \in Nat \ {0} : m = Len(stack)
  BY <1>1, PathParts
<1>3. Reduces(Top) /\ Top = Last(stack).state /\ Top \in States
  BY <1>1, <1>2, PathParts DEF ReduceDue, Top
<1>4. PICK n \in 0..(m - 1) :
        n = Len(rule[2]) /\ \A j \in 1..n : stack[m - n + j].symbol = rule[2][j]
  <2>1. PICK st : st = stack
    OBVIOUS
  <2>2. IsPath(st) /\ Reduces(Last(st).state) /\ rule = Reduction(Last(st).state) /\ m = Len(st)
    BY <1>1, <1>2, <1>3, <2>1
  <2>3. PICK n \in 0..(Len(st) - 1) :
          /\ n = Len(rule[2])
          /\ \A k \in 1..n : st[Len(st) - n + k].symbol = rule[2][k]
          /\ rule[1] \in DOMAIN Goto[st[Len(st) - n].state]
    BY <2>2, RuleOnStack
  <2>4. \A k \in 1..n : st[m - n + k].symbol = rule[2][k]
    BY <2>2, <2>3
  <2>5. QED BY <2>1, <2>2, <2>3, <2>4
<1>5. PICK new, rhs : new = stack' /\ rhs = rule[2]
  OBVIOUS
<1>6. PICK k \in 1..Len(stack) :
        /\ k = Len(stack) - Len(rule[2])
        /\ IsPath(stack') /\ Len(stack') = k + 1 /\ \A j \in 1..k : stack'[j] = stack[j]
        /\ stack'[k + 1].symbol = rule[1] /\ rule[1] \in Nonterminals
  BY ReducePushes
<1>7. /\ k = m - n /\ k \in 1..m
      /\ IsPath(new) /\ Len(new) = k + 1 /\ \A j \in 1..k : new[j] = stack[j]
      /\ new[k + 1].symbol = rule[1] /\ rule[1] \in Nonterminals
  BY <1>2, <1>4, <1>5, <1>6
<1>8. rule[1] # "error"
  BY <1>7, RulesOfSymbols
<1>9. ErrorsIn(new) = {j \in ErrorsIn(stack) : j <= k}
  <2>1. ErrorsIn(new) = {j \in ErrorsIn(stack) : j <= k}
                        \cup (IF new[k + 1].symbol = "error" THEN {k + 1} ELSE {})
    <3>1. PICK st : st = stack
      OBVIOUS
    <3>2. /\ IsPath(st) /\ IsPath(new) /\ k \in 1..Len(st) /\ Len(new) = k + 1
          /\ \A j \in 1..k : new[j] = st[j]
      BY <1>1, <1>7, <3>1
    <3>3. ErrorsIn(new) = {j \in ErrorsIn(st) : j <= k}
                          \cup (IF new[k + 1].symbol = "error" THEN {k + 1} ELSE {})
      BY <3>2, ErrorsOfPush
    <3>4. QED BY <3>1, <3>3
  <2>2. QED BY <1>7, <1>8, <2>1
<1>10. DOMAIN rhs = 1..n /\ \A i, j \in DOMAIN rhs : rhs[i] = "error" /\ rhs[j] = "error" => i = j
  <2>1. /\ rule[1] \in Nonterminals /\ rule[2] \in Rules[rule[1]]
        /\ DOMAIN rule[2] = 1..Len(rule[2])
    BY <1>3, RuleIsItem
  <2>2. QED BY <1>4, <1>5, <2>1, RulesOfSymbols
<1>11. \A j \in ErrorsIn(stack) : ~(j <= k) => j - k \in 1..n /\ rhs[j - k] = "error"
  <2>1. SUFFICES ASSUME NEW j \in ErrorsIn(stack), ~(j <= k)
                 PROVE  j - k \in 1..n /\ rhs[j - k] = "error"
    OBVIOUS
  <2>2. j \in 1..m /\ stack[j].symbol = "error"
    BY <1>1, <1>2, PathParts DEF ErrorsIn
  <2>3. PICK i \in 1..n : i = j - k /\ j = m - n + i
    <3>1. k = m - n /\ k \in 1..m /\ j \in 1..m /\ ~(j <= k)
      BY <1>7, <2>1, <2>2
    <3>2. j - k \in 1..n /\ j = m - n + (j - k)
      BY <3>1
    <3>3. QED BY <3>2
  <2>4. QED BY <1>4, <1>5, <2>2, <2>3
<1>12. CASE ~IsErrorRule(rule)
  <2>1. \A j \in 1..n : rhs[j] # "error"
    BY <1>4, <1>5, <1>10, <1>12 DEF IsErrorRule
  <2>2. ErrorsIn(new) = ErrorsIn(stack)
    BY <1>9, <1>11, <2>1
  <2>3. QED BY <1>4, <1>5, <1>12, <2>2
<1>13. CASE IsErrorRule(rule)
  <2>1. PICK i \in 1..n : rhs[i] = "error"
    BY <1>4, <1>5, <1>10, <1>13 DEF IsErrorRule
  <2>2. PICK j : j = m - n + i
    OBVIOUS
  <2>3. j \in 1..m /\ ~(j <= k) /\ j - k = i /\ j = k + i
    BY <1>4, <1>5, <1>7, <2>1, <2>2
  <2>4. j \in ErrorsIn(stack)
    BY <1>1, <1>2, <1>4, <1>5, <2>1, <2>2, <2>3, PathParts DEF ErrorsIn
  <2>5. ASSUME NEW h \in ErrorsIn(stack), ~(h <= k) PROVE h = j
    <3>1. h - k \in 1..n /\ rhs[h - k] = "error"
      BY <1>11, <2>5
    <3>2. h - k = i
      BY <1>10, <2>1, <3>1
    <3>3. h \in 1..m
      BY <1>1, <1>2, <2>5, PathParts DEF ErrorsIn
    <3>4. QED BY <1>7, <2>3, <3>2, <3>3
  <2>6. ErrorsIn(new) = ErrorsIn(stack) \ {j}
    BY <1>9, <2>3, <2>5
  <2>7. QED BY <1>4, <1>5, <1>13, <2>4, <2>6
<1>14. QED BY <1>12, <1>13

-----------------------------------------------------------------------------
(* Recovery *)

\* What is above `error`: nothing, an entry that leaves the parser consistent, or one more from
\* where `error` can be shifted again.
LEMMA AboveError ==
  ASSUME NEW st, IsPath(st), NEW j \in ErrorsIn(st)
  PROVE  /\ j \in 2..Len(st) /\ ShiftsError(st[j - 1].state)
         /\ ~Reduces(st[j].state) /\ ~ShiftsError(st[j].state)
         /\ j < Len(st) => Consistent(st[j + 1].state)
         /\ j + 1 < Len(st) => ShiftsError(st[j + 2].state)
<1>1. PICK m \in Nat \ {0} : m = Len(st)
  BY PathParts
<1>2. j \in 2..m /\ st[j].symbol = "error"
  BY <1>1, ErrorsAreFinite DEF ErrorsIn
<1>3. PICK k \in 1..(m - 1) : k = j - 1 /\ j = k + 1
  <2>1. j - 1 \in 1..(m - 1) /\ j = (j - 1) + 1
    BY <1>2
  <2>2. QED BY <2>1
<1>4. PICK s, e : s = st[k].state /\ e = st[k + 1].state
  OBVIOUS
<1>5. s \in States /\ "error" \in DOMAIN Goto[s] /\ e = Goto[s]["error"]
  <2>1. k \in 1..(Len(st) - 1) /\ k \in 1..Len(st)
    BY <1>1, <1>3
  <2>2. /\ st[k + 1].symbol \in DOMAIN Goto[st[k].state]
        /\ st[k + 1].state = Goto[st[k].state][st[k + 1].symbol]
    BY <2>1 DEF IsPath
  <2>3. st[k].state \in States
    BY <2>1, PathParts
  <2>4. st[k + 1].symbol = "error"
    BY <1>2, <1>3
  <2>5. QED BY <1>4, <2>2, <2>3, <2>4
<1>6. ShiftsError(s)
  BY <1>5 DEF ShiftsError
<1>7. ~Reduces(e) /\ ~ShiftsError(e) /\ \A t \in LeadsTo(e) : SoonShiftsError(t)
  BY <1>5, <1>6, ErrorsAreShifted
<1>8. ASSUME j < Len(st) PROVE st[j + 1].state \in LeadsTo(e)
  <2>1. j \in 1..(Len(st) - 1)
    BY <1>1, <1>2, <1>8
  <2>2. st[j + 1].symbol \in DOMAIN Goto[st[j].state]
        /\ st[j + 1].state = Goto[st[j].state][st[j + 1].symbol]
    BY <2>1 DEF IsPath
  <2>3. QED BY <1>3, <1>4, <2>2 DEF LeadsTo
<1>9. ASSUME j + 1 < Len(st) PROVE j < Len(st) /\ st[j + 2].state \in LeadsTo(st[j + 1].state)
  <2>1. PICK i : i = j + 1 /\ i + 1 = j + 2 /\ i \in 1..(Len(st) - 1) /\ j < Len(st)
    BY <1>1, <1>2, <1>9
  <2>2. st[i + 1].symbol \in DOMAIN Goto[st[i].state]
        /\ st[i + 1].state = Goto[st[i].state][st[i + 1].symbol]
    BY <2>1 DEF IsPath
  <2>3. QED BY <2>1, <2>2 DEF LeadsTo
<1>10. QED BY <1>1, <1>2, <1>3, <1>4, <1>6, <1>7, <1>8, <1>9 DEF SoonShiftsError

\* In an error there is a state below that shifts `error`.
LEMMA RecoveryFromInv == ParserInv => CanRecover
<1> SUFFICES ASSUME ParserInv, Unexpected PROVE \E k \in DOMAIN stack : ShiftsError(stack[k].state)
  BY DEF CanRecover
<1>1. IsPath(stack) /\ Parsing /\ ~Consistent(Top) /\ ~Shifts
  BY DEF ParserInv, StackInv, Unexpected
<1>2. PICK m \in Nat \ {0} : m = Len(stack) /\ DOMAIN stack = 1..m
  BY <1>1, PathParts
<1>3. Top = stack[m].state /\ stack[1].state = Start
  BY <1>1, <1>2, PathParts DEF Top, IsPath
<1>4. m # 1
  BY <1>1, <1>3, ProgramEnds
<1>5. /\ 1 + 1 = 2 /\ 2 \in 1..m
      /\ stack[2].symbol \in DOMAIN Goto[Start] /\ stack[2].state = Goto[Start][stack[2].symbol]
  <2>1. 1 \in 1..(m - 1) /\ 1 + 1 = 2 /\ 2 \in 1..m
    BY <1>4
  <2>2. QED BY <1>1, <1>2, <1>3, <2>1 DEF IsPath
<1>6. CASE stack[2].symbol # "program"
  <2>1. ShiftsError(stack[2].state)
    BY <1>5, <1>6, ProgramEnds
  <2>2. QED BY <1>2, <1>5, <2>1
<1>7. CASE stack[2].symbol = "program"
  <2>1. stack[2].state = Goto[Start]["program"]
    BY <1>5, <1>7
  <2>2. CASE m = 2
    <3>1. Top = Goto[Start]["program"]
      BY <1>3, <2>1, <2>2
    <3>2. lookahead = "eof"
      BY <1>1, <3>1 DEF ParserInv, StackInv
    <3>3. "eof" \in DOMAIN Goto[Top]
      BY <3>1, ProgramEnds
    <3>4. QED BY <1>1, <3>2, <3>3 DEF Shifts
  <2>3. CASE m # 2
    <3>1. 2 \in 1..(m - 1) /\ 2 + 1 = 3 /\ 3 \in 1..m
      BY <1>4, <2>3
    <3>2. stack[3].symbol \in DOMAIN Goto[Goto[Start]["program"]]
      BY <1>1, <1>2, <2>1, <3>1 DEF IsPath
    <3>3. stack[3].symbol = "eof"
      BY <3>2, ProgramEnds
    <3>4. QED BY <1>1, <1>2, <3>1, <3>3 DEF ParserInv, StackInv
  <2>4. QED BY <2>2, <2>3
<1>8. QED BY <1>6, <1>7

\* Recovery goes on from the last of these states.
LEMMA ErrorIsShifted ==
  ASSUME ParserInv, Unexpected, ShiftError
  PROVE  \E k \in 1..Len(stack) :
           /\ ShiftsError(stack[k].state)
           /\ \A i \in 1..Len(stack) : ShiftsError(stack[i].state) => i <= k
           /\ IsPath(stack') /\ Len(stack') = k + 1
           /\ \A j \in 1..k : stack'[j] = stack[j]
           /\ stack'[k + 1] = Last(stack') /\ stack'[k + 1].symbol = "error"
           /\ ~stack'[k + 1].hollow
           /\ stack'[k + 1].state = Goto[stack[k].state]["error"]
<1>1. IsPath(stack)
  BY DEF ParserInv, StackInv
<1>2. PICK m \in Nat \ {0} : m = Len(stack) /\ DOMAIN stack = 1..m
  BY <1>1, PathParts
<1>3. PICK T : T = {i \in DOMAIN stack : ShiftsError(stack[i].state)}
  OBVIOUS
<1>4. T \in SUBSET (0..m) /\ T # {}
  <2>1. T # {}
    BY <1>3, RecoveryFromInv DEF CanRecover
  <2>2. QED BY <1>2, <1>3, <2>1
<1>5. PICK k \in T : k = Max(T) /\ \A i \in T : i <= k
  BY <1>4, MaxIsLargest
<1>6. k \in 1..m /\ ShiftsError(stack[k].state)
      /\ \A i \in 1..m : ShiftsError(stack[i].state) => i <= k
  BY <1>2, <1>3, <1>5
<1>7. PICK e, base, st :
        /\ e = Entry(Goto[stack[k].state]["error"], "error", FALSE)
        /\ base = SubSeq(stack, 1, k) /\ st = stack
  OBVIOUS
<1>8. stack' = Append(base, e)
  BY <1>3, <1>5, <1>7 DEF ShiftError
<1>9. e.symbol = "error" /\ e.hollow = FALSE /\ e.state = Goto[stack[k].state]["error"]
  BY <1>7 DEF Entry
<1>10. "error" \in DOMAIN Goto[stack[k].state] /\ stack[k].state \in States
  BY <1>1, <1>2, <1>6, PathParts DEF ShiftsError
<1>11. e \in Entries
  BY <1>7, <1>10, EntryParts DEF Entry, Entries
<1>12. base \in Seq(Entries) /\ Len(base) = k /\ \A j \in 1..k : base[j] = st[j]
  <2>1. IsPath(st) /\ k \in 1..Len(st) /\ base = SubSeq(st, 1, k)
    BY <1>1, <1>2, <1>6, <1>7
  <2>2. QED BY <2>1, CutParts
<1>13. /\ IsPath(Append(base, e)) /\ Len(Append(base, e)) = k + 1
       /\ Append(base, e)[k + 1] = e /\ Last(Append(base, e)) = e
       /\ \A j \in 1..k : Append(base, e)[j] = st[j]
  <2>1. /\ IsPath(st) /\ k \in 1..Len(st) /\ e.symbol \in DOMAIN Goto[st[k].state]
        /\ e.state = Goto[st[k].state][e.symbol]
    BY <1>1, <1>2, <1>6, <1>7, <1>9, <1>10
  <2>2. QED BY <1>11, <1>12, <2>1, PushOn
<1>14. QED BY <1>2, <1>6, <1>7, <1>8, <1>9, <1>13

-----------------------------------------------------------------------------
(* The steps *)

\* The tokens are terminals.
LEMMA TokenParts ==
  ASSUME NEW t \in Tokens
  PROVE  t \notin Nonterminals /\ t # "error" /\ t # "eof" /\ t # NoToken
<1>1. t \in Terminals
  BY ParserAssumption
<1>2. t \notin Nonterminals /\ t # "error" /\ t # "eof"
  BY <1>1 DEF Terminals
<1>3. PICK s \in States : t \in DOMAIN Goto[s]
  BY <1>1 DEF Terminals, Symbols
<1>4. t # "none"
  BY <1>3, EntryParts
<1>5. QED BY <1>2, <1>4 DEF NoToken

\* The program is on the stack by itself.
LEMMA ProgramOnStack ==
  ASSUME NEW st, IsPath(st), Last(st).state = Goto[Start]["program"]
  PROVE  Len(st) = 2 /\ st[2].symbol = "program"
<1>1. PICK m \in Nat \ {0} : m = Len(st)
  BY PathParts
<1>2. PICK p : p = Goto[Start]["program"]
  OBVIOUS
<1>3. p # Start
  BY <1>2, ProgramEnds, RulesOfSymbols DEF Consistent
<1>4. st[m].state = p /\ st[1].state = Start
  BY <1>1, <1>2, PathParts DEF IsPath
<1>5. m # 1
  BY <1>3, <1>4
<1>6. PICK k \in 1..(m - 1) : m = k + 1
  <2>1. m - 1 \in 1..(m - 1) /\ m = (m - 1) + 1
    BY <1>5
  <2>2. QED BY <2>1
<1>7. st[k].state \in States /\ st[m].symbol \in DOMAIN Goto[st[k].state]
      /\ p = Goto[st[k].state][st[m].symbol]
  <2>1. k \in 1..m
    BY <1>6
  <2>2. QED BY <1>1, <1>4, <1>6, <2>1, PathParts DEF IsPath
<1>8. st[k].state = Start /\ st[m].symbol = "program"
  BY <1>2, <1>7, ProgramEnds
<1>9. k = 1
  <2>1. SUFFICES ASSUME k # 1 PROVE FALSE
    OBVIOUS
  <2>2. PICK i \in 1..(m - 1) : k = i + 1 /\ i \in 1..m
    <3>1. k - 1 \in 1..(m - 1) /\ k = (k - 1) + 1 /\ k - 1 \in 1..m
      BY <1>6, <2>1
    <3>2. QED BY <3>1
  <2>3. st[i].state \in States /\ st[k].symbol \in DOMAIN Goto[st[i].state]
        /\ st[k].state = Goto[st[i].state][st[k].symbol]
    BY <1>1, <2>2, PathParts DEF IsPath
  <2>4. QED BY <1>8, <2>3, EntryParts
<1>10. QED BY <1>1, <1>6, <1>8, <1>9

\* The parser starts with an empty stack.
LEMMA InitInv == Init => ParserInv
<1> SUFFICES ASSUME Init PROVE ParserInv
  OBVIOUS
<1>1. PICK e : e = Entry(Start, "", FALSE)
  OBVIOUS
<1>2. e \in Entries /\ e.state = Start /\ e.symbol = "" /\ e.hollow = FALSE
  BY <1>1, ItemsAreRecognized DEF Entry, Entries
<1>3. stack = <<e>>
  BY <1>1 DEF Init
<1>4. stack \in Seq(Entries) /\ Len(stack) = 1 /\ stack[1] = e /\ stack # <<>>
  <2>1. e \in Entries
    BY <1>2
  <2>2. /\ <<e>> \in Seq(Entries) /\ Len(<<e>>) = 1 /\ <<e>>[1] = e /\ <<e>> # <<>>
    BY <2>1
  <2>3. QED BY <1>3, <2>2
<1>5. IsPath(stack)
  <2>1. 1..(Len(stack) - 1) = {}
    BY <1>4
  <2>2. QED BY <1>2, <1>4, <2>1 DEF IsPath
<1>6. DOMAIN stack = {1} /\ Last(stack) = e
  BY <1>4, <1>5, PathParts
<1>7. ErrorSymbols = {}
  BY <1>2, <1>4, <1>6 DEF ErrorSymbols
<1>8. Top # Goto[Start]["program"]
  BY <1>2, <1>6, ProgramEnds, RulesOfSymbols DEF Consistent, Top
<1>9. StackInv
  BY <1>2, <1>4, <1>5, <1>6, <1>8 DEF StackInv
<1>10. LookaheadInv
  <2>1. MaxTokens \in Nat
    BY ParserAssumption
  <2>2. taken = 0 /\ lookahead = NoToken
    BY DEF Init
  <2>3. taken \in 0..(MaxTokens + 1) /\ taken <= MaxTokens
    BY <2>1, <2>2
  <2>4. QED BY <2>2, <2>3 DEF LookaheadInv
<1>11. ErrorsInv
  <2>1. ErrorLimit \in Nat \ {0}
    BY ParserAssumption
  <2>2. /\ yyerrstatus = 0 /\ pending_errors = 0 /\ errors = 0 /\ announced = 0
        /\ outcome = "parsing"
    BY DEF Init
  <2>3. \A k \in DOMAIN stack : ~stack[k].hollow
    BY <1>2, <1>4, <1>6
  <2>4. Last(stack).symbol # "error"
    BY <1>2, <1>6
  <2>5. errors < ErrorLimit /\ errors \in 0..ErrorLimit
    BY <2>1, <2>2
  <2>6. QED BY <2>2, <2>3, <2>4, <2>5 DEF ErrorsInv
<1>12. PendingIsOnStack
  <2>1. Cardinality({}) = 0
    BY FS_EmptySet
  <2>2. pending_errors = 0
    BY DEF Init
  <2>3. Cardinality(ErrorSymbols) = 0
    BY <1>7, <2>1
  <2>4. QED BY <2>2, <2>3 DEF PendingIsOnStack
<1>13. QED BY <1>9, <1>10, <1>11, <1>12 DEF ParserInv

\* Cutting the stack nowhere.
LEMMA ShiftPushes ==
  ASSUME ParserInv, Shift
  PROVE  LET m == Len(stack)
         IN  /\ IsPath(stack') /\ Len(stack') = m + 1
             /\ \A j \in 1..m : stack'[j] = stack[j]
             /\ stack'[m + 1] = Last(stack') /\ stack'[m + 1].symbol = lookahead
             /\ ~stack'[m + 1].hollow /\ stack'[m + 1].state = Goto[Top][lookahead]
<1>1. IsPath(stack) /\ lookahead \in DOMAIN Goto[Top]
  BY DEF ParserInv, StackInv, Shift, Shifts
<1>2. PICK m \in Nat \ {0} : m = Len(stack) /\ DOMAIN stack = 1..m
  BY <1>1, PathParts
<1>3. Top = stack[m].state /\ Top \in States
  <2>1. m \in 1..m
    OBVIOUS
  <2>2. QED BY <1>1, <1>2, <2>1, PathParts DEF Top
<1>4. PICK e, st : e = Entry(Goto[Top][lookahead], lookahead, FALSE) /\ st = stack
  OBVIOUS
<1>5. stack' = Append(st, e)
  BY <1>4 DEF Shift
<1>6. e.symbol = lookahead /\ e.hollow = FALSE /\ e.state = Goto[Top][lookahead]
  BY <1>4 DEF Entry
<1>7. e \in Entries
  BY <1>1, <1>3, <1>4, EntryParts DEF Entry, Entries
<1>8. /\ IsPath(Append(st, e)) /\ Len(Append(st, e)) = m + 1
      /\ Append(st, e)[m + 1] = e /\ Last(Append(st, e)) = e
      /\ \A j \in 1..m : Append(st, e)[j] = st[j]
  <2>1. /\ IsPath(st) /\ m \in 1..Len(st) /\ st \in Seq(Entries) /\ Len(st) = m
        /\ \A j \in 1..m : st[j] = st[j]
        /\ e.symbol \in DOMAIN Goto[st[m].state] /\ e.state = Goto[st[m].state][e.symbol]
    <3>1. st \in Seq(Entries)
      BY <1>1, <1>4 DEF IsPath
    <3>3. m \in 1..m
      OBVIOUS
    <3>2. QED BY <1>1, <1>2, <1>3, <1>4, <1>6, <3>1, <3>3
  <2>2. QED BY <1>7, <2>1, PushOn
<1>9. QED BY <1>2, <1>4, <1>5, <1>6, <1>8

\* What a step needs of the invariant.
LEMMA InvParts ==
  ParserInv =>
    /\ IsPath(stack) /\ StackInv /\ LookaheadInv /\ ErrorsInv /\ PendingIsOnStack
    /\ pending_errors <= Cardinality(ErrorsIn(stack))
BY DEF ParserInv, StackInv, PendingIsOnStack, ErrorSymbols, ErrorsIn

\* PendingIsOnStack in terms of the stack.
LEMMA PendingNext ==
  ASSUME pending_errors' <= Cardinality(ErrorsIn(stack'))
  PROVE  PendingIsOnStack'
BY DEF PendingIsOnStack, ErrorSymbols, ErrorsIn

\* A token is read only where the program is not complete.
LEMMA ReadKeeps == ASSUME ParserInv, ReadToken PROVE ParserInv'
<1>1. /\ Parsing /\ lookahead = NoToken /\ UNCHANGED <<stack, yyerrstatus, pending_errors>>
      /\ UNCHANGED <<errors, announced, outcome>> /\ taken' = taken + 1
      /\ lookahead' \in (IF taken < MaxTokens THEN Tokens ELSE {}) \cup {"eof"}
  BY DEF ReadToken
<1>2. Top # Goto[Start]["program"]
  BY <1>1, InvParts DEF StackInv, NoToken
<1>3. StackInv'
  BY <1>1, <1>2, InvParts DEF StackInv, Parsing, Top
<1>4. LookaheadInv'
  <2>1. MaxTokens \in Nat /\ taken \in 0..(MaxTokens + 1) /\ taken <= MaxTokens
    BY <1>1, InvParts, ParserAssumption DEF LookaheadInv, NoToken
  <2>2. taken' \in 0..(MaxTokens + 1) /\ (lookahead' # "eof" => taken' <= MaxTokens)
    BY <1>1, <2>1
  <2>3. lookahead' \in Tokens \cup {"eof"}
    BY <1>1
  <2>4. QED BY <2>2, <2>3 DEF LookaheadInv
<1>5. ErrorsInv'
  BY <1>1, InvParts DEF ErrorsInv, Parsing, ErrorSymbols
<1>6. PendingIsOnStack'
  BY <1>1, InvParts, PendingNext
<1>7. QED BY <1>3, <1>4, <1>5, <1>6 DEF ParserInv

\* What is shifted is a token, which ends the first of the three that must follow an error, or
\* the end of the program, which is on the stack by itself.
LEMMA ShiftKeeps == ASSUME ParserInv, Shift PROVE ParserInv'
<1>1. /\ Parsing /\ Shifts /\ lookahead' = NoToken /\ yyerrstatus' = StatusAfterShift
      /\ outcome' = (IF Goto[Top][lookahead] = Final THEN "accepted" ELSE outcome)
      /\ UNCHANGED <<taken, pending_errors, errors, announced>>
  BY DEF Shift
<1>2. PICK m, new : m = Len(stack) /\ new = stack'
  OBVIOUS
<1>3. m \in Nat \ {0} /\ DOMAIN stack = 1..m /\ Last(stack) = stack[m]
      /\ \A k \in 1..m : stack[k].state \in States
  BY <1>2, InvParts, PathParts
<1>4. /\ IsPath(new) /\ Len(new) = m + 1 /\ \A j \in 1..m : new[j] = stack[j]
      /\ new[m + 1] = Last(new) /\ new[m + 1].symbol = lookahead
      /\ ~new[m + 1].hollow /\ new[m + 1].state = Goto[Top][lookahead]
  BY <1>2, ShiftPushes
<1>5. DOMAIN new = 1..(m + 1) /\ \A k \in 1..(m + 1) : k \in 1..m \/ k = m + 1
  BY <1>3, <1>4, PathParts
<1>6. Top \in States /\ lookahead \in DOMAIN Goto[Top] /\ Top = stack[m].state
  <2>1. m \in 1..m
    BY <1>3
  <2>2. QED BY <1>1, <1>3, <2>1 DEF Shifts, Top
<1>7. lookahead \in Tokens \cup {"eof"} /\ lookahead # "error" /\ lookahead \notin Nonterminals
  <2>1. lookahead # NoToken
    BY <1>6, EntryParts DEF NoToken
  <2>2. lookahead \in Tokens \cup {"eof"}
    BY <2>1, InvParts DEF LookaheadInv
  <2>3. "eof" \notin Nonterminals
    BY RulesOfSymbols
  <2>4. QED BY <2>2, <2>3, TokenParts
<1>8. outcome' # "accepted" => Parsing' /\ lookahead # "eof"
  <2>1. lookahead = "eof" => Goto[Top][lookahead] = Final
    BY <1>6, ProgramEnds
  <2>2. QED BY <1>1, <2>1 DEF Parsing
<1>9. ErrorsIn(new) = ErrorsIn(stack)
  <2>1. PICK st : st = stack
    OBVIOUS
  <2>2. IsPath(st) /\ m \in 1..Len(st) /\ \A j \in 1..m : new[j] = st[j]
    BY <1>2, <1>3, <1>4, <2>1, InvParts
  <2>3. ErrorsIn(new) = {j \in ErrorsIn(st) : j <= m}
    BY <1>4, <1>7, <2>2, ErrorsOfPush
  <2>4. \A j \in ErrorsIn(st) : j <= m
    BY <1>3, <2>1 DEF ErrorsIn
  <2>5. QED BY <2>1, <2>3, <2>4
<1>10. StackInv'
  <2>1. Parsing' => \A k \in DOMAIN new : new[k].symbol # "eof"
    BY <1>1, <1>3, <1>4, <1>5, <1>8, InvParts DEF StackInv, Parsing
  <2>2. Last(new).state # Goto[Start]["program"]
    BY <1>4, <1>6, <1>7, ProgramEnds
  <2>3. QED BY <1>2, <1>4, <2>1, <2>2 DEF StackInv, Top
<1>11. LookaheadInv'
  <2>1. taken \in 0..(MaxTokens + 1) /\ (lookahead # "eof" => taken <= MaxTokens)
    BY <1>1, InvParts DEF LookaheadInv
  <2>2. Parsing' => taken <= MaxTokens
    BY <1>1, <1>8, <2>1 DEF Parsing
  <2>3. QED BY <1>1, <2>1, <2>2 DEF LookaheadInv
<1>12. ErrorsInv'
  <2>1. /\ yyerrstatus \in 0..3 /\ pending_errors \in Nat /\ errors \in 0..ErrorLimit
        /\ announced \in Nat /\ outcome = "parsing" /\ errors < ErrorLimit
        /\ errors + pending_errors = announced
        /\ \A k \in DOMAIN stack : stack[k].hollow => errors > 0
    BY <1>1, InvParts DEF ErrorsInv, Parsing
  <2>2. yyerrstatus' \in 0..2
    BY <1>1, <2>1 DEF StatusAfterShift
  <2>3. Last(new).symbol # "error" /\ yyerrstatus' # 3
    BY <1>4, <1>7, <2>2
  <2>4. \A k \in DOMAIN new : new[k].hollow => errors > 0
    BY <1>3, <1>4, <1>5, <2>1
  <2>5. ASSUME outcome' = "accepted" PROVE Len(new) = 3 /\ ErrorsIn(new) = {}
    <3>1. Top = Goto[Start]["program"]
      BY <1>1, <1>6, <2>1, <2>5, ProgramEnds
    <3>2. Len(stack) = 2 /\ stack[2].symbol = "program"
      BY <3>1, InvParts, ProgramOnStack DEF Top
    <3>3. stack[1].symbol = ""
      BY InvParts DEF IsPath
    <3>4. ErrorsIn(stack) = {}
      <4>1. DOMAIN stack = {1, 2}
        BY <1>2, <1>3, <3>2
      <4>2. QED BY <3>2, <3>3, <4>1 DEF ErrorsIn
    <3>5. QED BY <1>2, <1>4, <1>9, <3>2, <3>4
  <2>6. outcome' \in {"parsing", "accepted"}
    BY <1>1, <2>1
  <2>7. ErrorSymbols' = ErrorsIn(new)
    BY <1>2 DEF ErrorSymbols, ErrorsIn
  <2>8. yyerrstatus' \in 0..3
    BY <2>2
  <2>9. QED BY <1>1, <1>2, <2>1, <2>3, <2>4, <2>5, <2>6, <2>7, <2>8 DEF ErrorsInv, Ends, Parsing
<1>13. PendingIsOnStack'
  BY <1>1, <1>2, <1>9, InvParts, PendingNext
<1>14. QED BY <1>10, <1>11, <1>12, <1>13 DEF ParserInv

\* What a reduction leaves: `error` is never what it puts on top, nor finds there, and the program
\* is put there at its end.
LEMMA ReducedStack ==
  ASSUME ParserInv, ReduceDue, PopAndPush(Reduction(Top))
  PROVE  /\ IsPath(stack') /\ \A k \in DOMAIN stack' : stack'[k].symbol # "eof"
         /\ Last(stack').state = Goto[Start]["program"] => lookahead = "eof"
         /\ Last(stack').symbol # "error" /\ yyerrstatus \in 0..2
<1>1. PICK rule, new : rule = Reduction(Top) /\ new = stack'
  OBVIOUS
<1>2. PICK k \in 1..Len(stack) :
        /\ IsPath(new) /\ Len(new) = k + 1
        /\ \A j \in 1..k : new[j] = stack[j]
        /\ Last(new) = new[k + 1]
        /\ new[k + 1].symbol = rule[1] /\ rule[1] \in Nonterminals
        /\ rule[1] \in DOMAIN Goto[stack[k].state]
        /\ new[k + 1].state = Goto[stack[k].state][rule[1]]
  <2>1. PopAndPush(rule)
    BY <1>1
  <2>2. \E k \in 1..Len(stack) :
           /\ k = Len(stack) - Len(rule[2])
           /\ IsPath(stack') /\ Len(stack') = k + 1
           /\ \A j \in 1..k : stack'[j] = stack[j]
           /\ Last(stack') = stack'[k + 1]
           /\ stack'[k + 1].symbol = rule[1] /\ rule[1] \in Nonterminals
           /\ rule[1] \in DOMAIN Goto[stack[k].state]
           /\ stack'[k + 1].state = Goto[stack[k].state][rule[1]]
           /\ stack'[k + 1].hollow => \/ rule[2] = <<"func", "error", "block">>
                                      \/ \E j \in DOMAIN stack : stack[j].hollow
    BY <1>1, <2>1, ReducePushes
  <2>3. QED BY <1>1, <2>2
<1>3. PICK m \in Nat \ {0} : m = Len(stack) /\ DOMAIN stack = 1..m /\ Last(stack) = stack[m]
  BY InvParts, PathParts
<1>4. /\ stack[k].state \in States /\ Top = stack[m].state /\ Top \in States
      /\ Reduces(Top) /\ Parsing
  <2>1. m \in 1..m /\ k \in 1..m
    BY <1>2, <1>3
  <2>2. QED BY <1>3, <2>1, InvParts, PathParts DEF Top, ReduceDue
<1>5. DOMAIN new = 1..(k + 1) /\ \A j \in 1..(k + 1) : (j \in 1..k /\ j \in 1..m) \/ j = k + 1
  <2>1. DOMAIN new = 1..(k + 1)
    BY <1>2, PathParts
  <2>2. k \in 1..m
    BY <1>2, <1>3
  <2>3. QED BY <2>1, <2>2
<1>6. rule[1] # "eof" /\ rule[1] # "error"
  BY <1>2, RulesOfSymbols
<1>7. \A j \in DOMAIN new : new[j].symbol # "eof"
  <2>1. \A j \in 1..m : stack[j].symbol # "eof"
    BY <1>3, <1>4, InvParts DEF StackInv
  <2>2. QED BY <1>2, <1>5, <1>6, <2>1
<1>8. ASSUME Last(new).state = Goto[Start]["program"] PROVE lookahead = "eof"
  <2>1. rule[1] = "program"
    BY <1>2, <1>4, <1>8, ProgramEnds
  <2>2. rule \in Recognized[Top]
    BY <1>1, <1>4 DEF Reduces, Reduction
  <2>3. ShiftsError(Top) /\ ~Consistent(Top)
    BY <1>4, <2>1, <2>2, ProgramEnds
  <2>4. QED BY <2>3 DEF ReduceDue, ReducesOn
<1>9. Last(stack).symbol # "error"
  <2>1. SUFFICES ASSUME Last(stack).symbol = "error" PROVE FALSE
    OBVIOUS
  <2>2. m \in ErrorsIn(stack)
    BY <1>3, <2>1 DEF ErrorsIn
  <2>3. ~Reduces(stack[m].state)
    BY <2>2, InvParts, AboveError
  <2>4. QED BY <1>4, <2>3
<1>10. yyerrstatus \in 0..2
  <2>1. yyerrstatus \in 0..3 /\ yyerrstatus # 3
    BY <1>4, <1>9, InvParts DEF ErrorsInv
  <2>2. QED BY <2>1
<1>11. QED BY <1>1, <1>2, <1>6, <1>7, <1>8, <1>10

\* A function without a body comes of an error, or of one on the stack.
LEMMA ReducedHollow ==
  ASSUME ParserInv, ReduceDue, PopAndPush(Reduction(Top)), NEW j \in DOMAIN stack',
         stack'[j].hollow
  PROVE  IsErrorRule(Reduction(Top)) \/ errors > 0
<1>1. PICK rule, new : rule = Reduction(Top) /\ new = stack'
  OBVIOUS
<1>2. PICK k \in 1..Len(stack) :
        /\ IsPath(new) /\ Len(new) = k + 1
        /\ \A i \in 1..k : new[i] = stack[i]
        /\ new[k + 1].hollow => \/ rule[2] = <<"func", "error", "block">>
                                \/ \E i \in DOMAIN stack : stack[i].hollow
  <2>1. PopAndPush(rule)
    BY <1>1
  <2>2. \E k \in 1..Len(stack) :
           /\ k = Len(stack) - Len(rule[2])
           /\ IsPath(stack') /\ Len(stack') = k + 1
           /\ \A i \in 1..k : stack'[i] = stack[i]
           /\ Last(stack') = stack'[k + 1]
           /\ stack'[k + 1].symbol = rule[1] /\ rule[1] \in Nonterminals
           /\ rule[1] \in DOMAIN Goto[stack[k].state]
           /\ stack'[k + 1].state = Goto[stack[k].state][rule[1]]
           /\ stack'[k + 1].hollow => \/ rule[2] = <<"func", "error", "block">>
                                      \/ \E i \in DOMAIN stack : stack[i].hollow
    BY <1>1, <2>1, ReducePushes
  <2>3. QED BY <1>1, <2>2
<1>3. PICK m \in Nat \ {0} : m = Len(stack) /\ DOMAIN stack = 1..m
  BY InvParts, PathParts
<1>4. j \in 1..(k + 1)
  BY <1>1, <1>2, PathParts
<1>5. \A i \in DOMAIN stack : stack[i].hollow => errors > 0
  BY InvParts DEF ErrorsInv
<1>6. CASE j # k + 1
  <2>1. j \in 1..k /\ j \in 1..m
    BY <1>2, <1>3, <1>4, <1>6
  <2>2. QED BY <1>1, <1>2, <1>3, <1>5, <2>1
<1>7. CASE j = k + 1 /\ \E i \in DOMAIN stack : stack[i].hollow
  BY <1>5, <1>7
<1>8. CASE j = k + 1 /\ rule[2] = <<"func", "error", "block">>
  <2>1. 2 \in DOMAIN <<"func", "error", "block">> /\ <<"func", "error", "block">>[2] = "error"
    OBVIOUS
  <2>2. 2 \in DOMAIN rule[2] /\ rule[2][2] = "error"
    BY <1>8, <2>1
  <2>3. QED BY <1>1, <2>2 DEF IsErrorRule
<1>9. QED BY <1>1, <1>2, <1>6, <1>7, <1>8

\* A rule without `error` leaves the symbols `error` where they are.
LEMMA ReduceKeeps == ASSUME ParserInv, Reduce PROVE ParserInv'
<1>1. /\ ReduceDue /\ ~IsErrorRule(Reduction(Top)) /\ PopAndPush(Reduction(Top)) /\ Parsing
      /\ UNCHANGED <<lookahead, yyerrstatus, taken, pending_errors, errors, announced, outcome>>
  BY DEF Reduce, ReduceDue
<1>2. StackInv'
  BY <1>1, ReducedStack DEF StackInv, Top
<1>3. LookaheadInv'
  BY <1>1, InvParts DEF LookaheadInv, Parsing
<1>4. ErrorsIn(stack') = ErrorsIn(stack)
  BY <1>1, ErrorsOfReduce
<1>5. ErrorsInv'
  <2>1. \A j \in DOMAIN stack' : stack'[j].hollow => errors > 0
    BY <1>1, ReducedHollow
  <2>2. Last(stack').symbol # "error" /\ yyerrstatus # 3
    BY <1>1, ReducedStack
  <2>3. outcome = "parsing"
    BY <1>1 DEF Parsing
  <2>4. QED BY <1>1, <2>1, <2>2, <2>3, InvParts DEF ErrorsInv, Parsing
<1>6. PendingIsOnStack'
  BY <1>1, <1>4, InvParts, PendingNext
<1>7. QED BY <1>2, <1>3, <1>5, <1>6 DEF ParserInv

\* An error is added while there is room for it.
LEMMA AddErrorParts ==
  ASSUME ParserInv, Parsing, NEW o, AddError(o)
  PROVE  /\ errors' = errors + 1 /\ errors' \in 0..ErrorLimit /\ errors' > 0
         /\ outcome' \in {o, "too many errors"}
         /\ outcome' # "too many errors" => errors' < ErrorLimit
<1>1. ErrorLimit \in Nat \ {0} /\ errors \in 0..ErrorLimit /\ errors < ErrorLimit
  BY InvParts, ParserAssumption DEF ErrorsInv
<1>2. errors' = errors + 1
      /\ outcome' = (IF errors + 1 >= ErrorLimit THEN "too many errors" ELSE o)
  BY DEF AddError
<1>3. errors + 1 \in 0..ErrorLimit /\ errors + 1 > 0
      /\ (~(errors + 1 >= ErrorLimit) => errors + 1 < ErrorLimit)
  BY <1>1
<1>4. QED BY <1>2, <1>3

\* The error reported is one that waited, and its `error` leaves the stack.
LEMMA ReduceErrorKeeps == ASSUME ParserInv, ReduceError PROVE ParserInv'
<1>1. /\ ReduceDue /\ IsErrorRule(Reduction(Top)) /\ PopAndPush(Reduction(Top)) /\ Parsing
      /\ pending_errors > 0 /\ pending_errors' = pending_errors - 1 /\ AddError("parsing")
      /\ yyerrstatus' = 0 /\ UNCHANGED <<lookahead, taken, announced>>
  BY DEF ReduceError, ReduceDue, PendingAfterReport
<1>2. /\ errors' = errors + 1 /\ errors' \in 0..ErrorLimit /\ errors' > 0
      /\ outcome' \in {"parsing", "too many errors"}
      /\ outcome' # "too many errors" => errors' < ErrorLimit
  BY <1>1, AddErrorParts
<1>3. StackInv'
  BY <1>1, ReducedStack DEF StackInv, Top
<1>4. LookaheadInv'
  BY <1>1, InvParts DEF LookaheadInv, Parsing
<1>5. /\ pending_errors \in Nat /\ errors \in 0..ErrorLimit /\ announced \in Nat
      /\ errors + pending_errors = announced
  BY <1>1, InvParts DEF ErrorsInv, Parsing
<1>6. ErrorsInv'
  <2>1. Last(stack').symbol # "error"
    BY <1>1, ReducedStack
  <2>2. pending_errors' \in Nat /\ errors' + pending_errors' = announced'
    <3>1. errors \in Nat
      BY <1>5, ParserAssumption
    <3>2. pending_errors > 0 /\ pending_errors' = pending_errors - 1
          /\ errors' = errors + 1 /\ announced' = announced
      BY <1>1, <1>2
    <3>3. pending_errors - 1 \in Nat /\ (errors + 1) + (pending_errors - 1) = announced
      BY <1>5, <3>1, <3>2
    <3>4. QED BY <3>2, <3>3
  <2>3. yyerrstatus' \in 0..3 /\ yyerrstatus' # 3
    BY <1>1
  <2>4. QED BY <1>1, <1>2, <1>5, <2>1, <2>2, <2>3 DEF ErrorsInv, Parsing, Ends
<1>7. PendingIsOnStack'
  <2>1. PICK E : E = ErrorsIn(stack)
    OBVIOUS
  <2>2. PICK j \in E : ErrorsIn(stack') = E \ {j}
    BY <1>1, <2>1, ErrorsOfReduce
  <2>3. IsFiniteSet(E) /\ Cardinality(E) \in Nat /\ pending_errors <= Cardinality(E)
    BY <2>1, InvParts, ErrorsAreFinite
  <2>4. Cardinality(E \ {j}) = Cardinality(E) - 1
    BY <2>2, <2>3, FS_RemoveElement
  <2>5. pending_errors - 1 <= Cardinality(E) - 1
    BY <1>5, <2>3
  <2>6. QED BY <1>1, <2>2, <2>4, <2>5, PendingNext
<1>8. QED BY <1>3, <1>4, <1>6, <1>7 DEF ParserInv

\* What recovery leaves: `error` on top of what was below it.
LEMMA RecoveredStack ==
  ASSUME ParserInv, Unexpected, ShiftError
  PROVE  /\ IsPath(stack') /\ \A j \in DOMAIN stack' : stack'[j].symbol # "eof"
         /\ Last(stack').state # Goto[Start]["program"] /\ Last(stack').symbol = "error"
         /\ \A j \in DOMAIN stack' : stack'[j].hollow => errors > 0
<1>1. PICK new : new = stack'
  OBVIOUS
<1>2. PICK k \in 1..Len(stack) :
        /\ ShiftsError(stack[k].state)
        /\ IsPath(new) /\ Len(new) = k + 1
        /\ \A j \in 1..k : new[j] = stack[j]
        /\ new[k + 1] = Last(new) /\ new[k + 1].symbol = "error"
        /\ ~new[k + 1].hollow
        /\ new[k + 1].state = Goto[stack[k].state]["error"]
  BY <1>1, ErrorIsShifted
<1>3. PICK m \in Nat \ {0} : m = Len(stack) /\ DOMAIN stack = 1..m
  BY InvParts, PathParts
<1>4. DOMAIN new = 1..(k + 1) /\ \A j \in 1..(k + 1) : (j \in 1..k /\ j \in 1..m) \/ j = k + 1
  <2>1. DOMAIN new = 1..(k + 1)
    BY <1>2, PathParts
  <2>2. k \in 1..m
    BY <1>2, <1>3
  <2>3. QED BY <2>1, <2>2
<1>5. /\ \A i \in DOMAIN stack : stack[i].hollow => errors > 0
      /\ \A i \in DOMAIN stack : stack[i].symbol # "eof"
  BY InvParts DEF ErrorsInv, StackInv, Unexpected
<1>6. stack[k].state \in States /\ "error" \in DOMAIN Goto[stack[k].state]
  BY <1>2, InvParts, PathParts DEF ShiftsError
<1>7. Last(new).state # Goto[Start]["program"]
  BY <1>2, <1>6, ProgramEnds
<1>8. QED BY <1>1, <1>2, <1>3, <1>4, <1>5, <1>7

\* Recovery from a new error pops none of the symbols `error`; after a token was discarded it
\* pops one, and pushes it again.
LEMMA ErrorsOfRecovery ==
  ASSUME ParserInv, Unexpected, ShiftError
  PROVE  /\ yyerrstatus < 3 =>
              \E k \in 1..Len(stack) :
                ErrorsIn(stack') = ErrorsIn(stack) \cup {k + 1} /\ k + 1 \notin ErrorsIn(stack)
         /\ yyerrstatus = 3 => ErrorsIn(stack') = ErrorsIn(stack)
<1>1. PICK new, st : new = stack' /\ st = stack
  OBVIOUS
<1>2. PICK k \in 1..Len(stack) :
        /\ ShiftsError(stack[k].state)
        /\ \A i \in 1..Len(stack) : ShiftsError(stack[i].state) => i <= k
        /\ IsPath(new) /\ Len(new) = k + 1
        /\ \A j \in 1..k : new[j] = stack[j]
        /\ new[k + 1].symbol = "error"
  BY <1>1, ErrorIsShifted
<1>3. PICK m \in Nat \ {0} : /\ m = Len(stack) /\ DOMAIN stack = 1..m
                             /\ Last(stack) = stack[m] /\ IsPath(stack)
  BY InvParts, PathParts
<1>4. PICK E : E = ErrorsIn(stack)
  OBVIOUS
<1>5. ErrorsIn(new) = {j \in E : j <= k} \cup {k + 1}
  <2>1. IsPath(st) /\ k \in 1..Len(st) /\ \A j \in 1..k : new[j] = st[j]
    BY <1>1, <1>2, <1>3
  <2>2. ErrorsIn(new) = {j \in ErrorsIn(st) : j <= k}
                        \cup (IF new[k + 1].symbol = "error" THEN {k + 1} ELSE {})
    BY <1>2, <2>1, ErrorsOfPush
  <2>3. QED BY <1>1, <1>2, <1>4, <2>2
<1>6. \A j \in E : /\ j \in 2..m /\ ShiftsError(stack[j - 1].state)
                   /\ ~ShiftsError(stack[j].state)
                   /\ j < m => Consistent(stack[j + 1].state)
                   /\ j + 1 < m => ShiftsError(stack[j + 2].state)
  BY <1>3, <1>4, AboveError
<1>7. Top = stack[m].state /\ ~Consistent(Top) /\ Parsing
  BY <1>3 DEF Top, Unexpected
<1>8. yyerrstatus \in 0..3 /\ (yyerrstatus = 3 <=> m \in E)
  <2>1. m \in E <=> stack[m].symbol = "error"
    BY <1>3, <1>4 DEF ErrorsIn
  <2>2. QED BY <1>3, <1>7, <2>1, InvParts DEF ErrorsInv
<1>9. k \in 1..m
  BY <1>2, <1>3
<1>10. ASSUME yyerrstatus < 3
       PROVE  ErrorsIn(new) = E \cup {k + 1} /\ k + 1 \notin E
  <2>1. m \notin E
    BY <1>8, <1>10
  <2>2. ASSUME NEW j \in E PROVE j + 2 <= k
    <3>1. j \in 2..m /\ j # m /\ j < m
      BY <1>6, <2>1, <2>2
    <3>2. j + 1 # m
      BY <1>6, <1>7, <3>1
    <3>3. j + 1 < m /\ j + 2 \in 1..m
      BY <3>1, <3>2
    <3>4. ShiftsError(stack[j + 2].state)
      BY <1>6, <3>3
    <3>5. QED BY <1>2, <1>3, <3>3, <3>4
  <2>3. \A j \in E : j \in Nat /\ j + 2 <= k
    BY <1>6, <2>2
  <2>4. \A j \in E : j <= k /\ j # k + 1
    BY <1>9, <2>3
  <2>5. QED BY <1>5, <2>4
<1>11. ASSUME yyerrstatus = 3 PROVE ErrorsIn(new) = E
  <2>1. m \in E
    BY <1>8, <1>11
  <2>2. m \in 2..m /\ ShiftsError(stack[m - 1].state) /\ ~ShiftsError(stack[m].state)
    BY <1>6, <2>1
  <2>3. m - 1 \in 1..m
    BY <2>2
  <2>4. m - 1 <= k /\ k # m
    BY <1>2, <1>3, <2>2, <2>3
  <2>5. k + 1 = m
    BY <1>9, <2>4
  <2>6. \A j \in E : j \in 2..m
    BY <1>6
  <2>7. \A j \in E : j <= k \/ j = m
    BY <1>9, <2>5, <2>6
  <2>8. QED BY <1>5, <2>1, <2>5, <2>7
<1>12. QED BY <1>1, <1>2, <1>4, <1>10, <1>11

\* A new error is one more to report, and one more symbol `error` for it.
LEMMA DetectKeeps == ASSUME ParserInv, DetectError PROVE ParserInv'
<1>1. /\ Unexpected /\ Parsing /\ yyerrstatus < 3 /\ ShiftError /\ yyerrstatus' = 3
      /\ UNCHANGED <<lookahead, taken, errors, outcome>>
      /\ \/ pending_errors' = pending_errors + 1 /\ announced' = announced + 1
         \/ pending_errors' = pending_errors /\ announced' = announced
  BY DEF DetectError, Unexpected
<1>2. /\ IsPath(stack') /\ \A j \in DOMAIN stack' : stack'[j].symbol # "eof"
      /\ Last(stack').state # Goto[Start]["program"] /\ Last(stack').symbol = "error"
      /\ \A j \in DOMAIN stack' : stack'[j].hollow => errors > 0
  BY <1>1, RecoveredStack
<1>3. StackInv'
  BY <1>2 DEF StackInv, Top
<1>4. LookaheadInv'
  BY <1>1, InvParts DEF LookaheadInv, Parsing
<1>5. /\ pending_errors \in Nat /\ errors \in 0..ErrorLimit /\ announced \in Nat
      /\ errors + pending_errors = announced /\ errors < ErrorLimit /\ outcome = "parsing"
  BY <1>1, InvParts DEF ErrorsInv, Parsing
<1>6. ErrorsInv'
  <2>1. errors \in Nat
    BY <1>5, ParserAssumption
  <2>2. pending_errors' \in Nat /\ announced' \in Nat /\ errors + pending_errors' = announced'
    <3>1. CASE pending_errors' = pending_errors + 1 /\ announced' = announced + 1
      <4>1. pending_errors + 1 \in Nat /\ announced + 1 \in Nat
            /\ errors + (pending_errors + 1) = announced + 1
        BY <1>5, <2>1
      <4>2. QED BY <3>1, <4>1
    <3>2. QED BY <1>1, <1>5, <3>1
  <2>3. yyerrstatus' \in 0..3
    BY <1>1
  <2>4. outcome' = "parsing" /\ errors' = errors
    BY <1>1, <1>5
  <2>5. QED BY <1>1, <1>2, <1>5, <2>2, <2>3, <2>4 DEF ErrorsInv, Parsing
<1>7. PendingIsOnStack'
  <2>1. PICK E : E = ErrorsIn(stack)
    OBVIOUS
  <2>2. PICK j : ErrorsIn(stack') = E \cup {j} /\ j \notin E
    <3>1. \E k \in 1..Len(stack) :
             ErrorsIn(stack') = ErrorsIn(stack) \cup {k + 1} /\ k + 1 \notin ErrorsIn(stack)
      BY <1>1, ErrorsOfRecovery
    <3>2. QED BY <2>1, <3>1
  <2>3. IsFiniteSet(E) /\ Cardinality(E) \in Nat /\ pending_errors <= Cardinality(E)
    BY <2>1, InvParts, ErrorsAreFinite
  <2>4. Cardinality(E \cup {j}) = Cardinality(E) + 1
    BY <2>2, <2>3, FS_AddElement
  <2>5. pending_errors + 1 <= Cardinality(E) + 1 /\ pending_errors <= Cardinality(E) + 1
    BY <1>5, <2>3
  <2>6. pending_errors' <= Cardinality(E) + 1
    BY <1>1, <2>5
  <2>7. QED BY <2>2, <2>4, <2>6, PendingNext
<1>8. QED BY <1>3, <1>4, <1>6, <1>7 DEF ParserInv

\* Where a token is discarded the parser goes back to the `error` it is at.
LEMMA DiscardKeeps == ASSUME ParserInv, DiscardToken PROVE ParserInv'
<1>1. /\ Unexpected /\ Parsing /\ yyerrstatus = 3 /\ lookahead # "eof" /\ lookahead' = NoToken
      /\ ShiftError
      /\ UNCHANGED <<yyerrstatus, taken, pending_errors, errors, announced, outcome>>
  BY DEF DiscardToken, Unexpected, AfterDiscard
<1>2. /\ IsPath(stack') /\ \A j \in DOMAIN stack' : stack'[j].symbol # "eof"
      /\ Last(stack').state # Goto[Start]["program"] /\ Last(stack').symbol = "error"
      /\ \A j \in DOMAIN stack' : stack'[j].hollow => errors > 0
  BY <1>1, RecoveredStack
<1>3. StackInv'
  BY <1>2 DEF StackInv, Top
<1>4. LookaheadInv'
  BY <1>1, InvParts DEF LookaheadInv, Parsing
<1>5. ErrorsInv'
  <2>1. outcome = "parsing"
    BY <1>1 DEF Parsing
  <2>2. QED BY <1>1, <1>2, <2>1, InvParts DEF ErrorsInv, Parsing
<1>6. PendingIsOnStack'
  <2>1. ErrorsIn(stack') = ErrorsIn(stack)
    BY <1>1, ErrorsOfRecovery
  <2>2. QED BY <1>1, <2>1, InvParts, PendingNext
<1>7. QED BY <1>3, <1>4, <1>5, <1>6 DEF ParserInv

\* Whatever ends the parse leaves the rest as it was.
LEMMA NothingPendingKeeps == ASSUME ParserInv, NothingPending PROVE ParserInv'
<1>1. /\ Parsing /\ outcome' = "no pending error"
      /\ UNCHANGED <<stack, lookahead, yyerrstatus, taken, pending_errors, errors, announced>>
  BY DEF NothingPending, ReduceDue
<1>2. outcome = "parsing"
  BY <1>1 DEF Parsing
<1>3. StackInv' /\ LookaheadInv'
  BY <1>1, InvParts DEF StackInv, LookaheadInv, Parsing
<1>4. ErrorsInv'
  BY <1>1, <1>2, InvParts DEF ErrorsInv, Parsing, Ends
<1>5. PendingIsOnStack'
  BY <1>1, InvParts, PendingNext
<1>6. QED BY <1>3, <1>4, <1>5 DEF ParserInv

\* The parse that fails reports it.
LEMMA FailKeeps == ASSUME ParserInv, FailAtEnd PROVE ParserInv'
<1>1. /\ Parsing /\ AddError("failed")
      /\ UNCHANGED <<stack, lookahead, yyerrstatus, taken, pending_errors, announced>>
  BY DEF FailAtEnd, Unexpected
<1>2. /\ errors' \in 0..ErrorLimit /\ errors' > 0 /\ outcome' \in {"failed", "too many errors"}
  BY <1>1, AddErrorParts
<1>3. StackInv' /\ LookaheadInv'
  BY <1>1, <1>2, InvParts DEF StackInv, LookaheadInv, Parsing
<1>4. ErrorsInv'
  BY <1>1, <1>2, InvParts DEF ErrorsInv, Parsing, Ends
<1>5. PendingIsOnStack'
  BY <1>1, InvParts, PendingNext
<1>6. QED BY <1>3, <1>4, <1>5 DEF ParserInv

\* ParserInv is inductive.
LEMMA NextKeeps == ASSUME ParserInv, [Next]_vars PROVE ParserInv'
<1>1. CASE UNCHANGED vars
  <2>1. /\ UNCHANGED <<stack, lookahead, yyerrstatus, taken>>
        /\ UNCHANGED <<pending_errors, errors, announced, outcome>>
    BY <1>1 DEF vars
  <2>2. StackInv' /\ LookaheadInv'
    BY <2>1, InvParts DEF StackInv, LookaheadInv, Parsing, Top
  <2>3. ErrorsInv'
    BY <2>1, InvParts DEF ErrorsInv, Parsing, ErrorSymbols
  <2>4. PendingIsOnStack'
    BY <2>1, InvParts, PendingNext
  <2>5. QED BY <2>2, <2>3, <2>4 DEF ParserInv
<1>2. CASE Step
  BY <1>2, ReadKeeps, ShiftKeeps, ReduceKeeps, ReduceErrorKeeps, NothingPendingKeeps,
     DetectKeeps, DiscardKeeps, FailKeeps DEF Step
<1>3. QED BY <1>1, <1>2 DEF Next, Ended

-----------------------------------------------------------------------------
(* What the invariant says of the parser *)

\* ParserInv types every variable.
LEMMA InvTyped == ParserInv => TypeOK
BY InvParts DEF TypeOK, LookaheadInv, ErrorsInv, IsPath, Entries

\* What is accepted is the beginning, the program and its end.
LEMMA InvAccepts == ParserInv => AcceptedReportsAll
<1> SUFFICES ASSUME ParserInv, outcome = "accepted"
             PROVE  /\ pending_errors = 0 /\ errors = announced
                    /\ stack[Len(stack) - 1].hollow => errors > 0
  BY DEF AcceptedReportsAll
<1>1. /\ errors + pending_errors = announced /\ pending_errors \in Nat /\ errors \in 0..ErrorLimit
      /\ Len(stack) = 3 /\ ErrorSymbols = {} /\ announced \in Nat
      /\ \A k \in DOMAIN stack : stack[k].hollow => errors > 0
  BY InvParts DEF ErrorsInv
<1>2. pending_errors <= 0
  BY <1>1, InvParts, FS_EmptySet DEF PendingIsOnStack
<1>3. errors \in Nat
  BY <1>1, ParserAssumption
<1>4. pending_errors = 0 /\ errors = announced
  BY <1>1, <1>2, <1>3
<1>5. DOMAIN stack = 1..3 /\ Len(stack) - 1 = 2 /\ 2 \in 1..3
  BY <1>1, InvParts, PathParts
<1>6. QED BY <1>1, <1>4, <1>5

\* The braces of blocks among the entries of a stack.
BlocksIn(st) ==
  {k \in DOMAIN st : st[k].symbol = "{" /\ st[k - 1].symbol # "inheritance_opt"}

\* Above the brace of a block is nothing, where the parser is consistent, or a state that shifts
\* `error`.
LEMMA AboveBrace ==
  ASSUME NEW st, IsPath(st), NEW p \in BlocksIn(st)
  PROVE  /\ p \in 2..Len(st)
         /\ p = Len(st) => Consistent(st[p].state)
         /\ p < Len(st) => ShiftsError(st[p + 1].state)
<1>1. PICK m \in Nat \ {0} : m = Len(st) /\ DOMAIN st = 1..m
  BY PathParts
<1>2. st[1].state = Start /\ st[1].symbol = ""
      /\ \A k \in 1..(m - 1) : /\ st[k + 1].symbol \in DOMAIN Goto[st[k].state]
                               /\ st[k + 1].state = Goto[st[k].state][st[k + 1].symbol]
  BY <1>1 DEF IsPath
<1>3. p \in 1..m /\ st[p].symbol = "{" /\ st[p - 1].symbol # "inheritance_opt"
  BY <1>1 DEF BlocksIn
<1>4. p # 1
  BY <1>2, <1>3
<1>5. /\ p \in 2..m /\ p - 1 \in 1..(m - 1) /\ (p - 1) + 1 = p
      /\ p < m => p \in 1..(m - 1)
  <2>1. m \in Nat /\ p \in 1..m
    BY <1>3
  <2>2. QED BY <1>4, <2>1
<1>6. PICK i : i = p - 1 /\ i + 1 = p /\ i \in 1..(m - 1)
  BY <1>5
<1>7. "{" \in DOMAIN Goto[st[i].state] /\ st[p].state = Goto[st[i].state]["{"]
  BY <1>2, <1>3, <1>6
<1>8. i # 1
  BY <1>2, <1>7, ErrorsAreShifted
<1>9. PICK h : h + 1 = i /\ h \in 1..(m - 1) /\ h \in 1..m
  <2>1. (i - 1) + 1 = i /\ i - 1 \in 1..(m - 1) /\ i - 1 \in 1..m
    BY <1>6, <1>8
  <2>2. QED BY <2>1
<1>10. /\ st[h].state \in States /\ st[i].symbol \in DOMAIN Goto[st[h].state]
      /\ st[i].state = Goto[st[h].state][st[i].symbol]
  BY <1>1, <1>2, <1>9, PathParts
<1>11. st[i].symbol # "inheritance_opt"
  BY <1>3, <1>6
<1>12. SoonShiftsError(st[p].state)
  BY <1>7, <1>10, <1>11, ErrorsAreShifted
<1>13. ASSUME p < m PROVE st[p + 1].state \in LeadsTo(st[p].state)
  <2>1. p \in 1..(m - 1)
    BY <1>5, <1>13
  <2>2. QED BY <1>2, <2>1 DEF LeadsTo
<1>14. QED BY <1>1, <1>5, <1>12, <1>13 DEF SoonShiftsError

\* So recovery pops none of them.
LEMMA BlocksOfRecovery ==
  ASSUME ParserInv, Unexpected, ShiftError
  PROVE  BlocksIn(stack') = BlocksIn(stack)
<1>1. PICK new, st : new = stack' /\ st = stack
  OBVIOUS
<1>2. PICK k \in 1..Len(stack) :
        /\ ShiftsError(stack[k].state)
        /\ \A i \in 1..Len(stack) : ShiftsError(stack[i].state) => i <= k
        /\ IsPath(new) /\ Len(new) = k + 1
        /\ \A j \in 1..k : new[j] = stack[j]
        /\ new[k + 1].symbol = "error"
  BY <1>1, ErrorIsShifted
<1>3. PICK m \in Nat \ {0} : /\ m = Len(stack) /\ DOMAIN stack = 1..m
                             /\ Last(stack) = stack[m] /\ IsPath(stack)
  BY InvParts, PathParts
<1>4. stack[m].state = Top /\ ~Consistent(Top)
  BY <1>3 DEF Top, Unexpected
<1>5. DOMAIN new = 1..(k + 1) /\ k \in 1..m
  BY <1>2, <1>3, PathParts
<1>6. ASSUME NEW p \in BlocksIn(stack) PROVE p \in 2..k
  <2>1. /\ p \in 2..m
        /\ p = m => Consistent(stack[p].state)
        /\ p < m => ShiftsError(stack[p + 1].state)
    BY <1>3, AboveBrace
  <2>2. p < m /\ p + 1 \in 1..m
    BY <1>4, <2>1
  <2>3. p + 1 <= k
    BY <1>2, <1>3, <2>1, <2>2
  <2>4. QED BY <2>1, <2>3, <1>5
<1>7. ASSUME NEW p \in BlocksIn(new) PROVE p \in 2..k
  <2>1. p \in 2..(k + 1)
    BY <1>2, <1>7, AboveBrace
  <2>2. new[p].symbol = "{"
    BY DEF BlocksIn
  <2>3. p # k + 1
    BY <1>2, <2>2
  <2>4. QED BY <1>5, <2>1, <2>3
<1>8. ASSUME NEW p \in 2..k PROVE p \in BlocksIn(stack) <=> p \in BlocksIn(new)
  <2>1. p \in 1..k /\ p - 1 \in 1..k /\ p \in 1..m /\ p \in 1..(k + 1)
    BY <1>5
  <2>2. stack[p] = new[p] /\ stack[p - 1] = new[p - 1] /\ p \in DOMAIN stack /\ p \in DOMAIN new
    BY <1>2, <1>3, <1>5, <2>1
  <2>3. QED BY <2>2 DEF BlocksIn
<1>9. QED BY <1>1, <1>6, <1>7, <1>8

\* Nor does a shift, which leaves the stack below it.
LEMMA BlocksOfShift ==
  ASSUME ParserInv, Shift
  PROVE  BlocksIn(stack) \subseteq BlocksIn(stack')
<1>1. PICK new, st : new = stack' /\ st = stack
  OBVIOUS
<1>2. PICK m : m = Len(st)
  OBVIOUS
<1>3. IsPath(new) /\ Len(new) = m + 1 /\ \A j \in 1..m : new[j] = st[j]
  BY <1>1, <1>2, ShiftPushes
<1>4. IsPath(st)
  BY <1>1, InvParts
<1>5. m \in Nat \ {0} /\ DOMAIN st = 1..m /\ DOMAIN new = 1..(m + 1)
  BY <1>2, <1>3, <1>4, PathParts
<1>6. ASSUME NEW p \in BlocksIn(st) PROVE p \in BlocksIn(new)
  <2>1. p \in 2..m
    BY <1>2, <1>4, AboveBrace
  <2>2. p \in 1..m /\ p - 1 \in 1..m /\ p \in DOMAIN new
    BY <1>5, <2>1
  <2>3. new[p] = st[p] /\ new[p - 1] = st[p - 1]
    BY <1>3, <2>2
  <2>4. QED BY <2>2, <2>3 DEF BlocksIn
<1>7. QED BY <1>1, <1>6

\* A reduction pops the brace of a block only with the `}` on top of the stack.
LEMMA BlocksOfReduce ==
  ASSUME ParserInv, ReduceDue, NEW rule, rule = Reduction(Top), PopAndPush(rule)
  PROVE  BlocksIn(stack) \subseteq BlocksIn(stack') \/ Last(stack).symbol = "}"
<1>1. PICK new, st : new = stack' /\ st = stack
  OBVIOUS
<1>2. IsPath(st)
  BY <1>1, InvParts
<1>3. PICK m \in Nat \ {0} : m = Len(st) /\ DOMAIN st = 1..m /\ Last(st) = st[m]
  BY <1>2, PathParts
<1>4. Reduces(Last(st).state) /\ rule = Reduction(Last(st).state) /\ Last(st).state \in States
  <2>1. m \in 1..m
    BY <1>3
  <2>2. Last(st).state \in States
    BY <1>2, <1>3, <2>1, PathParts
  <2>3. QED BY <1>1, <2>2 DEF ReduceDue, Top
<1>5. PICK n \in 0..(m - 1) :
        n = Len(rule[2]) /\ \A j \in 1..n : st[m - n + j].symbol = rule[2][j]
  <2>1. \E n \in 0..(Len(st) - 1) :
           /\ n = Len(rule[2])
           /\ \A j \in 1..n : st[Len(st) - n + j].symbol = rule[2][j]
           /\ rule[1] \in DOMAIN Goto[st[Len(st) - n].state]
    BY <1>2, <1>4, RuleOnStack
  <2>2. QED BY <1>3, <2>1
<1>6. rule[2] \in Rules[rule[1]] /\ rule[1] \in Nonterminals /\ DOMAIN rule[2] = 1..n
  BY <1>4, <1>5, RuleIsItem
<1>7. PICK k \in 1..m : /\ k = m - n /\ IsPath(new) /\ Len(new) = k + 1
                        /\ \A j \in 1..k : new[j] = st[j]
  <2>1. \E k \in 1..Len(stack) :
           /\ k = Len(stack) - Len(rule[2])
           /\ IsPath(stack') /\ Len(stack') = k + 1
           /\ \A j \in 1..k : stack'[j] = stack[j]
    BY <1>1, ReducePushes
  <2>2. QED BY <1>1, <1>3, <1>5, <2>1
<1>8. DOMAIN new = 1..(k + 1)
  BY <1>7, PathParts
<1>9. m \in Nat /\ n \in Nat /\ k \in Nat /\ k = m - n
  <2>1. m \in Nat \ {0}
    BY <1>3
  <2>2. n \in 0..(m - 1)
    BY <1>5
  <2>3. k \in 1..m /\ k = m - n
    BY <1>7
  <2>4. QED BY <2>1, <2>2, <2>3
<1>10. ASSUME NEW p \in BlocksIn(st) PROVE p \in BlocksIn(new) \/ Last(stack).symbol = "}"
  <2>1. p \in 2..m /\ st[p].symbol = "{"
    BY <1>2, <1>3, <1>10, AboveBrace DEF BlocksIn
  <2>2. CASE p <= k
    <3>1. p \in 1..k /\ p - 1 \in 1..k /\ p \in 1..(k + 1)
      <4>1. p \in 2..m
        BY <2>1
      <4>2. QED BY <1>9, <2>2, <4>1
    <3>2. new[p] = st[p] /\ new[p - 1] = st[p - 1]
      BY <1>7, <3>1
    <3>3. QED BY <1>8, <1>10, <3>1, <3>2 DEF BlocksIn
  <2>3. CASE ~(p <= k)
    <3>1. PICK j \in 1..n : p = m - n + j /\ n \in 1..n /\ m = m - n + n
      <4>1. p \in 2..m
        BY <2>1
      <4>2. p - k \in 1..n /\ p = m - n + (p - k) /\ n \in 1..n /\ m = m - n + n
        BY <1>9, <2>3, <4>1
      <4>3. QED BY <4>2
    <3>2. rule[2][j] = "{"
      BY <1>5, <2>1, <3>1
    <3>3. rule[2][n] = "}"
      BY <1>5, <1>6, <3>1, <3>2, RulesOfSymbols
    <3>4. st[m].symbol = "}"
      BY <1>5, <3>1, <3>3
    <3>5. QED BY <1>1, <1>3, <3>4
  <2>4. QED BY <2>2, <2>3
<1>11. QED BY <1>1, <1>10

\* No other step changes the stack.
LEMMA BlocksOfStep ==
  ASSUME ParserInv, [Next]_vars
  PROVE  OpenBlocks \subseteq OpenBlocks' \/ Last(stack).symbol = "}"
<1>1. OpenBlocks = BlocksIn(stack) /\ OpenBlocks' = BlocksIn(stack')
  BY DEF OpenBlocks, BlocksIn
<1>2. CASE UNCHANGED stack
  BY <1>1, <1>2
<1>3. CASE Shift
  BY <1>1, <1>3, BlocksOfShift
<1>4. CASE Reduce \/ ReduceError
  BY <1>1, <1>4, BlocksOfReduce DEF Reduce, ReduceError
<1>5. CASE DetectError \/ DiscardToken
  BY <1>1, <1>5, BlocksOfRecovery DEF DetectError, DiscardToken
<1>6. CASE ReadToken \/ NothingPending \/ FailAtEnd \/ Ended \/ UNCHANGED vars
  BY <1>2, <1>6 DEF ReadToken, NothingPending, FailAtEnd, Ended, vars
<1>7. QED BY <1>3, <1>4, <1>5, <1>6 DEF Next, Step

-----------------------------------------------------------------------------
(* The theorems *)

\* ParserInv holds in every state of the parser: its stack is a path of the automaton, every error
\* is reported or waits with its symbol on the stack, and the parser is at `error` exactly until a
\* token is shifted.
THEOREM ParserInvariant == Spec => []ParserInv
<1>1. Init => ParserInv
  BY InitInv
<1>2. ParserInv /\ [Next]_vars => ParserInv'
  BY NextKeeps
<1>3. QED BY <1>1, <1>2, PTL DEF Spec

\* Every variable of the parser has its type.
THEOREM ParserTyped == Spec => []TypeOK
BY ParserInvariant, InvTyped, PTL

\* An error waits only as long as an `error` symbol that will report it is on the stack: no
\* recovery pops a symbol whose error is not reported (lalr1.cc, AddPendingParseErrorUntil...).
THEOREM PendingErrorsAreOnStack == Spec => []PendingIsOnStack
<1>1. ParserInv => PendingIsOnStack
  BY DEF ParserInv
<1>2. QED BY <1>1, ParserInvariant, PTL

\* A program is accepted only when all the errors found in it are reported, and holds a function
\* without a body only if there was one.
THEOREM ErrorsAreReported == Spec => []AcceptedReportsAll
BY ParserInvariant, InvAccepts, PTL

\* In an error there is a state on the stack to go on from: ParseTokens fails only at the end.
THEOREM RecoveryIsPossible == Spec => []CanRecover
BY ParserInvariant, RecoveryFromInv, PTL

\* No recovery pops the brace of a block: the parser leaves a block only behind a `}`.
THEOREM BlocksAreLeftAtBraces == Spec => BlocksEndAtBraces
<1>1. ParserInv /\ [Next]_vars
        => [OpenBlocks \subseteq OpenBlocks' \/ Last(stack).symbol = "}"]_vars
  BY BlocksOfStep
<1>2. QED BY <1>1, ParserInvariant, PTL DEF Spec, BlocksEndAtBraces
===============================================================================
