------------------------------- MODULE MCDriver -------------------------------
(* Texts of a source, and an int of four values beside a long of sixteen. *)
EXTENDS Driver

\* Blanks, a newline, and blanks around a newline.
MCBlanks ==
  {Word(1), [length |-> 1, newlines |-> 1, rest |-> 0],
   [length |-> 3, newlines |-> 1, rest |-> 1]}
\* Literals of an int, of a long that truncates to a negative and to a positive int, and
\* of none.
MCLiterals == {1, 3, 5, 8}
=============================================================================
