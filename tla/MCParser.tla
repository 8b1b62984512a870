------------------------------- MODULE MCParser -------------------------------
(* Parser with small alphabets. *)
EXTENDS Parser

SmallTokens == {"class", "func", "ident", "(", ")", "{", "}", ";", "var", "int"}
HeaderTokens == {"func", ")", "{", "}", ";"}
=============================================================================
