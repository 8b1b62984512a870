--------------------------- MODULE MCSemanticChecks ---------------------------
(* Types of parameters, and arguments, that fit, derive, mismatch and fail. *)
EXTENDS SemanticChecks

MCSignatureTypes == {"int", "A"}
MCValues == {"int", "B", "void", "wrong"}
=============================================================================
