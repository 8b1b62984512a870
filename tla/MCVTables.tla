------------------------------ MODULE MCVTables ------------------------------
(* VTables with few names. *)
EXTENDS VTables, TLC

AnyNames == Permutations(Classes) \cup Permutations(Names) \cup Permutations(Signatures)
=============================================================================
