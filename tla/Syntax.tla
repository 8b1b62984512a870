------------------------------- MODULE Syntax -------------------------------
(* The names a program is made of, shared by the modules of the passes. *)

CONSTANTS
  Names,         \* the identifiers variables, parameters and functions have
  Classes,       \* the names of classes
  NoClass        \* a type that is no class; a class without a base; no name

ASSUME NoClassAssumption == NoClass \notin Classes \cup Names
=============================================================================
