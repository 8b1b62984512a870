---------------------------- MODULE FrontendErrors ----------------------------
(***************************************************************************)
(* FrontendErrors, which every pass reports to, and the exception that     *)
(* ends the passes.  An error is known by the pass that reported it.       *)
(***************************************************************************)
EXTENDS Naturals, Sequences

CONSTANTS
  Limit          \* limit_

ASSUME LimitAssumption == Limit \in Nat \ {0}

VARIABLES
  errors,        \* errors_
  thrown         \* the exception on its way to main's handler, by its what()

errorVars == <<errors, thrown>>

Passes == {"tokenize", "parse", "symbols", "resolve", "access", "types"}

\* GetErrors() is one text made of all the errors; other exceptions have texts of
\* their own, which are no such text.
GetErrors(list) == [text |-> "errors", of |-> list]
Internal == [text |-> "internal", of |-> <<>>]
NoException == [text |-> "none", of |-> <<>>]

InitErrors == errors = <<>> /\ thrown = NoException

HasErrors == errors # <<>>

\* The error that reaches the limit is thrown with all the others.
AddError(pass) ==
  /\ errors' = Append(errors, pass)
  /\ thrown' = IF Len(errors') >= Limit THEN GetErrors(errors') ELSE NoException

Throw(what) == thrown' = what /\ UNCHANGED errors
=============================================================================
