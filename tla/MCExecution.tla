----------------------------- MODULE MCExecution -----------------------------
EXTENDS Execution

CONSTANTS main, f, x, A

MCUses ==
  {[kind |-> "call", name |-> f, member |-> f],
   [kind |-> "value", name |-> x, member |-> x],
   [kind |-> "value", name |-> f, member |-> f]}
OnlyInt == {NoClass}
=============================================================================
