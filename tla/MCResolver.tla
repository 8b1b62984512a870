----------------------------- MODULE MCResolver -----------------------------
(* Instances of the resolver for TLC. *)
EXTENDS ResolverProps

CONSTANTS f, x, A, B

\* A call inside a class, and accesses to a member of an object.
ClassUses ==
  {[kind |-> "call", name |-> f, member |-> f],
   [kind |-> "method", name |-> x, member |-> f]}
ObjectsOfA == {A}
=============================================================================
