--------------------------- MODULE DynamicDispatch ---------------------------
(***************************************************************************)
(* "All methods are virtual" (Grammar.txt:90): a call on an object runs    *)
(* the nearest declaration of the method, from the class of the object     *)
(* upwards, whatever the class the call was compiled for.                  *)
(***************************************************************************)
EXTENDS Naturals

CONSTANTS
  MaxClass,      \* classes are 1..MaxClass
  NoCall

VARIABLES
  base,          \* base[k]: the base of class k, 0 without one
  declares,      \* declares[k]: the names of the methods of class k
  executed       \* the last call: the class of its object, and the method that ran

vars == <<base, declares, executed>>

\* The class n steps above k.
Above(k, n) ==
  LET above[i \in 0..n] ==
        IF i = 0 THEN k ELSE IF above[i - 1] = 0 THEN 0 ELSE base[above[i - 1]]
  IN  above[n]

Derives(k, b) == \E n \in 0..MaxClass : Above(k, n) = b

IsNearest(k, m, owner) ==
  \E n \in 0..MaxClass :
    /\ Above(k, n) = owner /\ owner # 0 /\ m \in declares[owner]
    /\ \A i \in 0..(n - 1) : m \notin declares[Above(k, i)]

Understands(k, m) == \E owner \in 1..MaxClass : IsNearest(k, m, owner)

Init == executed = NoCall

\* The program comes to be before the first call.
Declare == executed = NoCall /\ executed' = NoCall

\* An object of class k is known as one of class static, which has the method.
Call(static, k, m) ==
  /\ \E owner \in 1..MaxClass :
       /\ executed' = [object |-> k, method |-> [class |-> owner, name |-> m]]
       /\ IsNearest(k, m, owner)
  /\ Derives(k, static) /\ Understands(static, m)
  /\ UNCHANGED <<base, declares>>

Next ==
  \/ Declare
  \/ \E static, k \in 1..MaxClass : \E m \in UNION {declares[c] : c \in 1..MaxClass} :
       Call(static, k, m)

Spec == Init /\ [][Next]_vars
=============================================================================
