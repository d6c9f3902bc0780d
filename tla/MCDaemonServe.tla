--------------------------- MODULE MCDaemonServe ---------------------------
(***************************************************************************)
(* Instances of DaemonServe: two requests a and b, one attempt each.       *)
(***************************************************************************)
EXTENDS DaemonServe, TLC

CONSTANTS a, b

A == [id |-> a, attempt_id |-> 1]
B == [id |-> b, attempt_id |-> 1]

Both == {A, B}
First == {A}
Nobody == {}
NoFault == {}
AnyFault == {"attested", "poisoned"}
Attested == {"attested"}

Symmetric == Permutations({a, b})

=============================================================================
