------------------------- MODULE MCTerminalControl -------------------------
(***************************************************************************)
(* An instance of TerminalControl: one id with two attempts, so that two   *)
(* requests share an id, and two generations of each counter, so that a    *)
(* key is announced or activated again after its first lifecycle.          *)
(***************************************************************************)
EXTENDS TerminalControl, TLC

AttemptSymmetry == Permutations(AttemptIds)

=============================================================================
