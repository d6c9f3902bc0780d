-------------------------------- MODULE Totals --------------------------------
(* The sum of a ledger's amounts: what admission has granted, what the     *)
(* snapshot store holds.                                                   *)
EXTENDS Integers, FiniteSets

\* Counted unit by unit: the n-th unit of what f has for k is <<k, n>>.
Total(f) == Cardinality(UNION {{k} \X (1..f[k]) : k \in DOMAIN f})
=============================================================================
