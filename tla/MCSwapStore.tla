---------------------------- MODULE MCSwapStore ----------------------------
(* SwapStore for TLC: a handful of stores opened on one directory.         *)
EXTENDS SwapStore, TLC

Symmetric == Permutations(Keys) \cup Permutations(Inodes)
=============================================================================
