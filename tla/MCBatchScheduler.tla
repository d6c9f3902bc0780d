-------------------------- MODULE MCBatchScheduler --------------------------
(* BatchScheduler for TLC: two requests of different ids compete for lanes.  *)
EXTENDS BatchScheduler, TLC

SamplingSymmetry == Permutations(Samplings)
IdSymmetry == Permutations(Ids) \cup SamplingSymmetry
=============================================================================
