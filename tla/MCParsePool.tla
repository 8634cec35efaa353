----------------------------- MODULE MCParsePool -----------------------------
(* Small instances of the pool: symmetric tasks, two workers.              *)
EXTENDS ParsePool, TLC

TaskSymmetry == Permutations(Tasks)
==============================================================================
