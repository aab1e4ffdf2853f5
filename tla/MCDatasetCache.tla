----------------------------- MODULE MCDatasetCache -----------------------------
(* Three threads and three keys: one key can be built, one waited for and  *)
(* one overwritten at the same time.  Threads and keys are interchangeable. *)
EXTENDS DatasetCache, TLC

MCSymmetry == Permutations(Workers) \cup Permutations(Keys)
=============================================================================
