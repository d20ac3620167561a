----------------------------- MODULE MCJobQueue -----------------------------
(* Instances of JobQueue for TLC. *)
EXTENDS JobQueue, TLC

CONSTANTS w1, w2

FullThenNews == [j \in Jobs |-> IF j = 1 THEN "FULL" ELSE "NEWS_COLLECTION"]

WorkerSymmetry == Permutations({w1, w2})
=============================================================================
