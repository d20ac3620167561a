----------------------------- MODULE MCDailyPages -----------------------------
(* Instances of DailyPages for TLC. *)
EXTENDS DailyPages, TLC

CONSTANTS K1, K2

StartDaily(force, key) == [api |-> "start", force |-> force, key |-> key, job |-> None]
Rebuild(key) == [api |-> "rebuild", force |-> FALSE, key |-> key, job |-> None]
RetryAi(job, key) == [api |-> "retry", force |-> FALSE, key |-> key, job |-> job]

\* A start and the client's repetition of it, a rebuild without a key, and a retry of
\* the first job sent twice.
StartTwiceRebuildRetryTwice ==
  (1 :> StartDaily(FALSE, K1)) @@ (2 :> StartDaily(FALSE, K1)) @@ (3 :> Rebuild(NoKey)) @@
  (4 :> RetryAi(1, K2)) @@ (5 :> RetryAi(1, K2))
=============================================================================
