----------------------------- MODULE MCAiRetry -----------------------------
(* Instances of AiRetry for TLC: every summary of the source job failed. *)
EXTENDS AiRetry

CONSTANTS r1, r2, headline, market, detail

AllFailed == [t \in Targets |-> "failed"]
=============================================================================
