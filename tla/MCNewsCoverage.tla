--------------------------- MODULE MCNewsCoverage ---------------------------
(* Instances of NewsCoverage for TLC. *)
EXTENDS NewsCoverage

CONSTANTS US, KR
=============================================================================
