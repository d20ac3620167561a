------------------------- MODULE MCKeywordCollection -------------------------
(* Instances of KeywordCollection for TLC. *)
EXTENDS KeywordCollection

\* Article 1 lies in the overlap before the slot, 2 in the slot, 3 before both, and
\* 4 has no date.
Dates == <<1, 3, 0, 3>>
Finds == <<{"kr", "us"}, {"kr", "us"}, {"kr"}, {"us"}>>
Order == <<"kr", "us">>
MarketOf == [kr |-> "KR", us |-> "US"]
=============================================================================
