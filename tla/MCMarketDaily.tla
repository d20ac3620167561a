--------------------------- MODULE MCMarketDaily ---------------------------
(* Instances of MarketDaily for TLC. *)
EXTENDS MarketDaily, TLC

ClusterAndTwoSummaries ==
  [s \in TargetSteps |->
     CASE s = "BUILD_CLUSTERS" -> <<"US:1">>
       [] s = "CLASSIFY_CLUSTER_THEMES" -> <<"theme:1">>
       [] s = "GROUP_SIMILAR_ARTICLES" -> <<"group:1">>
       [] s = "GENERATE_AI_SUMMARIES" -> <<"headline", "detail">>]

TwoClusters ==
  [s \in TargetSteps |-> IF s = "BUILD_CLUSTERS" THEN <<"US:1", "US:2">> ELSE <<>>]

KindOf == [t \in Targets |->
  CASE t \in {"US:1", "US:2"} -> "enrich"
    [] t = "theme:1" -> "theme"
    [] t = "group:1" -> "group"
    [] t = "headline" -> "headline"
    [] t = "detail" -> "detail"]
=============================================================================
