--------------------------- MODULE ArticleGrouping ---------------------------
(***************************************************************************)
(* The two ways articles are put together: clusters of a market's articles *)
(* by shared title words (app/batch/steps/cluster_enrichment.py), and      *)
(* groups of near-identical articles within a cluster                      *)
(* (app/batch/article_similarity.py).  Both are a first fit: an article    *)
(* joins the first group that takes it and opens a new one otherwise.      *)
(***************************************************************************)
EXTENDS Integers, Sequences, FiniteSets, SequencesExt, FiniteSetsExt

\* The members of S in the order of the pairs of `before`.
InOrder(S, before) ==
  [n \in 1 .. Cardinality(S) |->
     CHOOSE x \in S : Cardinality({y \in S : <<y, x>> \in before}) = n - 1]

OldestFirst(rows) == InOrder(rows, {pair \in rows \X rows : pair[1] < pair[2]})

\* Publication times are distinct.
NewestFirst(articles, published) ==
  InOrder(articles, {pair \in articles \X articles : published[pair[1]] > published[pair[2]]})

\* fit is the first group that takes the article, 0 if none does.
Place(groups, fit, article) ==
  IF fit = 0 THEN Append(groups, <<article>>)
  ELSE [groups EXCEPT ![fit] = Append(@, article)]

\* Title words are compared with the article that opened the group only;
\* alike holds the pairs that share enough of them.
SeedFit(groups, article, cap, alike) ==
  SelectInSeq(groups, LAMBDA group : Len(group) < cap /\ <<Head(group), article>> \in alike)
SeedGroups(articles, cap, alike) ==
  LET seated[n \in 0 .. Len(articles)] ==
        IF n = 0 THEN <<>>
        ELSE Place(seated[n - 1], SeedFit(seated[n - 1], articles[n], cap, alike), articles[n])
  IN  seated[Len(articles)]

\* The largest cluster first, then the one with the newest article.
LargerFirst(clusters, published) ==
  {pair \in clusters \X clusters :
     \/ Len(pair[1]) > Len(pair[2])
     \/ Len(pair[1]) = Len(pair[2]) /\ published[pair[1][1]] > published[pair[2][1]]}
RankClusters(groups, published) ==
  LET clusters == {NewestFirst(ToSet(groups[i]), published) : i \in DOMAIN groups}
  IN  InOrder(clusters, LargerFirst(clusters, published))

\* Complete link: an article joins a group when it is close to all of it.
LinkFit_AnyMember(groups, article, close) ==
  SelectInSeq(groups, LAMBDA group : \E i \in DOMAIN group : <<group[i], article>> \in close)
LinkFit(groups, article, close) ==
  SelectInSeq(groups, LAMBDA group : \A i \in DOMAIN group : <<group[i], article>> \in close)
SimilarGroups(articles, close) ==
  LET seated[n \in 0 .. Len(articles)] ==
        IF n = 0 THEN <<>>
        ELSE Place(seated[n - 1], LinkFit(seated[n - 1], articles[n], close), articles[n])
  IN  seated[Len(articles)]
=============================================================================
