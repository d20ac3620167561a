---------------------------- MODULE DailyClusters ----------------------------
(***************************************************************************)
(* What the runs of one business date write for one market: the articles   *)
(* kept by deduplication, their clusters, the themes, similarity groups    *)
(* and summaries of each cluster, and the pages made of them               *)
(* (app/batch/steps, app/db/repositories/news_cluster_write_repo.py,       *)
(* app/db/repositories/article_group_repo.py).                             *)
(*                                                                         *)
(* The articles and clusters belong to the date, the progress and the      *)
(* summaries to the job.  Nothing is lost when an attempt ends, so a later *)
(* attempt of the same job simply goes on: every action is one committed   *)
(* transaction of whichever attempt holds the lease (JobQueue).            *)
(***************************************************************************)
EXTENDS ArticleGrouping, Functions

CONSTANTS
  Raws,              \* raw articles, numbered in order of publication
  Story,             \* Story[r]: title and publisher of raw article r
  AlikeStories,      \* pairs of stories that share two title words
  Late,              \* raw articles a collection may miss at first
  WindowEnds,        \* the instants at which a job may close its news window
  CloseGraphs,       \* candidates: pairs of raw articles the similarity score accepts
  Jobs,
  MaxArticlesPerCluster,   \* batch_max_articles_per_cluster
  MaxClusters,             \* batch_max_clusters_per_market
  ProcessedLimit,          \* batch_clustering_processed_article_limit
  MaxReplays               \* bound: failed jobs queued again

Ranks == 1 .. MaxClusters

ASSUME DailyClustersAssumption ==
  /\ IsFiniteSet(Raws) /\ Raws = 1 .. Cardinality(Raws)
  /\ DOMAIN Story = Raws
  /\ Late \subseteq Raws /\ WindowEnds \subseteq Raws
  /\ \A graph \in CloseGraphs : graph \subseteq Raws \X Raws
  /\ Jobs \subseteq Nat \ {0}
  /\ {MaxArticlesPerCluster, MaxClusters, ProcessedLimit} \subseteq Nat \ {0}
  /\ MaxReplays \in Nat

Steps ==
  <<"PREPARE_MARKET_CONTEXTS", "DEDUPE_ARTICLES", "BUILD_CLUSTERS", "CLASSIFY_CLUSTER_THEMES",
    "GROUP_SIMILAR_ARTICLES", "GENERATE_AI_SUMMARIES", "BUILD_PAGE_SNAPSHOT", "FINALIZE_JOB">>

VARIABLES
  close,      \* the pairs the similarity score accepts
  processed,  \* news_article_processed, in id order: the raw article each row was made of
  mapped,     \* news_article_raw_processed_map
  cluster,    \* news_cluster by cluster_rank, with its articles, groups and themes
  nextId,     \* the next news_cluster.id
  contexts,   \* batch_job_market_context, in creation order
  job,        \* batch_job, its target progress and its summaries
  pages,      \* market_daily_page, in commit order
  stale,      \* jobs that another job has overtaken since they read the articles
  replays     \* failed jobs queued again so far

news == <<close, processed, mapped>>
output == <<pages, replays>>
dcVars == <<close, processed, mapped, cluster, nextId, contexts, job, pages, stale, replays>>

Statuses == {"ABSENT", "ACTIVE", "FAILED", "COMPLETED"}
NewJob == [status |-> "ABSENT", step |-> 1, force |-> FALSE, built |-> {}, themed |-> {},
           cards |-> <<>>, paged |-> FALSE]

DCTypeOK ==
  /\ close \in CloseGraphs
  /\ processed \in Seq(Raws) /\ IsInjective(processed)
  /\ mapped \subseteq Raws \X DOMAIN processed
  /\ DOMAIN cluster \subseteq Ranks
  /\ \A k \in DOMAIN cluster :
       /\ cluster[k].id \in 1 .. nextId - 1
       /\ ToSet(cluster[k].articles) \subseteq DOMAIN processed
       /\ cluster[k].status \in {"READY", "UNAVAILABLE"}
  /\ \A j \in Jobs :
       /\ job[j].status \in Statuses
       /\ job[j].step \in DOMAIN Steps
       /\ job[j].built \subseteq Ranks
       /\ job[j].themed \cup DOMAIN job[j].cards \subseteq 1 .. nextId - 1
  /\ \A i \in DOMAIN contexts :
       /\ contexts[i].job \in Jobs /\ contexts[i].complete \in BOOLEAN
       /\ contexts[i].from \in 0 .. contexts[i].to /\ contexts[i].to \in Raws
  /\ stale \subseteq Jobs
  /\ replays \in 0 .. MaxReplays

DCInit ==
  /\ close \in CloseGraphs
  /\ processed = <<>>
  /\ mapped = {}
  /\ cluster = <<>>
  /\ nextId = 1
  /\ contexts = <<>>
  /\ job = [j \in Jobs |-> NewJob]
  /\ pages = <<>>
  /\ stale = {}
  /\ replays = 0
-----------------------------------------------------------------------------
(***************************************************************************)
(* What the steps read.                                                    *)
(***************************************************************************)
Pairs == (DOMAIN processed) \X (DOMAIN processed)
Alike ==
  {pair \in Pairs :
     LET s == Story[processed[pair[1]]]
         t == Story[processed[pair[2]]]
     IN  s = t \/ {s, t} \in AlikeStories}
Close ==
  {pair \in Pairs : \/ <<processed[pair[1]], processed[pair[2]]>> \in close
                   \/ <<processed[pair[2]], processed[pair[1]]>> \in close}

\* The clustering query keeps the newest rows of the market; raw articles are
\* numbered in order of publication.
Recent ==
  LET newest == NewestFirst(DOMAIN processed, processed)
  IN  {newest[i] : i \in 1 .. Min({ProcessedLimit, Len(newest)})}

\* The clusters a run selects, by rank.
Selected ==
  LET candidates == RankClusters(
        SeedGroups(OldestFirst(Recent), MaxArticlesPerCluster, Alike), processed)
  IN  SubSeq(candidates, 1, Min({MaxClusters, Len(candidates)}))

\* Raw aliases of a row beyond the first.
ExactDuplicates(row) == Cardinality({pair \in mapped : pair[2] = row}) - 1

IsActive(j) == job[j].status = "ACTIVE"
At(j, step) == IsActive(j) /\ Steps[job[j].step] = step
SomeActive == \E j \in Jobs : IsActive(j)
Advanced(j) == [job EXCEPT ![j].step = @ + 1]

\* j has written what the other jobs of the date also read.
Overtake(j) == stale' = stale \cup (Jobs \ {j})
-----------------------------------------------------------------------------
(***************************************************************************)
(* Jobs of the date: one is active at a time (uq_batch_job_one_active_     *)
(* market_daily_per_day), a failed one may be queued again with everything *)
(* it has done.                                                            *)
(***************************************************************************)
Start(j) ==
  /\ job[j].status = "ABSENT" /\ \A i \in Jobs : i < j => job[i].status # "ABSENT"
  /\ ~SomeActive
  /\ \E force \in BOOLEAN :
       /\ force \/ pages = <<>>
       /\ job' = [job EXCEPT ![j].status = "ACTIVE", ![j].force = force]
  /\ UNCHANGED <<news, cluster, nextId, contexts, output, stale>>

Replay(j) ==
  /\ job[j].status = "FAILED" /\ ~SomeActive
  /\ replays < MaxReplays
  /\ job' = [job EXCEPT ![j].status = "ACTIVE"]
  /\ replays' = replays + 1
  /\ UNCHANGED <<news, cluster, nextId, contexts, pages, stale>>

Fail(j) ==
  /\ IsActive(j)
  /\ job' = [job EXCEPT ![j].status = "FAILED"]
  /\ UNCHANGED <<news, cluster, nextId, contexts, output, stale>>
-----------------------------------------------------------------------------
(***************************************************************************)
(* PREPARE_MARKET_CONTEXTS: a forced run takes the window of the date's    *)
(* last context; another run starts where news was last complete and ends  *)
(* now.                                                                    *)
(***************************************************************************)
IndexOf(j) == SelectInSeq(contexts, LAMBDA context : context.job = j)
CoverageEnd == Max({0} \cup {contexts[i].to : i \in {i \in DOMAIN contexts : contexts[i].complete}})
LastEnd == Max({0} \cup {contexts[i].to : i \in DOMAIN contexts})

SameWindow(j) == [Last(contexts) EXCEPT !.job = j, !.complete = FALSE]
NewWindow(j, end) == [job |-> j, from |-> CoverageEnd, to |-> end, complete |-> FALSE]

Prepare(j) ==
  /\ At(j, "PREPARE_MARKET_CONTEXTS")
  /\ \/ /\ job[j].force /\ contexts # <<>>
        /\ contexts' = Append(contexts, SameWindow(j))
     \/ /\ ~job[j].force \/ contexts = <<>>
        /\ \E end \in WindowEnds :
             LastEnd <= end /\ contexts' = Append(contexts, NewWindow(j, end))
  /\ job' = Advanced(j)
  /\ UNCHANGED <<news, cluster, nextId, output, stale>>

(***************************************************************************)
(* DEDUPE_ARTICLES: the articles collected in the window, newest first.    *)
(* The newest of each story becomes a row, unless that article is one      *)
(* already, and the others are mapped to it.  Coverage is complete when    *)
(* every slot that could be collected was: the last one may still be open. *)
(***************************************************************************)
Window(j) == contexts[IndexOf(j)].from + 1 .. contexts[IndexOf(j)].to
\* What is stored stays: only an article nobody has read may still be missing.
Unread(j) == (Window(j) \cap Late) \ {pair[1] : pair \in mapped}
Kept(visible) == {r \in visible : \A s \in visible : Story[s] = Story[r] => s <= r}
WithRows(kept) == processed \o NewestFirst(kept \ ToSet(processed), [r \in Raws |-> r])
Mapping(visible, rows) ==
  {<<r, SelectInSeq(rows, LAMBDA s : s \in Kept(visible) /\ Story[s] = Story[r])>> : r \in visible}

Dedupe(j) ==
  /\ At(j, "DEDUPE_ARTICLES")
  /\ \E missed \in SUBSET Unread(j), complete \in BOOLEAN :
       LET visible == Window(j) \ missed
       IN  /\ complete => missed \subseteq {contexts[IndexOf(j)].to}
           /\ processed' = WithRows(Kept(visible))
           /\ mapped' = mapped \cup Mapping(visible, processed')
           /\ contexts' = [contexts EXCEPT ![IndexOf(j)].complete = complete]
  /\ job' = Advanced(j)
  /\ stale' = (stale \cup Jobs) \ {j}
  /\ UNCHANGED <<close, cluster, nextId, output>>
-----------------------------------------------------------------------------
(***************************************************************************)
(* BUILD_CLUSTERS.  A cluster of an earlier run with the same rank is      *)
(* written over: it keeps its id and its themes and loses its groups.      *)
(***************************************************************************)
Upserted(k) ==
  IF k \in DOMAIN cluster THEN cluster[k]
  ELSE [id |-> nextId, articles |-> <<>>, status |-> "UNAVAILABLE", groups |-> <<>>,
        exact |-> <<>>, themed |-> {}]
WithArticles(row, articles) ==
  [row EXCEPT !.articles = articles, !.status = "UNAVAILABLE", !.groups = <<>>, !.exact = <<>>]

BuildTarget(j, k) ==
  /\ At(j, "BUILD_CLUSTERS")
  /\ k \in DOMAIN Selected \ job[j].built
  /\ cluster' = [i \in DOMAIN cluster \cup {k} |->
                   IF i = k THEN WithArticles(Upserted(k), Selected[k]) ELSE cluster[i]]
  /\ nextId' = IF k \in DOMAIN cluster THEN nextId ELSE nextId + 1
  /\ job' = [job EXCEPT ![j].built = @ \cup {k}]
  /\ Overtake(j)
  /\ UNCHANGED <<news, contexts, output>>

StaleRanks == {k \in DOMAIN cluster : processed # <<>> /\ k > Len(Selected)}

\* The summaries of a deleted cluster go with it.
EndBuild_KeepsStale(j) ==
  /\ At(j, "BUILD_CLUSTERS")
  /\ DOMAIN Selected \subseteq job[j].built
  /\ job' = Advanced(j)
  /\ Overtake(j)
  /\ UNCHANGED <<news, cluster, nextId, contexts, output>>
EndBuild(j) ==
  /\ At(j, "BUILD_CLUSTERS")
  /\ DOMAIN Selected \subseteq job[j].built
  /\ LET deleted == {cluster[k].id : k \in StaleRanks}
     IN  /\ cluster' = Restrict(cluster, DOMAIN cluster \ StaleRanks)
         /\ job' = [i \in Jobs |->
              [Advanced(j)[i] EXCEPT !.cards = Restrict(@, DOMAIN @ \ deleted)]]
  /\ Overtake(j)
  /\ UNCHANGED <<news, nextId, contexts, output>>

(***************************************************************************)
(* CLASSIFY_CLUSTER_THEMES: once per cluster id and job.                   *)
(***************************************************************************)
Unclassified(j) == {k \in DOMAIN cluster : cluster[k].id \notin job[j].themed}
\* The themes replace those of an earlier run.
WithThemes(row) == [row EXCEPT !.themed = ToSet(row.articles)]

ClassifyTarget(j, k) ==
  /\ At(j, "CLASSIFY_CLUSTER_THEMES")
  /\ k \in Unclassified(j)
  /\ cluster' = [cluster EXCEPT ![k] = WithThemes(@)]
  /\ job' = [job EXCEPT ![j].themed = @ \cup {cluster[k].id}]
  /\ Overtake(j)
  /\ UNCHANGED <<news, nextId, contexts, output>>

EndThemes(j) ==
  /\ At(j, "CLASSIFY_CLUSTER_THEMES")
  /\ Unclassified(j) = {}
  /\ job' = Advanced(j)
  /\ UNCHANGED <<news, cluster, nextId, contexts, output, stale>>
-----------------------------------------------------------------------------
(***************************************************************************)
(* GROUP_SIMILAR_ARTICLES: clusters one after the other.  Stored groups of *)
(* exactly the cluster's articles are current, also those of a failure.    *)
(***************************************************************************)
Members(groups) == UNION {ToSet(groups[g]) : g \in DOMAIN groups}
IsCurrent(k) == cluster[k].groups # <<>> /\ Members(cluster[k].groups) = ToSet(cluster[k].articles)
Ungrouped == {k \in DOMAIN cluster : ~IsCurrent(k)}

WithGroups(row, groups, status) ==
  [row EXCEPT !.status = status, !.groups = groups,
              !.exact = [article \in ToSet(row.articles) |-> ExactDuplicates(article)]]
Singletons(articles) == [i \in DOMAIN articles |-> <<articles[i]>>]

GroupTarget(j, k) ==
  /\ At(j, "GROUP_SIMILAR_ARTICLES")
  /\ k \in Ungrouped /\ \A i \in Ungrouped : k <= i
  /\ LET articles == cluster[k].articles
     IN  \/ cluster' = [cluster EXCEPT ![k] =
                          WithGroups(@, SimilarGroups(articles, Close), "READY")]
         \/ cluster' = [cluster EXCEPT ![k] =
                          WithGroups(@, Singletons(articles), "UNAVAILABLE")]
  /\ Overtake(j)
  /\ UNCHANGED <<news, nextId, contexts, job, output>>

EndGroups_StopsWhenDegraded(j) ==
  /\ At(j, "GROUP_SIMILAR_ARTICLES")
  /\ \A k \in Ungrouped : \E i \in DOMAIN cluster \ Ungrouped :
       i < k /\ cluster[i].status = "UNAVAILABLE"
  /\ job' = Advanced(j)
  /\ UNCHANGED <<news, cluster, nextId, contexts, output, stale>>
EndGroups(j) ==
  /\ At(j, "GROUP_SIMILAR_ARTICLES")
  /\ Ungrouped = {}
  /\ job' = Advanced(j)
  /\ UNCHANGED <<news, cluster, nextId, contexts, output, stale>>

(***************************************************************************)
(* GENERATE_AI_SUMMARIES: the card and the detail of a cluster belong to   *)
(* the job and the cluster id.                                             *)
(***************************************************************************)
Unsummarized(j) == {k \in DOMAIN cluster : cluster[k].id \notin DOMAIN job[j].cards}
WithCard(cards, row) ==
  [id \in DOMAIN cards \cup {row.id} |-> IF id = row.id THEN ToSet(row.articles) ELSE cards[id]]

SummarizeTarget(j, k) ==
  /\ At(j, "GENERATE_AI_SUMMARIES")
  /\ k \in Unsummarized(j)
  /\ job' = [job EXCEPT ![j].cards = WithCard(@, cluster[k])]
  /\ UNCHANGED <<news, cluster, nextId, contexts, output, stale>>

EndSummaries(j) ==
  /\ At(j, "GENERATE_AI_SUMMARIES")
  /\ Unsummarized(j) = {}
  /\ job' = Advanced(j)
  /\ UNCHANGED <<news, cluster, nextId, contexts, output, stale>>
-----------------------------------------------------------------------------
(***************************************************************************)
(* BUILD_PAGE_SNAPSHOT and FINALIZE_JOB.  The source is refused when an    *)
(* article is in two clusters or the groups do not cover a cluster.        *)
(***************************************************************************)
SourceLinks == UNION {{<<k, row>> : row \in ToSet(cluster[k].articles)} : k \in DOMAIN cluster}
NoArticleTwice == \A a, b \in SourceLinks : a[2] = b[2] => a = b
SourceIsValid == NoArticleTwice /\ \A k \in DOMAIN cluster : IsCurrent(k)

CardOf(j, row) == IF row.id \in DOMAIN job[j].cards THEN job[j].cards[row.id] ELSE {}
Section(j, row) ==
  [articles |-> row.articles, status |-> row.status, groups |-> row.groups,
   exact |-> row.exact, themed |-> row.themed, card |-> CardOf(j, row)]

BuildPage(j) ==
  /\ At(j, "BUILD_PAGE_SNAPSHOT")
  /\ cluster # <<>> /\ SourceIsValid
  /\ pages' = Append(pages, [job |-> j,
                             sections |-> [k \in DOMAIN cluster |-> Section(j, cluster[k])]])
  /\ job' = [Advanced(j) EXCEPT ![j].paged = TRUE]
  /\ UNCHANGED <<news, cluster, nextId, contexts, stale, replays>>

\* SNAPSHOT_SOURCE_MISSING
SkipPage(j) ==
  /\ At(j, "BUILD_PAGE_SNAPSHOT")
  /\ cluster = <<>>
  /\ job' = Advanced(j)
  /\ UNCHANGED <<news, cluster, nextId, contexts, output, stale>>

RefusePage(j) ==
  /\ At(j, "BUILD_PAGE_SNAPSHOT")
  /\ cluster # <<>> /\ ~SourceIsValid
  /\ job' = [job EXCEPT ![j].status = "FAILED"]
  /\ UNCHANGED <<news, cluster, nextId, contexts, output, stale>>

Finalize(j) ==
  /\ At(j, "FINALIZE_JOB")
  /\ job' = [job EXCEPT ![j].status = IF job[j].paged THEN "COMPLETED" ELSE "FAILED"]
  /\ UNCHANGED <<news, cluster, nextId, contexts, output, stale>>
-----------------------------------------------------------------------------
DCNext ==
  \E j \in Jobs :
    \/ Start(j) \/ Replay(j) \/ Fail(j)
    \/ Prepare(j) \/ Dedupe(j)
    \/ EndBuild(j) \/ EndThemes(j) \/ EndGroups(j) \/ EndSummaries(j)
    \/ BuildPage(j) \/ SkipPage(j) \/ RefusePage(j) \/ Finalize(j)
    \/ \E k \in Ranks :
         \/ BuildTarget(j, k) \/ ClassifyTarget(j, k)
         \/ GroupTarget(j, k) \/ SummarizeTarget(j, k)

DCSpec == DCInit /\ [][DCNext]_dcVars
-----------------------------------------------------------------------------
(***************************************************************************)
(* Properties.                                                             *)
(***************************************************************************)
\* No article is twice in a division of articles into groups.
NoneTwice(groups) ==
  \A g, h \in DOMAIN groups : \A i \in DOMAIN groups[g], l \in DOMAIN groups[h] :
    groups[g][i] = groups[h][l] => g = h /\ i = l

\* A page tells of one clustering of the articles there are.  Its clusters
\* are ranked without a gap, share no article, and hold articles that share
\* title words with the oldest row of the cluster; only the caps leave an
\* article of the query out.  Themes and card were made of exactly the
\* articles shown, the groups partition them, and the duplicate counts are
\* those of the mapping.
IsTheClustering(page) ==
  LET shown == page.sections
      rows(k) == ToSet(shown[k].articles)
      all == UNION {rows(k) : k \in DOMAIN shown}
  IN  /\ DOMAIN shown = 1 .. Cardinality(DOMAIN shown)
      /\ \A k, l \in DOMAIN shown :
           k < l => rows(k) \cap rows(l) = {} /\ Cardinality(rows(k)) >= Cardinality(rows(l))
      /\ all \subseteq Recent
      /\ Cardinality(DOMAIN shown) < MaxClusters => all = Recent
      /\ \A k \in DOMAIN shown :
           /\ \A row \in rows(k) : <<Min(rows(k)), row>> \in Alike
           /\ shown[k].themed = rows(k) /\ shown[k].card = rows(k)
           /\ Members(shown[k].groups) = rows(k)
           /\ NoneTwice(shown[k].groups)
           /\ \A row \in rows(k) : shown[k].exact[row] = ExactDuplicates(row)

\* The page of a job that no other job has overtaken since it read the
\* articles is that clustering, whatever earlier runs left in the tables,
\* wherever this one was interrupted and queued again.
PageIsTheClustering ==
  [][pages' # pages => (Last(pages').job \in stale \/ IsTheClustering(Last(pages')))]_dcVars

\* The checks before a page is inserted refuse only what another job of the
\* date has written in between: a run that is not overtaken gets its page.
OnlyOvertakenAreRefused ==
  \A j \in Jobs : At(j, "BUILD_PAGE_SNAPSHOT") /\ j \notin stale => SourceIsValid

\* Similar groups are complete links and none could take another one whole:
\* all the articles of a group are close, of two groups some pair is not.
GroupsAreTight ==
  \A k \in DOMAIN cluster :
    cluster[k].status = "READY" =>
      LET groups == cluster[k].groups
          linked(g, h) == \A i \in DOMAIN groups[g], l \in DOMAIN groups[h] :
                            groups[g][i] = groups[h][l] \/ <<groups[g][i], groups[h][l]>> \in Close
      IN  \A g, h \in DOMAIN groups : linked(g, h) <=> g = h
=============================================================================
