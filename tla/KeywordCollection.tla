-------------------------- MODULE KeywordCollection --------------------------
(***************************************************************************)
(* How a news collection job collects its slot, keyword by keyword and     *)
(* page by page (app/batch/orchestrators/news_collection.py,               *)
(* app/batch/providers/naver_news.py, news_article_raw_repo.py,            *)
(* news_collection_run_repo.py), while the provider lists more articles,   *)
(* requests fail, and a worker that lost its lease goes on writing.        *)
(* NewsCoverage takes for granted what is shown here: the articles of a    *)
(* market whose keywords are all complete can be read.                     *)
(*                                                                         *)
(* An operator Name_Variant is a wrong version of Name, kept to show that  *)
(* the properties below notice it; nothing here uses it.                   *)
(***************************************************************************)
EXTENDS Integers, Sequences, FiniteSets, Functions

CONSTANTS
  Articles,       \* natural numbers: of two published at once, the larger is listed first
  Published,      \* Published[a]: pubDate, in ticks
  Undated,        \* the articles whose pubDate cannot be parsed
  Mentions,       \* Mentions[a]: the keywords that find article a
  KeywordOrder,   \* the active keywords in the order of list_active_keywords
  Market,         \* Market[k]: the market keyword k belongs to
  SlotEnds,       \* the slots that were asked for, by their ends
  SlotLength,     \* NEWS_COLLECTION_SLOT_MINUTES
  Overlap,        \* naver_news_collection_overlap_minutes
  PageSize,       \* _NAVER_PAGE_SIZE
  MaxStart,       \* _NAVER_MAX_START
  Workers,        \* the processes that drain the queue
  MaxAttempts     \* batch_worker_max_attempts

Keywords == Range(KeywordOrder)
Markets == {Market[k] : k \in Keywords}

ASSUME KeywordCollectionAssumption ==
  /\ Articles \subseteq Nat /\ SlotEnds \subseteq Nat
  /\ IsFiniteSet(Articles) /\ IsFiniteSet(SlotEnds)
  /\ Published \in [Articles -> Nat]
  /\ Undated \subseteq Articles
  /\ Mentions \in [Articles -> SUBSET Keywords]
  /\ KeywordOrder \in Seq(Keywords)
  /\ DOMAIN Market = Keywords /\ "none" \notin Markets
  /\ IsInjective(KeywordOrder)
  /\ {SlotLength, PageSize, MaxStart, MaxAttempts} \subseteq Nat \ {0}
  /\ Overlap \in Nat

NoWorker == "nobody"
NoSlot == "none"

VARIABLES
  listed,      \* the articles the provider's search returns
  status,      \* status[e]: batch_job.status of the slot that ends at e
  holder,      \* holder[e]: the worker whose lease token the job has
  attempts,    \* attempts[e]: attempt_count
  diagnostic,  \* diagnostic[e][k]: news_collection_keyword_diagnostic
  rowMarket,   \* rowMarket[a]: market_type of the row of a in news_article_raw
  matches,     \* news_article_raw_keyword_match
  work,        \* work[w]: the attempt worker w is in
  asked        \* history: what the provider listed when the query diagnostic[e][k]
               \* tells of began, and that query had to find

vars == <<listed, status, holder, attempts, diagnostic, rowMarket, matches, work, asked>>
slotJob == <<status, holder, attempts>>

Idle == [slot |-> NoSlot]
Ended == {"SUCCESS", "PARTIAL", "FAILED"}
Verdicts == {"failed", "capped", "complete"}

\* What a worker keeps of the query it is at.
Queries == [keyword : Nat \ {0}, start : Nat \ {0}, found : SUBSET Articles,
            result : {"open", "capped", "complete"}, due : SUBSET Articles]
Attempts == [slot : SlotEnds, query : Queries, partial : BOOLEAN, rejected : BOOLEAN]

TypeOK ==
  /\ listed \subseteq Articles
  /\ status \in [SlotEnds -> {"PENDING", "RUNNING"} \cup Ended]
  /\ holder \in [SlotEnds -> Workers \cup {NoWorker}]
  /\ attempts \in [SlotEnds -> Nat]
  /\ diagnostic \in [SlotEnds -> [Keywords -> {"none"} \cup Verdicts]]
  /\ rowMarket \in [Articles -> Markets \cup {"none"}]
  /\ matches \subseteq Articles \X Keywords
  /\ work \in [Workers -> {Idle} \cup Attempts]
  /\ asked \in [SlotEnds -> [Keywords -> SUBSET Articles]]

Init ==
  /\ listed = {}
  /\ status = [e \in SlotEnds |-> "PENDING"]
  /\ holder = [e \in SlotEnds |-> NoWorker]
  /\ attempts = [e \in SlotEnds |-> 0]
  /\ diagnostic = [e \in SlotEnds |-> [k \in Keywords |-> "none"]]
  /\ rowMarket = [a \in Articles |-> "none"]
  /\ matches = {}
  /\ work = [w \in Workers |-> Idle]
  /\ asked = [e \in SlotEnds |-> [k \in Keywords |-> {}]]
-----------------------------------------------------------------------------
(***************************************************************************)
(* The provider.                                                           *)
(***************************************************************************)
\* The search lists one more article, however old it is.
Index(a) ==
  /\ a \notin listed
  /\ listed' = listed \cup {a}
  /\ UNCHANGED <<slotJob, diagnostic, rowMarket, matches, work, asked>>

Newer(a, b) == Published[a] > Published[b] \/ (Published[a] = Published[b] /\ a > b)

Hits(k) == {a \in listed : k \in Mentions[a]}

\* Where article a stands in a search with sort=date, and one page of it.
Position(k, a) == 1 + Cardinality({b \in Hits(k) : Newer(b, a)})
Page(k, start) ==
  {a \in Hits(k) : start <= Position(k, a) /\ Position(k, a) < start + PageSize}
-----------------------------------------------------------------------------
(***************************************************************************)
(* The attempt of a worker.                                                *)
(***************************************************************************)
\* The dated articles of slot e and of the overlap before it that keyword k finds.
Due(e, k) ==
  {a \in listed \ Undated : /\ k \in Mentions[a]
                            /\ e - SlotLength - Overlap <= Published[a]
                            /\ Published[a] < e}

\* The query of the n-th keyword; there is none after the last.
Query(e, n) ==
  [keyword |-> n, start |-> 1, found |-> {}, result |-> "open",
   due |-> IF n <= Len(KeywordOrder) THEN Due(e, KeywordOrder[n]) ELSE {}]

\* claim_next_job, begin_step and the first query.
Claim(w, e) ==
  /\ work[w] = Idle
  /\ status[e] = "PENDING"
  /\ status' = [status EXCEPT ![e] = "RUNNING"]
  /\ holder' = [holder EXCEPT ![e] = w]
  /\ attempts' = [attempts EXCEPT ![e] = @ + 1]
  /\ work' = [work EXCEPT ![w] =
                [slot |-> e, query |-> Query(e, 1), partial |-> FALSE, rejected |-> FALSE]]
  /\ UNCHANGED <<listed, diagnostic, rowMarket, matches, asked>>

Holds(w) == work[w] # Idle /\ holder[work[w].slot] = w /\ status[work[w].slot] = "RUNNING"
Asking(w) ==
  /\ work[w] # Idle
  /\ work[w].query.keyword <= Len(KeywordOrder)
  /\ ~work[w].rejected
Keyword(w) == KeywordOrder[work[w].query.keyword]

TooOld(e, a) == a \notin Undated /\ Published[a] < e - SlotLength - Overlap
InQuery(e, a) == a \notin Undated /\ ~TooOld(e, a) /\ Published[a] < e

\* _extract_window_articles: what is found before the first article that is too old.
Extracted(e, page) ==
  {a \in page : InQuery(e, a) /\ \A b \in page : Newer(b, a) => ~TooOld(e, b)}

ResultOf_CapIsComplete(e, page, next) ==
  IF \/ Cardinality(page) < PageSize \/ next > MaxStart
     \/ \E a \in page : TooOld(e, a)
  THEN "complete" ELSE "open"

\* An empty or a short page and an article that is too old end the listing, the
\* largest offset ends the query.
ResultOf(e, page, next) ==
  IF Cardinality(page) < PageSize \/ (\E a \in page : TooOld(e, a)) THEN "complete"
  ELSE IF next > MaxStart THEN "capped" ELSE "open"

NextStart_Same(start) == start
NextStart(start) == start + PageSize

\* One request of collect_for_keyword.
FetchPage(w) ==
  /\ Asking(w) /\ work[w].query.result = "open"
  /\ LET q == work[w].query
         page == Page(Keyword(w), q.start)
         next == NextStart(q.start)
     IN  work' = [work EXCEPT
           ![w].query.start = next,
           ![w].query.found = @ \cup Extracted(work[w].slot, page),
           ![w].query.result = ResultOf(work[w].slot, page, next)]
  /\ UNCHANGED <<listed, slotJob, diagnostic, rowMarket, matches, asked>>

\* upsert_keyword_diagnostic; history: what a complete query had to find.
Diagnose(w, verdict) ==
  /\ diagnostic' = [diagnostic EXCEPT ![work[w].slot][Keyword(w)] = verdict]
  /\ asked' = [asked EXCEPT ![work[w].slot][Keyword(w)] =
                          IF verdict = "complete" THEN work[w].query.due ELSE {}]

\* The loop goes on with the next keyword, a failure or a cap kept in partial_reasons.
NextKeyword(w, ok) ==
  work' = [work EXCEPT ![w].query = Query(work[w].slot, @.keyword + 1), ![w].partial = @ \/ ~ok]

\* insert_articles: ON CONFLICT DO NOTHING.
Inserted(found, k) ==
  [a \in Articles |-> IF a \in found /\ rowMarket[a] = "none" THEN Market[k]
                      ELSE rowMarket[a]]

Matched_NewRowsOnly(found, k) ==
  matches \cup {<<a, k>> : a \in {b \in found : rowMarket[b] = "none"}}

\* link_articles_to_keyword.
Matched(found, k) == matches \cup {<<a, k>> : a \in found}

\* The articles, their matches and the diagnostic of a keyword: one transaction,
\* which no lease fences.
SaveKeyword(w) ==
  /\ Asking(w) /\ work[w].query.result # "open"
  /\ LET found == work[w].query.found IN
     /\ rowMarket' = Inserted(found, Keyword(w))
     /\ matches' = Matched(found, Keyword(w))
  /\ Diagnose(w, work[w].query.result)
  /\ NextKeyword(w, work[w].query.result = "complete")
  /\ UNCHANGED <<listed, slotJob>>

\* Any other failure of a keyword leaves the rest of the keywords to be collected.
KeywordFails(w) ==
  /\ Asking(w) /\ work[w].query.result = "open"
  /\ Diagnose(w, "failed")
  /\ NextKeyword(w, FALSE)
  /\ UNCHANGED <<listed, slotJob, rowMarket, matches>>

\* HTTP 401 or 403: no further request is made.
Rejected(w) ==
  /\ Asking(w) /\ work[w].query.result = "open"
  /\ Diagnose(w, "failed")
  /\ work' = [work EXCEPT ![w].query = Query(work[w].slot, @.keyword + 1),
                          ![w].partial = TRUE, ![w].rejected = TRUE]
  /\ UNCHANGED <<listed, slotJob, rowMarket, matches>>

AfterFailure(e) == IF attempts[e] >= MaxAttempts THEN "FAILED" ELSE "PENDING"

\* release_failed_claim: only the holder changes the job.
Release(w, to) ==
  LET e == work[w].slot IN
  /\ status' = IF Holds(w) THEN [status EXCEPT ![e] = to] ELSE status
  /\ holder' = IF Holds(w) THEN [holder EXCEPT ![e] = NoWorker] ELSE holder
  /\ work' = [work EXCEPT ![w] = Idle]
  /\ UNCHANGED attempts

\* HTTP 429 or 5xx: the diagnostic is committed and the attempt ends.
Throttled(w) ==
  /\ Asking(w) /\ work[w].query.result = "open"
  /\ Diagnose(w, "failed")
  /\ Release(w, AfterFailure(work[w].slot))
  /\ UNCHANGED <<listed, rowMarket, matches>>

\* The transaction of a keyword or the final one fails and is rolled back.
AttemptFails(w) ==
  /\ work[w] # Idle
  /\ Release(w, AfterFailure(work[w].slot))
  /\ UNCHANGED <<listed, diagnostic, rowMarket, matches, asked>>

\* No keyword is active or no credentials are configured: _fail_job.
NotConfigured(w) ==
  /\ Holds(w) /\ work[w].query = Query(work[w].slot, 1)
  /\ Release(w, "FAILED")
  /\ UNCHANGED <<listed, diagnostic, rowMarket, matches, asked>>

\* The keywords that were not asked after a rejection.
Skipped(w) == {KeywordOrder[i] : i \in work[w].query.keyword .. Len(KeywordOrder)}

Done(w) == work[w] # Idle /\ (work[w].query.keyword > Len(KeywordOrder) \/ work[w].rejected)

\* The final transaction: the diagnostics of the keywords skipped, and
\* mark_job_completed, which the lease fences.
Finish(w) ==
  /\ Done(w) /\ Holds(w)
  /\ LET e == work[w].slot IN
     /\ diagnostic' = [diagnostic EXCEPT ![e] =
          [k \in Keywords |-> IF work[w].rejected /\ k \in Skipped(w) THEN "failed" ELSE @[k]]]
     /\ Release(w, IF work[w].rejected THEN "FAILED"
                   ELSE IF work[w].partial THEN "PARTIAL" ELSE "SUCCESS")
  /\ UNCHANGED <<listed, rowMarket, matches, asked>>

\* The fence refuses the end of a worker that has lost its lease.
FinishRefused(w) ==
  /\ Done(w) /\ ~Holds(w)
  /\ work' = [work EXCEPT ![w] = Idle]
  /\ UNCHANGED <<listed, slotJob, diagnostic, rowMarket, matches, asked>>

\* The lease runs out, the process died or not: recover_expired_claims.
LeaseExpires(e) ==
  /\ status[e] = "RUNNING"
  /\ status' = [status EXCEPT ![e] = AfterFailure(e)]
  /\ holder' = [holder EXCEPT ![e] = NoWorker]
  /\ UNCHANGED <<listed, attempts, diagnostic, rowMarket, matches, work, asked>>

\* The process dies, or the dispatch of a lost lease is cancelled.
Die(w) ==
  /\ work[w] # Idle
  /\ work' = [work EXCEPT ![w] = Idle]
  /\ UNCHANGED <<listed, slotJob, diagnostic, rowMarket, matches, asked>>

Collect(w) ==
  \/ \E e \in SlotEnds : Claim(w, e)
  \/ FetchPage(w) \/ SaveKeyword(w) \/ Finish(w) \/ FinishRefused(w)
Work(w) ==
  \/ Collect(w) \/ KeywordFails(w) \/ Rejected(w) \/ Throttled(w)
  \/ AttemptFails(w) \/ NotConfigured(w)

Next ==
  \/ \E a \in Articles : Index(a)
  \/ \E w \in Workers : Work(w) \/ Die(w)
  \/ \E e \in SlotEnds : LeaseExpires(e)

AnyCollect == \E w \in Workers : Collect(w)
LeaseOfTheDead == (\A w \in Workers : work[w] = Idle) /\ \E e \in SlotEnds : LeaseExpires(e)

\* Somebody drains the queue while jobs are unfinished (BatchScheduler), and a lease
\* nobody is left to renew runs out.  No failure is forced.
Fairness == WF_vars(AnyCollect) /\ WF_vars(LeaseOfTheDead)

Spec == Init /\ [][Next]_vars
FairSpec == Spec /\ Fairness
-----------------------------------------------------------------------------
\* list_articles_by_window: a row is read for its own market and for the markets of
\* the keywords it is matched to.
Readable(a, m) ==
  rowMarket[a] # "none" /\ (rowMarket[a] = m \/ \E p \in matches : p[1] = a /\ Market[p[2]] = m)

\* list_complete_intervals: whether slot e counts as covered for market m.
Covered(e, m) ==
  LET ofMarket == {k \in Keywords : Market[k] = m /\ diagnostic[e][k] # "none"} IN
  /\ status[e] \in {"SUCCESS", "PARTIAL"}
  /\ ofMarket # {}
  /\ \A k \in ofMarket : diagnostic[e][k] = "complete"

\* What a covered slot promises a page: each keyword of the market was asked, and every
\* dated article of the slot and of the overlap before it that the provider listed when
\* the query of one of them began can be read, whatever page it was on, whichever market
\* met it first, and however many attempts and workers the slot took.
CoveredMeansReadable ==
  \A e \in SlotEnds, m \in Markets : Covered(e, m) =>
    \A k \in {x \in Keywords : Market[x] = m} :
      /\ diagnostic[e][k] = "complete"
      /\ \A a \in asked[e][k] : Readable(a, m)

\* Each collection ends: paging reaches the end of the listing or the cap, and the
\* attempts are used up.
SlotsEnd == \A e \in SlotEnds : <>(status[e] \in Ended)
=============================================================================
