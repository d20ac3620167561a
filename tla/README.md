# stockapp: verification project

stockapp is a FastAPI service that publishes one page of market news per business
date. Everything that changes state runs as a *durable batch job*: a request inserts a
row into `batch_job`, a drain inside the API process claims it, an orchestrator
executes it step by step, and PostgreSQL is the only thing that survives a crash.
The modules here model that machinery and the pipeline it runs: who may write what, in
which order, and what is left behind when something stops half way. What a text says
is left out; what is decided from it (two articles are alike, an answer is a
fallback) is a relation or a choice.

## 1. The system

| Part | Code | State | Operations | Hard behaviour |
|---|---|---|---|---|
| Durable queue, worker | `app/batch/worker.py`, `app/db/repositories/batch_job_repo.py` | rows of `batch_job`, `batch_job_step_run` | enqueue, replay, recover, claim, begin step, checkpoint, complete, heartbeat, cancel, release, LLM reschedule | several workers, leases that run out under a live worker, crashes, budgets of attempts |
| Scheduler and drain | `app/batch/background.py`, `app/main.py` | the drain task, `_drain_requested`, callbacks | start_drain, done callback, shutdown, startup recovery, run_until_idle | requests that race the end of a drain, shutdown, waits that give up |
| Batch API | `app/domains/batches/service.py`, `router.py` | `batch_job`, its unique indexes | start, rebuild, retry-ai, idempotent replay | check and insert in separate statements |
| News slots and coverage | `domains/batches/service.py`, `steps/prepare_market_contexts.py`, `steps/dedupe_articles.py` | `news_collection_run`, `batch_job_market_context` | ask for a slot, catch up, prepare windows, judge coverage | slots nobody asked for, windows that end inside a slot, pages of past dates |
| Keyword collection | `orchestrators/news_collection.py`, `providers/naver_news.py` | diagnostics per keyword, `news_article_raw`, keyword matches | page through a listing, save a keyword, fail, throttle | a listing that grows while it is paged, attempts cut short, writes that are not fenced |
| Market-daily orchestrator | `orchestrators/market_daily.py`, `steps/target_progress.py`, `steps/*` | `checkpoint_json` | ten steps, resume, targets | resume after a crash, siblings of a failed call |
| Deduplication, clusters, groups, themes | `steps/dedupe_articles.py`, `build_clusters.py`, `classify_cluster_themes.py`, `group_similar_articles.py`, `article_similarity.py` | `news_article_processed`, `news_cluster` and its tables | dedupe, seed, rank, upsert in place, group | tables of the date shared by jobs that fail and are replayed |
| Market indices | `policies/market_session_policy.py`, `providers/market_index_provider.py`, `steps/collect_market_indices.py` | `market_index_daily` | expect a session, read bars and quotes, upsert | a session that still trades, quotes of another day, rows of an earlier job |
| LLM client | `app/core/llm.py` | request and token windows, circuit | acquire, reconcile, retry, half-open | concurrent callers on one event loop, locks held while sleeping |
| Pages | `steps/build_page_snapshot*.py`, `page_snapshot_write_repo.py` | page versions | build, rebuild, clone | two builders of one date |
| AI summary retry | `app/batch/ai_retry/` | `ai_summary`, page versions, checkpoint | select, generate, build page, finalize | attempts interrupted anywhere, retries that interleave, a lineage read once |
| Read APIs, auth, settings, providers, migrations | the rest | none, or startup only | queries, HTTP calls | see 6 |

How they interact. The router commits a job and only then runs a background task
that calls `start_drain`; the drain calls `run_once` until nothing is actionable;
`run_once` recovers expired leases, claims one job, dispatches it by its run mode
and releases it if it fails. The orchestrators write under the fence of the claim's
lease token. News collection jobs feed `news_article_raw`, from which the
deduplication step of the daily job takes the articles of its window. Its clusters,
index rows and summaries go into a page version; the AI retry reads the summaries of
a daily job and publishes new versions of its page. All LLM steps share one client.

## 2. Modules

| Module | Models | Builds on |
|---|---|---|
| `JobLifecycle` | what the queue promises a job: absent, queued, held, done or failed; an epoch that is never used twice; a bounded number of tries per grant | – |
| `JobQueue` | the queue and its workers, one action per transaction | implements `JobLifecycle` |
| `BatchScheduler` | scheduler, drain, handlers, shutdown, kill, restart | the queue reduced to what a drain sees |
| `DailyPages` | requests for a page, the jobs they create or find, the versions these publish | jobs run as in `MarketDaily`, `AiRetry` |
| `NewsCoverage` | slots, catch-up, windows, watermark, coverage | takes `CoveredMeansReadable` for granted |
| `KeywordCollection` | one slot, keyword by keyword and page by page | shows `CoveredMeansReadable` |
| `MarketDaily` | the step loop, the checkpoint, the targets of the LLM steps | an LLM call is its outcome |
| `ArticleGrouping` | seeding, ranking and similarity groups as operators | – |
| `DailyClusters` | articles, clusters, themes, groups, summaries and pages of one date | `EXTENDS ArticleGrouping` |
| `MarketIndices` | index rows, partial reasons and notes of one date | – |
| `LlmClient` | limiters, retries and circuit under concurrent calls | – |
| `AiRetry` | retry jobs of one source job | – |
| `EventLoopProofs` | theorems about what runs on the API's event loop | `BatchScheduler`, `LlmClient` |
| `ArticleProofs` | theorems about articles, from the search to the page | `KeywordCollection`, `DailyClusters` |
| `JobQueueProofs`, `DailyPagesProofs`, `MarketDailyProofs`, `AiRetryProofs`, `NewsCoverageProofs`, `MarketIndicesProofs` | theorems | the module of that name |
| `MC*` | instances for TLC: model values, functions, symmetry | |

Actions carry the name of the function or of the transaction they model. An operator
`Name_Variant` is a wrong version of `Name` (a dropped guard, a missing reset, a
swapped order). No specification uses it; with `Name` replaced by it, TLC finds the
property it is paired with violated.

**JobQueue.** The queue columns of `batch_job`, the open step runs, and per worker
where it is in `run_once`, its claim and its heartbeat. `Enqueue`, `Replay`;
`Recover` (with the step runs it closes), `Claim`, `ClaimNothing`: `FOR UPDATE SKIP
LOCKED` makes a claim atomic; `BeginStep`, `SaveCheckpoint`, `Complete`,
`WriteRefused`, `StepFails`: the step loop; `SaveCheckpoint` keeps `llmRetryCount` in
the market-daily orchestrator and drops it in the AI retry, as the code does;
`Heartbeat`, `HeartbeatFails`, `Cancel`; `LlmFails` and the releases, with the widening
of `max_attempts` and the last in-process attempt; `Die`, `Tick`. PostgreSQL's `now()`
is the start of the transaction: a final write may be fenced against any clock reading
since the step began (`StepClocks`).

**BatchScheduler.** The event loop runs one callback at a time, so every operation up
to an `await` is one action; the drain is split where it awaits. A `Tick` is one poll
interval. Rows are reduced to what `run_until_idle` sees. A handler commits its job
(`Request`), may then fail in the catch-up of a news request (`HandlerFails`), and only
with its answer adds the background task (`Answered`) that calls `start_drain`
(`BackgroundTask`); `Repeat` is a request that finds its job. `Shutdown` sets the flag
and cancels, no more: a drain that sleeps or awaits a query unwinds (`Unwound`), one
that executes a job cancels the dispatch and waits for it (`UnwindFails`: the dispatch
ends with an error of its own, which replaces the cancellation), and one that is just
leaving a dispatch may swallow it (`worker.py:378`, `:388`, `:391`) and go on claiming
until `ShutdownDone`, or until the container is killed (`Kill`). A `Boot` may come with or
without the startup drain (`StartupRecovery` is the set of what may be). `left` says of
each job why a drain, a handler or a start was free to leave it. It is taken that
`start_drain` does not raise, that is, that a worker can be built; and nothing is
assumed of requests that are open when the shutdown begins.

**DailyPages.** A handler takes one step per statement whose result it acts upon: look
up the key, check active jobs and pages, insert, meet the unique index, read the
winner. A job's run takes the advisory lock, reads the version, inserts, commits; it
may be interrupted and queued again, and finds its page in the checkpoint; the first
step of a resumed AI retry replaces that checkpoint (`Reselect`), so that a second
interruption makes it publish again.

**NewsCoverage.** Time in ticks, a slot is a few of them, so a job can start inside
one. `RequestLatest` is the scheduled request with its catch-up, which commits slot by
slot and may stop anywhere; `Collect` a collection in which every keyword got a
diagnostic, `CollectionStops` one cut short. `Prepare` writes the windows,
`ReadArticles` and `JudgeCoverage` are the two reads of DEDUPE_ARTICLES.

**KeywordCollection.** The provider's listing is newest first and grows (`Index`).
`Claim`, `FetchPage` (the three grounds on which paging ends), `SaveKeyword` (one
transaction per keyword, not fenced by the lease), `KeywordFails`, `Rejected`
(401/403), `Throttled` (429/5xx), `AttemptFails`, `NotConfigured`, `Finish` and
`FinishRefused` (fenced), `LeaseExpires`, `Die`.

**MarketDaily.** Attempts of one job. `Restore`, `BeginStep`, `Load` (progress and
lease token as the row has them), `Answer`, `Fail`, `WakeUp` (asyncio.wait: siblings are
drained, waiting calls cancelled), `PersistTarget` (rows and checkpoint in one
transaction), `EndStep`, `Finalize`, and three ways to stop. BUILD_PAGE_SNAPSHOT may end
without a page, for want of clusters or market contexts, and the job then FAILED
(`ContextsAfter`). `StaleLoads` says whether
an attempt that lost its lease may still reach `Load`; see 4.

**ArticleGrouping, DailyClusters.** The articles of the window, the rows and raw
aliases, the selected clusters with their caps, the upsert in place, themes, complete
link groups and their fallback, summaries, the checks before a page and the page.
Jobs of the date run one at a time; a failed one is queued again with all it has done,
also after another has run. `stale` are jobs another job has overtaken.

**MarketIndices.** A session has three instants: open, closed, settled. `Fetch` is what
the provider answers for a ticker at that moment, `Collect` the upsert with the rows an
earlier job left, `BuildPage` what the page says.

**LlmClient.** Times are ages, so no clock is needed. The head of a queue holds the
lock, also while it sleeps. `GrantSlot`, `GrantTokens`, `ReportUsage`, `Verdict`,
`BackoffEnds`, `Cancel`. `granted` and `spent` are history: the requests and the tokens
of the last window whatever the limiters remember, so that the properties compare the
two. `FitArticles` is the binary search that cuts a prompt to one window. The names
`LC...` and `DC...` (`LCInit`, `LCNext`, `LCSpec`, `LCTypeOK`; `DCInit`, ... in
`DailyClusters`) are what other modules call `Init`, `Next`, `Spec`, `TypeOK`: one
module of proofs extends two specifications.

**AiRetry.** A summary is its quality, attempt number and age. `Effective`, `Selected`,
`Recovered`, `RetrySource` translate `resolver.py`, `Persisted` the upsert that keeps a
successful row, `Finalize` the terminal status. An attempt reads the lineage once.
`Interrupt` stands for a crash, a lost lease and every release.

## 3. Properties and runs

| Run | Instance | Distinct states, time |
|---|---|---|
| `queue_shared` | a market-daily job and a news collection, two workers, clock 0..2, lease 1, two attempts, one LLM retry, one replay | 1.5 M, 2–4 min |
| `scheduler_drain` | two jobs, one of them from the news handler, two attempts, lease 2, delays 2 and 3, starts with and without recovery, one shutdown or kill, one database error | 393 k, 3 min |
| `pages_race` | a start sent twice with one key, a rebuild without a key, a retry sent twice with another, two workers, two interruptions | 226 k, 1.5 min |
| `news_windows` | three slots, two daily pages of any date, one market | 2 M, 2 min |
| `keyword_paging` | four articles (in the overlap, in the slot, too old, undated), two keywords of two markets, page size 1, cap after two pages, two workers, two attempts | 436 k, 2 min |
| `market_resume` | two attempts; a cluster, a theme, a group, headline and detail; one LLM retry | 259 k, 1 min |
| `clusters` | two jobs, four raw articles of three stories, two of them late, two clusters, one replay | 1.8 M, 1 min |
| `indices_days` | two tickers, two jobs, three sessions, one replay | 326 k, 10 s |
| `llm_calls` | four calls, one of them too large, two requests and three tokens per window, one rejection opens the circuit | 154 k, 2 min |
| `airetry_seq` | two retries, one at a time, two attempts each, three targets with headline and detail | 278 k, 1.5 min |
| `news_missing`, `market_stalled` | smaller; each ends with a counterexample, see 4 | seconds |

Every state machine has a type invariant (`TypeOK`, `LCTypeOK`, `DCTypeOK`). All are
proved (5), so the configurations leave them out.

What they show:

* **Queue.** `Ownership`: a token belongs to one claim and one row, so no two workers
  hold a job. `ZombieIsInert`, `LiveLeaseNotStolen`: a worker that lost its job changes
  nothing, one that has not cannot lose it. `NoStrandedJob`: no PENDING job without an
  attempt left. `GenuineBudgetKept`, `LlmWideningBounded`: an LLM outage neither eats
  the budget for genuine failures nor adds attempts without bound. `HolderRunOpen`: a
  recovery never closes the step run of a live attempt. `ImplementsLifecycle`. The run
  has a market-daily and a news job; what holds of an AI retry, whose checkpoints forget
  the count of LLM retries, is shown by the theorem only.
* **Scheduler.** `NoJobForgotten`: while a job is unfinished somebody will look at it,
  unless its handler failed after the commit, a database error ended the drain, its
  delay is longer than the drain waits, or a process started without recovery: four
  reasons, each of a job that was left for it, and no race adds a fifth.
  `OnlyABusyDrainGoesOn`: while `shutdown()` waits no drain starts, and the only one that
  can still claim is one that was executing a job when it was cancelled; afterwards
  there is none. `QueuedJobsEnd` (liveness): a job that nothing has left ends, and every
  job ends, for whatever reason it was left, if requests that find it keep coming.
* **Requests and versions.** `AcceptedMeansMine`: whatever races, a key stands for one
  job of the kind asked for. `OneDailyJob`. `VersionsNeverCollide`: builders of one date
  never fail each other. `AcceptedJobsEnd` (liveness).
* **News.** `CompleteMeansShown`: a page without NEWS_COVERAGE_INCOMPLETE has all
  articles up to the slot its window ends in. `CatchUpReachesTheWindow`,
  `WatermarkNeverMovesBack`.
* **Keywords.** `CoveredMeansReadable`: in a slot that counts as covered for a market,
  every dated article that was listed and due when the query began can be read, on
  whatever page it was and however the listing moved. `SlotsEnd` (liveness).
* **Pipeline.** `ContextIsTrue`: after any interruption the counters of the checkpoint
  are those of the rows. `NothingPaidTwice`, `AnswersAreKept`: no committed answer is
  asked for again and no sibling of a failure is lost. `OnePagePerJob`. `AttemptsEnd`
  (liveness): also the rerun with fallbacks.
* **Clusters.** `PageIsTheClustering`: the page of a job that was not overtaken shows
  one clustering of the articles there are, with themes, groups, cards and duplicate
  counts of exactly those, whatever earlier runs left behind.
  `OnlyOvertakenAreRefused`. `GroupsAreTight`: groups are complete links and maximal.
* **Indices.** `PricesAreFinal`: no price of a session that still trades is stored as a
  close. `ReadyPagesAreCurrent`, `NotesTellTheOldest`.
* **LLM.** `SlotsPerWindow`, `TokensPerWindow`: no window grants more than its limit,
  retries and cancelled calls included; it speaks of reservations, and what the client
  library sends again on its own is not reserved. `RejectionsBounded`: what a wrong key can cost.
  `EveryCallEnds` (liveness).
* **AI retry.** `EffectiveNeverRegresses`, `LatestPageKeepsRecoveries`,
  `NoWastedCalls`, `SuccessIsTrue`, `EveryRetryEnds` (liveness).

**Bounds.** Two workers are enough for every conflict over a row. A lease of one in a
clock of three lets it expire, the job be claimed again and the new lease expire while
the first worker still runs; two attempts give both outcomes of a release, one replay
lets a widened budget be used again. The scheduler's lease of
two with delays of two and three has one delay a drain outwaits and one it does not;
two jobs are the one it works on and the one that is asked for meanwhile. Five requests
are every pair that meets at the unique indexes or at the version lock, but for a key
used for two kinds of job, which only the theorem covers; two interruptions let a retry
forget its page. Three slots give a window a slot before, at and
behind its edge; a lookback shorter than the clock makes the cap bite. Page size 1
makes every insertion move an article over a page boundary, and a cap after two pages
is reached. Two attempts of the pipeline are one interruption at any point and its
resumption; one target of every kind, and two in the step whose calls overlap. Four
articles make a chain of similarity that is not transitive, overflow the clustering
limit of three and change clusters between two runs. Three sessions give an index a
session before, at and behind the expected one. Four calls exceed the requests, the
tokens and the concurrency of a window. Every bound is a CONSTANT of its module or in
its `MC` module; the theorems of 5 have none.

**Fairness** is stated only where there are liveness properties, and no failure is ever
forced. `BatchScheduler`: the event loop runs every ready task and callback, handlers
end, time passes, a container that went down is started again; nobody has to send a
request, and `QueuedJobsEnd` names the repeated requests where it relies on them.
`DailyPages`: the drain goes on; a handler may stop anywhere. `KeywordCollection`: some worker goes on while work is queued, and the
lease of a dead worker runs out; interruptions are bounded by the attempts. The same
holds for `AiRetry` and `MarketDaily`, where calls are answered in bounded time
(`wait_for`) and the heartbeat ends an attempt that lost its lease. `LlmClient`: ready
coroutines run, time passes, every request is answered or times out. Deadlock is
checked in the queue, where a worker can always look for work, and in the scheduler,
where a request can always come; the others may stop
when all is done or at the end of the clock, and their configurations say so.

## 4. Where the code differs from what it says

Two are shown by a run that ends with a counterexample:

* `news_missing`. Coverage is judged up to the last completed slot, the watermark of
  the next page is the moment the job started (`dedupe_articles.py:128`,
  `market_context_repo.py:100`). Articles published in between are collected later, lie
  before every later window and are in no page, and both pages report complete
  coverage; `prepare_market_contexts.py:112` says the contrary.
* `market_stalled`. `DurableTargetProgress.load` takes the lease token from the row, not
  from the claim (`target_progress.py:64`): an attempt that loses its lease between
  `begin_step` and this read adopts its successor's token and writes targets and
  checkpoint under it. `docs/postgresql_ddl_design.md:229` says the token fences every
  checkpoint. With `StaleLoads = TRUE` also `ContextIsTrue` and `NothingPaidTwice` fail,
  and with a third attempt `OnePagePerJob`: the checkpoint that the stalled attempt
  saves no longer has BUILD_PAGE_SNAPSHOT in it. The passing run and the theorems
  exclude this step.

Observations without a run:

*Queue, scheduler, API.*
* The AI retry saves its checkpoint without `llmRetryCount` (`orchestrator.py:508`), so
  the limit of README.md:79 does not hold for it; `LlmWideningBounded` is what does.
* README.md:80 calls the LLM retries "also capped by" the worker's attempts; the
  reschedule widens `max_attempts`, on purpose (docstring of `release_failed_claim`).
* `run_until_idle` waits for one lease (120 s by default), also for a job whose delay is
  longer (`worker.py:167`): delays after a provider failure grow to 300 s and jitter, a
  Retry-After has no bound. Such a job waits for the next request or a start with
  recovery, which is off by default and on in `Dockerfile:7` and `.env.example:29`.
* A news request commits the job of the latest slot before its catch-up, which may
  raise (`service.py:115`): `router.py:139` is not reached, and the PENDING job waits for
  another request's drain.
* `shutdown()` says "Cancel and await active drains" (`background.py:57`) and cancels
  once. A CancelledError that arrives while the drain awaits its heartbeat or what is
  left of a dispatch is suppressed (`worker.py:378`, `:388`, `:391`), and the drain
  claims further jobs while `shutdown()` waits for it.
* A replayed retry-ai request starts no drain (`router.py:248`), a replayed start does.
* A replay of a failed keyed start skips the page check (`service.py:314`, `:327`), and a
  page committed between check and insert lets a start without `force` in.
* A replay that omits `businessDate` after midnight KST gets IDEMPOTENCY_KEY_REUSED.
* A cancelled dispatch leaves its step run RUNNING until the next recovery.

*News.*
* A slot whose collection FAILED keeps its row: nothing collects it again.
* README.md:96 says articles are filtered to the slot; they are filtered to the query
  window, overlap included, which is what makes the overlap useful.
* With several processes a collection can commit between the two reads of
  DEDUPE_ARTICLES (`OneRunner = FALSE`), and `CompleteMeansShown` fails; and a worker
  that lost its lease can write a failed diagnostic over a complete one after the slot
  ended, so that a SUCCESS slot counts as uncovered.
* An article the provider takes down between two pages makes another slip past.
* The counts of a collection are those of its last attempt; a keyword deactivated
  between attempts leaves its diagnostic behind; undated articles are dropped although
  the keyword counts as complete.
* The watermark also moves with a job that fails after DEDUPE_ARTICLES.

*Pipeline and clusters.*
* The headline makes two calls; a retryable failure of the second repays the first.
* A copy of a stored story that is collected later under another URL becomes a second
  row (`dedupe_articles.py:210`), and the page shows the story twice.
* Job A fails, B of the same date fails, A is replayed: an article can be in two
  clusters, and every replay of A is refused ("article grouping membership is
  duplicated"), or A's page mixes B's clusters with A's themes and cards. A new start
  repairs it. Both properties about pages exempt such jobs (`stale`).
* Between the commits of BUILD_CLUSTERS and GROUP_SIMILAR_ARTICLES a cluster has no
  groups, and the detail of a cluster shown by a published page answers 500
  (`domains/clusters/assembler.py`), where
  `docs/superpowers/plans/2026-08-13-b4-article-similarity-groups.md:303` says an
  unavailable grouping is shown as singletons. The upsert in place also makes older
  pages' details show newer clusters, and deleting a cluster deletes the summaries of
  earlier jobs. Singletons written after a failure count as current for ever.

*Indices.*
* A collects fresh rows and fails, B overwrites them with stale ones and fails, A is
  replayed: its READY page has stale indices (README.md:104; `overtaken`). A forced
  rerun may overwrite a good reading with an older one.

*LLM.*
* The request slot is taken before the wait for tokens, so sends may exceed the limit
  of a minute although slots do not (`llm.py:631`, README.md:74).
* The circuit is described as a single probe (`llm.py:388-392`); every waiting call
  passes until the first is rejected, hence the bound with `Concurrency`.
* A prompt larger than the window takes a slot before it is refused.

*AI retry and pages.*
* A resumed attempt that finds a page in its checkpoint builds no other, whatever it
  recovered itself (`orchestrator.py:199`): everything is recovered and no page says
  so, against `docs/ai_summary_retry.md:41`.
* A retry interrupted twice after its page was committed publishes it again.
* Two retries of one job in two processes, which no index forbids
  (`OneRunner = FALSE`): the later page lacks what the other recovered.
* A headline with a key-point issue counts as successful and can hide a resolved one of
  an older attempt (`resolver.py:45`).
* A retry or rebuild of an older job publishes older content as the latest version; a
  retry builds READY although theme fallbacks remain; a rebuild of a page that is
  PARTIAL for fallbacks only ends SUCCESS.
* `/pages/daily/latest` reads the header and the versions in two statements; a version
  committed in between makes one response contradict itself.

## 5. Proofs

All theorems hold for every value of the constants that satisfies the module's
assumption, unless a hypothesis is named. 54 are listed in `PROJECT.json`. Together they
state every safety invariant and every action property of the passing runs, and the
refinement `ImplementsLifecycle`. In each module the order is the same: types first,
then the inductive invariant with one lemma per action, then the properties it implies.

**JobQueueProofs**: `TypeCorrect`, `OwnershipInvariant`, `OneHolderInvariant`,
`ZombiesAreInert`, `LiveLeasesAreNotStolen`, `OnlyHoldersRenew`, `HoldersRunIsOpen`,
`NoJobIsStranded`, `GenuineBudgetIsKept`, `SettledJobsAreFinal`. `OneHolder` is not
inductive: it says nothing of a token that a dead claim still shows, nor of tokens yet
to be issued. `Ownership` adds that every token shown has been issued, that a row has a
token exactly while it runs and a worker exactly while it has a claim, that no two
claims share one, and that a row and a claim that share one mean the same job. Only
`Claim` brings in a token, and that one is new. `HolderRunOpen` is inductive next to
it; `NoStrandedJob` and `GenuineBudgetKept` are arithmetic and need a fact about rows
that are not queued yet (`Attemptable`, `BudgetRow`).

`LlmWideningIsBounded` is in the same module: a release acts on the count the
worker read at its claim, so the invariant `Widening` is stated row by row and carries
the counts of the claims that hold; for an AI retry, whose checkpoints forget the
count, it relates the count to the genuine failures of the row. From it
`QueueImplementsLifecycle`: every step of the queue is a step or a stutter of
`JobLifecycle`, with the budget of a grant as the abstract bound.

**EventLoopProofs**, the scheduler, with no assumption on the settings: `TypeCorrect`,
`ShutdownEndsAllOthers`, `NoJobIsForgotten`. For the shutdown it is enough to know where
a drain unwinds (`DrainInv`). The invariant behind the third, `WaitInv`, says that a
drain that waits outwaits every timer that is not excused by the job's delay
(`Outwaits`, `TimersBounded`, `LongTimers`), so one that gives up leaves only what was
asked for after it looked (`DueWasAskedFor`), and that a job is excused only for what
has happened to it (`LeftForAReason`); then somebody comes for every job that is not
excused (`Noticed`).

The LLM client: `LlmTypeCorrect`, `SlotsBounded`, `TokensBounded`,
`RejectionsAreBounded`, `FitIsTheMost`. The deque of the request limiter, pruned, is the
history of the window (`SlotsInv`): entries are in order of age, so the next grant is
made when at most `Rpm - 1` are left. Tokens are harder, because a report of usage
changes a reservation after it was granted and another request of the same call
replaces it. `TokensInv` says, call by call, that the reservation in the deque and the
history have the same age and leave the window together (`ReservationInv`), that
`_reserved_tokens` is the sum over the deque (`ReservedInv`), which is why it never
becomes negative, and that what the window holds, each call counted with no more than
its estimate, is at most `Tpm`. `CircuitInv` counts: the rejections stay below the
threshold while the circuit is closed; once it is open only calls in flight can add to
them, each once, and there are at most `Concurrency` of those. `FitIsTheMost`: the
binary search keeps the largest number of articles that fits (`IsLargestFit`), for any
estimates of the articles.

**ArticleProofs**, the keywords: `TypeCorrect`, `Inductive`, `CoveredIsReadable`. The heart
is `NothingPassed`: what is due was found, or stands at or behind the offset of the
next page. A growing listing only moves articles back (`PositionsGrow`), an article
newer than another stands before it (`NewerStandsBefore`), and a page shorter than
asked for is the last (`ShortPageIsTheLast`, by counting positions). So whichever of
the two good grounds ends the paging, nothing due is behind it (`NothingDueBehind`).
The rest carries it from the query to the rows, the diagnostics and the end of the slot.

The clusters: `ClusterTypesCorrect`, `SimilarGroupsAreTight`,
`OnlyTheOvertakenAreRefused`, `PageIsOneClustering`. First the operators: a strict order
sorts a finite set without gaps (`StrictOrder`, `InOrderLists`); either first fit keeps
a partition of what it has seen (`SeedGroupsAreSeeds`, `SimilarGroupsAreLinks`) in
which every member suits the first one, or all of its group; ranking only reorders
(`RankClustersRanks`), so the selected clusters are disjoint, in order of size, and
together everything unless the cap bites (`SelectedClusters`). Then the tables:
deduplication leaves earlier rows in place and one row for each article it keeps
(`RowsAfterDedupe`), cluster ids are unique and never used again
(`TableInv`). The inductive invariant `DCInv` adds what the tables hold of a job that
nobody has overtaken (`FreshInv`): the ranks it has written so far carry exactly the
articles of the selected cluster, and themes, groups, duplicate counts and cards that
are present for them were made of those articles, never of what an earlier run left
under the same rank or id (`OwnRow`); each step that is over has done all of them
(`FreshAt`). An action of another job makes the first one overtaken, or touches none of
its ranks. At BUILD_PAGE_SNAPSHOT the checks and the page follow.

**DailyPagesProofs**: `DailyInvariant`, `TypeCorrect`, `OneDailyJobAtATime`,
`AcceptedRequestsShareAJob`, `BuildsNeverCollide`. The rows keep what the two unique
indexes promise (`KeysAreUnique`, `DailyIsAlone`); a handler between its statements names
only jobs of its own request (`HandlersFit`), so the look-up that follows a refused
insert finds what it should. A version that was read stays the next one because its
reader holds the advisory lock until the page is in or the run is over (`LockIsHeld`,
`VersionIsNext`, `VersionsGrow`).

**MarketDailyProofs**: `TypeCorrect` for any attempts, and under `~StaleLoads`
`FenceInvariant`, `ContextCorrect`, `CommittedTargetsAreNotCalled`, `PageBuiltOnce`,
`SiblingsAreKept`. The hypothesis is needed: with stale loads TLC finds all but the last
violated (see 4). `FenceInv` says that an attempt loaded the progress under its own
token, that the holder's copies are what is committed plus what it is about to save
(`HolderUpToDate`), and that what is committed agrees with itself: a target is in the
checkpoint exactly if its row is stored, a step that is done has all its targets, a
page is there only if its step is done, the counters are those of the rows
(`Committed`).

**AiRetryProofs**: `TypeCorrect` for any number of retries at once, and under
`OneRunner` (one process drains the queue) `RetryInvariant`,
`ResolvedTargetsAreNotCalled`, `SuccessStaysTrue`, `RetriesNeverSpoil`,
`RecoveriesStayShown`. Without the hypothesis TLC finds every one of them violated.
`RetryInv` says that a running attempt has seen the rows as they are, that what it asks
for is unresolved, and that the latest page shows nothing that the rows do not resolve.
What a target shows is a maximum over its attempts (`MaximalElement`); a retry only
adds rows, and a maximum over more rows is no worse.

**NewsCoverageProofs**: `TypeCorrect`, `CatchUpIsEnough`, `WatermarkIsMonotone`, and
under `OneRunner` `CoverageInvariant`, `CompletePagesMissNothing`; without it a collection
can commit between the two reads, and the last fails. A window is complete only in a
judged context (`StageInv`), which never changes again, so complete ends stay and their
maximum grows. A window starts at most one lookback before it ends, which is the horizon
of the catch-up; a slot leaves the horizon only when the latest slot end moves, which
takes a completed slot (`NextRemainder`). What the diagnostics call complete is persisted
(`CompleteIsRaw`), and a job between its reads has what was persisted when it read
(`ReadIsWindow`), which one runner keeps equal to what is persisted when it judges. Up
to the slot in which the window ends every article then was read (`RoundingDown`).

**MarketIndicesProofs**: `TypeCorrect`, `StoredPricesAreFinal`, `PageInvariant`,
`ReadyMeansCurrent`, `NotesAreOfTheOldest`. Every context expects a session that has
settled when it is made, also one taken over from an earlier context (`ContextInv`);
what is downloaded for it is not later, so any answer of the provider that is accepted
is final (`ReadingIsGood`). From its collection on, and until another job has written a
row, the rows of the date are those the job has collected (`CollectedRows`).

What the assumptions of these modules add to what TLC needs: the sets of requests, retry
jobs, calls, articles, tickers and targets are finite (the runs have finite ones, the
code's are rows of a table or of a dictionary), raw articles are numbered in the order
of their publication (`DailyClusters`, where times are distinct), a market has a ticker
(`MARKET_INDEX_TICKERS`), the first window is no longer than a day and no longer than
the lookback (`prepare_market_contexts.py`, settings), and the clock starts before it
stops.

Functions defined by recursion (the folds of the first fits, the sum over a set, the
binary search) are reasoned about without an induction rule, which the provers cannot
instantiate: a property that fails for some number or finite set fails for a smallest
one (`LeastNumber`, `SmallestSubset`, from the well-foundedness of the naturals), and
there one step of the recursion contradicts it.

Only model-checked: the liveness properties `QueuedJobsEnd`, `AcceptedJobsEnd`,
`SlotsEnd`, `AttemptsEnd`, `EveryCallEnds` and `EveryRetryEnds`. Liveness under fairness
and ENABLED are beyond the prover. The two properties that 4 shows violated have no
theorem, of course.

## 6. Not modelled

* Providers (HTTP, parsing), text handling, prompts and their validation, similarity
  scores, exchange calendars: their outcomes are choices of the models.
* Read APIs: queries and response assembly, nothing changes state; two of their races
  are described in 4.
* Migrations at startup: an advisory lock with a timeout around Alembic's own
  transactions; the lock belongs to the session and falls with it.
* `steps/collect_news.py`: no orchestrator runs it.
* Authentication, settings (the CONSTANTS of the modules), logging; scripts,
  evaluation and tests.

Two processes are modelled where the code claims to be safe with them; the documented
deployment is one.

## 7. Plan

Every part that changes state while the service runs is modelled. What is left:

1. A refinement of the drain: `BatchScheduler`'s rows as an abstraction of `JobQueue`.
2. Startup: several processes before the migration lock, crashes between migrations.
