---------------------------- MODULE NewsCoverage ----------------------------
(***************************************************************************)
(* News collection in half-hour slots and the news windows of the daily    *)
(* pages (app/domains/batches/service.py, orchestrators/news_collection.py,*)
(* steps/prepare_market_contexts.py, the coverage part of                  *)
(* steps/dedupe_articles.py): which articles a page is built from, when    *)
(* its coverage counts as complete, and where the next window begins.      *)
(*                                                                         *)
(* Time is counted in ticks; article t is the one published in tick t, and *)
(* the slot that ends at e holds the ticks e - SlotLength .. e - 1.        *)
(*                                                                         *)
(* An operator Name_Variant is a wrong version of Name, kept to show that  *)
(* the properties below notice it; nothing here uses it.                   *)
(***************************************************************************)
EXTENDS Integers, Sequences, FiniteSets, FiniteSetsExt

CONSTANTS
  Markets,       \* US and KR
  SlotLength,    \* NEWS_COLLECTION_SLOT_MINUTES
  Overlap,       \* naver_news_collection_overlap_minutes
  MaxLookback,   \* news_window_max_lookback_hours
  FirstWindow,   \* the 24 hours of a window without a watermark
  CatchupMax,    \* naver_news_collection_catchup_max_slots
  Backfill,      \* naver_news_collection_backfill_max_days
  Day,           \* ticks of a KST day
  OneRunner,     \* one worker drains the queue: no two jobs run at once
  Start, MaxNow, \* bound: the clock readings
  MaxBatches     \* bound: market-daily jobs

ASSUME NewsCoverageAssumption ==
  /\ {Overlap, CatchupMax} \subseteq Nat
  /\ {SlotLength, MaxLookback, FirstWindow, Backfill, Day, Start, MaxNow}
       \subseteq Nat \ {0}
  /\ Overlap < SlotLength
  /\ FirstWindow <= MaxLookback /\ MaxLookback <= Start /\ Start <= MaxNow
  /\ FirstWindow <= Day
  /\ OneRunner \in BOOLEAN
  /\ MaxBatches \in Nat

Ticks == 0 .. MaxNow - 1
SlotEnds == {e \in 1 .. MaxNow : e % SlotLength = 0}
Slot(e) == e - SlotLength .. e - 1

VARIABLES
  now,
  job,       \* status of the collection job of each slot, "none" if never asked for
  keywords,  \* keywords[e][m]: what the diagnostics of market m add up to
  raw,       \* raw[m]: the articles of market m in news_article_raw
  contexts,  \* batch_job_market_context of the market-daily jobs, in order of creation
  reading,   \* the job between its two reads in DEDUPE_ARTICLES, 0 if none
  read,      \* read[m]: the articles it has read
  shown,     \* history: the articles some page of market m was built from
  caughtUp   \* history: the last scheduled request asked for every missed slot and
             \* no slot has been completed since

vars == <<now, job, keywords, raw, contexts, reading, read, shown, caughtUp>>

Stages == {"prepared", "reading", "judged"}
Windows == [start : Int, end : Nat, complete : BOOLEAN]

TypeOK ==
  /\ now \in Start .. MaxNow
  /\ job \in [SlotEnds -> {"none", "PENDING", "SUCCESS", "PARTIAL", "FAILED"}]
  /\ keywords \in [SlotEnds -> [Markets -> {"none", "complete", "incomplete"}]]
  /\ raw \in [Markets -> SUBSET Ticks]
  /\ contexts \in Seq([date : Nat, stage : Stages, window : [Markets -> Windows]])
  /\ reading \in 0 .. Len(contexts)
  /\ {read, shown} \subseteq [Markets -> SUBSET Ticks]
  /\ caughtUp \in BOOLEAN
  /\ \A i \in 1 .. Len(contexts) : \A m \in Markets :
       LET w == contexts[i].window[m] IN 0 <= w.start /\ w.start <= w.end /\ w.end <= now

Init ==
  /\ now = Start
  /\ job = [e \in SlotEnds |-> "none"]
  /\ keywords = [e \in SlotEnds |-> [m \in Markets |-> "none"]]
  /\ raw = [m \in Markets |-> {}]
  /\ contexts = <<>>
  /\ reading = 0
  /\ read = [m \in Markets |-> {}]
  /\ shown = [m \in Markets |-> {}]
  /\ caughtUp = FALSE
-----------------------------------------------------------------------------
(***************************************************************************)
(* Requests for slots.                                                     *)
(***************************************************************************)
\* resolve_completed_news_slot: the end of the newest slot that has finished.
LatestEnd == now - (now % SlotLength)

\* One job per slot: a slot that was asked for before keeps its job.
Ask(ends) ==
  job' = [e \in SlotEnds |-> IF e \in ends /\ job[e] = "none" THEN "PENDING" ELSE job[e]]

MissedEnds_ShortHorizon ==
  {e \in SlotEnds : /\ e < LatestEnd
                    /\ e > LatestEnd - MaxLookback + SlotLength
                    /\ job[e] = "none"}

\* Completed slots of the horizon nobody asked for.
MissedEnds ==
  {e \in SlotEnds : e < LatestEnd /\ e > LatestEnd - MaxLookback /\ job[e] = "none"}

\* The newest of them, at most CatchupMax.
Chased == {e \in MissedEnds : Cardinality({d \in MissedEnds : d >= e}) <= CatchupMax}

\* The scheduled request: the latest slot, then the chased ones, oldest first,
\* each in a transaction of its own; the request may end early.
RequestLatest ==
  \E done \in SUBSET Chased :
    /\ \A e \in done, d \in Chased : d < e => d \in done
    /\ Ask({LatestEnd} \cup done)
    /\ caughtUp' = (done = MissedEnds)
    /\ UNCHANGED <<now, keywords, raw, contexts, reading, read, shown>>

\* A request for one slot; any other slot is answered with 409.
RequestSlot(e) ==
  /\ LatestEnd - Backfill <= e /\ e <= LatestEnd
  /\ Ask({e})
  /\ UNCHANGED <<now, keywords, raw, contexts, reading, read, shown, caughtUp>>
-----------------------------------------------------------------------------
(***************************************************************************)
(* The collection of a slot.                                               *)
(***************************************************************************)
MayCollect(e) == job[e] = "PENDING" /\ (OneRunner => reading = 0)

\* What the query of a slot persists: the overlap before the slot as well.
QueryTicks(e) == {t \in Ticks : e - SlotLength - Overlap <= t /\ t < e}

\* The articles of a market whose keywords were covered are all persisted; of a
\* market that was not, some are.
Persist(e, covered) ==
  \E uncovered \in {{}, QueryTicks(e)} :
    raw' = [m \in Markets |-> raw[m] \cup
              IF m \in covered THEN QueryTicks(e) ELSE uncovered]

Outcome(covered, authFailed) ==
  IF authFailed THEN "FAILED"
  ELSE IF covered = Markets THEN "SUCCESS" ELSE "PARTIAL"

\* Every keyword got its diagnostic.  A keyword fails or reaches the pagination
\* cap; a rejected credential also fails the job.
Collect(e) ==
  /\ MayCollect(e)
  /\ \E covered \in SUBSET Markets, authFailed \in BOOLEAN :
       /\ authFailed => covered # Markets
       /\ job' = [job EXCEPT ![e] = Outcome(covered, authFailed)]
       /\ keywords' = [keywords EXCEPT ![e] =
            [m \in Markets |-> IF m \in covered THEN "complete" ELSE "incomplete"]]
       /\ Persist(e, covered)
  /\ UNCHANGED <<now, contexts, reading, read, shown, caughtUp>>

\* Nothing is configured, or the attempt is cut short after the keywords of some
\* markets: HTTP 429 or 5xx, a lost lease, a crash.  The queue runs the job
\* again or gives up.
CollectionStops(e) ==
  /\ MayCollect(e)
  /\ \E covered \in SUBSET Markets :
       /\ keywords' = [keywords EXCEPT ![e] =
            [m \in Markets |-> IF m \in covered THEN "complete" ELSE @[m]]]
       /\ Persist(e, covered)
  /\ \E status \in {"PENDING", "FAILED"} : job' = [job EXCEPT ![e] = status]
  /\ UNCHANGED <<now, contexts, reading, read, shown, caughtUp>>
-----------------------------------------------------------------------------
(***************************************************************************)
(* PREPARE_MARKET_CONTEXTS of a market-daily job.                          *)
(***************************************************************************)
Today == now \div Day

\* _cutoff_for_business_date: now, or the midnight after a past date.
Cutoff(date) == IF date >= Today THEN now ELSE (date + 1) * Day

CompleteEnds(m, asOf) ==
  {contexts[i].window[m].end :
     i \in {k \in 1 .. Len(contexts) : /\ contexts[k].window[m].complete
                                       /\ contexts[k].window[m].end <= asOf}}

Watermark_NewestJob(m, asOf) ==
  LET newest == Max({k \in 1 .. Len(contexts) : contexts[k].window[m].complete})
  IN  contexts[newest].window[m].end

\* get_latest_complete_coverage_end.
Watermark(m, asOf) == Max(CompleteEnds(m, asOf))

NewWindow(m, asOf) ==
  [start |-> IF CompleteEnds(m, asOf) = {} THEN asOf - FirstWindow
             ELSE Max({Watermark(m, asOf), asOf - MaxLookback}),
   end |-> asOf,
   complete |-> FALSE]

OfDate(date) == {i \in 1 .. Len(contexts) : contexts[i].date = date}

\* A forced run or a rebuild takes over the window of the date's last job.
Template(date) ==
  [m \in Markets |-> [contexts[Max(OfDate(date))].window[m] EXCEPT !.complete = FALSE]]

Prepare(date, force) ==
  /\ Len(contexts) < MaxBatches
  /\ OneRunner => reading = 0
  /\ contexts' = Append(contexts,
       [date |-> date,
        stage |-> "prepared",
        window |-> IF force /\ OfDate(date) # {} THEN Template(date)
                   ELSE [m \in Markets |-> NewWindow(m, Cutoff(date))]])
  /\ UNCHANGED <<now, job, keywords, raw, reading, read, shown, caughtUp>>
-----------------------------------------------------------------------------
(***************************************************************************)
(* DEDUPE_ARTICLES of a market-daily job.                                  *)
(***************************************************************************)
InWindow(w, t) == w.start <= t /\ t < w.end

\* list_articles_by_window.
ReadArticles(i) ==
  /\ contexts[i].stage = "prepared"
  /\ reading = 0
  /\ reading' = i
  /\ contexts' = [contexts EXCEPT ![i].stage = "reading"]
  /\ read' = [m \in Markets |->
                {t \in raw[m] : InWindow(contexts[i].window[m], t)}]
  /\ UNCHANGED <<now, job, keywords, raw, shown, caughtUp>>

\* list_complete_intervals.
CompleteSlots(m) ==
  {e \in SlotEnds : job[e] \in {"SUCCESS", "PARTIAL"} /\ keywords[e][m] = "complete"}

\* collectable_window_end.
Deadline(w) == IF w.end < LatestEnd THEN w.end ELSE LatestEnd

CoverageComplete_EndsOnly(m, w) ==
  \/ w.start >= Deadline(w)
  \/ \E d, e \in CompleteSlots(m) : d - SlotLength <= w.start /\ Deadline(w) <= e

\* intervals_cover_window.
CoverageComplete(m, w) ==
  \A t \in Ticks :
    w.start <= t /\ t < Deadline(w) => \E e \in CompleteSlots(m) : t \in Slot(e)

Judged(w, m) == [w EXCEPT !.complete = CoverageComplete(m, w)]

\* The step ends, in the transaction it has read in, with stage "judged"; or it
\* fails, is rolled back and runs again.
EndReading(stage) ==
  /\ reading # 0
  /\ reading' = 0
  /\ read' = [m \in Markets |-> {}]
  /\ contexts' = [contexts EXCEPT
       ![reading].stage = stage,
       ![reading].window = IF stage = "judged" THEN [m \in Markets |-> Judged(@[m], m)]
                           ELSE @]
  /\ shown' = [m \in Markets |-> shown[m] \cup IF stage = "judged" THEN read[m] ELSE {}]
  /\ UNCHANGED <<now, job, keywords, raw, caughtUp>>

\* The coverage is read after the articles.
JudgeCoverage == EndReading("judged")
DedupeFails == EndReading("prepared")

Tick ==
  /\ now < MaxNow
  /\ now' = now + 1
  /\ caughtUp' = (caughtUp /\ (now + 1) % SlotLength # 0)
  /\ UNCHANGED <<job, keywords, raw, contexts, reading, read, shown>>

Next ==
  \/ RequestLatest
  \/ \E e \in SlotEnds : RequestSlot(e) \/ Collect(e) \/ CollectionStops(e)
  \/ \E date \in 0 .. Today, force \in BOOLEAN : Prepare(date, force)
  \/ \E i \in 1 .. Len(contexts) : ReadArticles(i)
  \/ JudgeCoverage \/ DedupeFails
  \/ Tick

Spec == Init /\ [][Next]_vars
-----------------------------------------------------------------------------
SlotStart(t) == t - (t % SlotLength)

\* A page that reports no NEWS_COVERAGE_INCOMPLETE is built from every article of
\* its window up to the slot in which the window ends (DedupeArticlesStep).
CompleteMeansShown ==
  \A i \in 1 .. Len(contexts), m \in Markets :
    LET w == contexts[i].window[m] IN
    w.complete => w.start .. SlotStart(w.end) - 1 \subseteq shown[m]

\* The horizon of the catch-up reaches the window a page would be built from
\* now: after a scheduled request that got through, no slot of that window is
\* left that nobody asked for.
CatchUpReachesTheWindow ==
  caughtUp =>
    \A m \in Markets, e \in SlotEnds :
      e <= LatestEnd /\ (\E t \in Slot(e) : InWindow(NewWindow(m, now), t))
        => job[e] # "none"

\* The watermark never moves back, not even when a page of a past date becomes
\* complete later than the page of today.
WatermarkNeverMovesBack ==
  [][\A m \in Markets :
       CompleteEnds(m, now) # {} => Watermark(m, now) <= Watermark(m, now)']_vars
-----------------------------------------------------------------------------
(***************************************************************************)
(* What the comments say and the code does not do.                         *)
(***************************************************************************)
\* prepare_market_contexts.py:112-115: whether news is missing from the window is
\* decided by NEWS_COVERAGE_INCOMPLETE.  So when two complete windows join, and the
\* second reaches past the slot in which they do, no article of the first is
\* missing from the pages.
DocCompleteWindowsMissNothing ==
  \A i, k \in 1 .. Len(contexts), m \in Markets :
    LET v == contexts[i].window[m]
        w == contexts[k].window[m]
    IN
    /\ v.complete /\ w.complete
    /\ w.start = v.end /\ v.end < SlotStart(w.end)
    => v.start .. v.end - 1 \subseteq shown[m]
=============================================================================
