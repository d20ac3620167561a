---------------------------- MODULE MarketIndices ----------------------------
(***************************************************************************)
(* The index prices of one market for one business date: the session a job *)
(* expects, what the provider answers for it, the rows the jobs of the     *)
(* date write over each other, and what their pages say of them            *)
(* (app/batch/policies/market_session_policy.py,                           *)
(* app/batch/providers/market_index_provider.py,                           *)
(* app/batch/steps/collect_market_indices.py).                             *)
(*                                                                         *)
(* A job is its three steps that concern indices; between them the clock   *)
(* goes on and jobs fail and are queued again.  Each session has three     *)
(* instants, open, closed and settled: the data grace period has elapsed   *)
(* at the third, when the provider no longer changes the price.            *)
(***************************************************************************)
EXTENDS Integers, Sequences, FiniteSets, SequencesExt, FiniteSetsExt

CONSTANTS
  Indices,     \* the tickers of the market
  Jobs,
  EndOfDate,   \* the instant of the midnight after the business date
  LastInstant, \* bound: the clock stops
  Lookback,    \* sessions before the expected one that a download covers
  MaxReplays   \* bound: failed jobs queued again

ASSUME MarketIndicesAssumption ==
  /\ Indices \subseteq Nat /\ IsFiniteSet(Indices)
  /\ Jobs \subseteq Nat \ {0}
  /\ {EndOfDate, LastInstant, Lookback, MaxReplays} \subseteq Nat
  /\ Indices # {}
  /\ 2 <= EndOfDate /\ 2 <= LastInstant

Opens(d) == 3 * d
Closes(d) == 3 * d + 1
Grace == 1                      \* market_session_data_grace_minutes
Sessions == 0 .. LastInstant \div 3

VARIABLES
  now,       \* the clock
  rows,      \* market_index_daily of the date, by index
  contexts,  \* batch_job_market_context, in creation order
  job,       \* batch_job
  fetched,   \* what the running attempt of a job has of the provider
  page,      \* market_daily_page with its market, by job
  overtaken, \* jobs that another job has written over since they collected
  replays    \* failed jobs queued again so far

vars == <<now, rows, contexts, job, fetched, page, overtaken, replays>>

Statuses == {"ABSENT", "ACTIVE", "FAILED", "SUCCESS", "PARTIAL"}
Steps == <<"PREPARE_MARKET_CONTEXTS", "COLLECT_MARKET_INDICES", "BUILD_PAGE_SNAPSHOT",
           "FINALIZE_JOB">>
NoDate == -1

\* The price of session d read at instant t.
Price(d, t) == [day |-> d, final |-> t >= Closes(d) + Grace]
Prices == [day : Sessions, final : BOOLEAN]
Reading == [source : Sessions, close : Prices, previous : Prices]
NoPrice == [day |-> NoDate, final |-> FALSE]
Failed == [source |-> NoDate, close |-> NoPrice, previous |-> NoPrice]

TypeOK ==
  /\ now \in 2 .. LastInstant
  /\ DOMAIN rows \subseteq Indices
  /\ \A i \in DOMAIN rows : rows[i].reading \in Reading /\ rows[i].expected \in Sessions
  /\ \A c \in ToSet(contexts) :
       c.job \in Jobs /\ c.expected \in Sessions /\ c.actual \in Sessions \cup {NoDate}
  /\ \A j \in Jobs :
       /\ job[j].status \in Statuses /\ job[j].step \in DOMAIN Steps
       /\ DOMAIN fetched[j] \subseteq Indices
       /\ \A i \in DOMAIN fetched[j] : fetched[j][i] \in Reading \cup {Failed}
       /\ job[j].collected \in 0 .. Cardinality(Indices)
  /\ DOMAIN page \subseteq Jobs
  /\ overtaken \subseteq Jobs
  /\ replays \in 0 .. MaxReplays

Init ==
  /\ now = 2
  /\ rows = <<>>
  /\ contexts = <<>>
  /\ job = [j \in Jobs |-> [status |-> "ABSENT", step |-> 1, force |-> FALSE, partial |-> FALSE,
                        collected |-> 0]]
  /\ fetched = [j \in Jobs |-> <<>>]
  /\ page = <<>>
  /\ overtaken = {}
  /\ replays = 0

IsActive(j) == job[j].status = "ACTIVE"
SomeActive == \E j \in Jobs : IsActive(j)
At(j, step) == IsActive(j) /\ Steps[job[j].step] = step
Advanced(j) == [job EXCEPT ![j].step = @ + 1]
ContextOf(j) == SelectInSeq(contexts, LAMBDA c : c.job = j)
Expected(j) == contexts[ContextOf(j)].expected

\* The function f with value v at x.
Put(f, x, v) == [y \in DOMAIN f \cup {x} |-> IF y = x THEN v ELSE f[y]]
-----------------------------------------------------------------------------
Tick ==
  /\ now < LastInstant
  /\ now' = now + 1
  /\ UNCHANGED <<rows, contexts, job, fetched, page, overtaken, replays>>

(***************************************************************************)
(* The jobs of the date: one is active at a time.                          *)
(***************************************************************************)
Start(j) ==
  /\ job[j].status = "ABSENT" /\ \A i \in Jobs : i < j => job[i].status # "ABSENT"
  /\ ~SomeActive
  /\ \E force \in BOOLEAN :
       /\ force \/ page = <<>>
       /\ job' = [job EXCEPT ![j].status = "ACTIVE", ![j].force = force]
  /\ UNCHANGED <<now, rows, contexts, fetched, page, overtaken, replays>>

\* What the attempt had not committed is gone.
Fail(j) ==
  /\ IsActive(j)
  /\ job' = [job EXCEPT ![j].status = "FAILED"]
  /\ fetched' = [fetched EXCEPT ![j] = <<>>]
  /\ UNCHANGED <<now, rows, contexts, page, overtaken, replays>>

Replay(j) ==
  /\ job[j].status = "FAILED" /\ ~SomeActive
  /\ replays < MaxReplays
  /\ replays' = replays + 1
  /\ job' = [job EXCEPT ![j].status = "ACTIVE"]
  /\ UNCHANGED <<now, rows, contexts, fetched, page, overtaken>>
-----------------------------------------------------------------------------
(***************************************************************************)
(* PREPARE_MARKET_CONTEXTS.                                                *)
(***************************************************************************)
LatestCompleted_NoGrace(asOf) == Max({d \in Sessions : Opens(d) <= asOf /\ Closes(d) <= asOf})
\* latest_completed_session: closed for the grace period.
LatestCompleted(asOf) == Max({d \in Sessions : Opens(d) <= asOf /\ Closes(d) + Grace <= asOf})

\* _cutoff_for_business_date
Cutoff == Min({now, EndOfDate})

\* A forced run takes the session of the date's last context.
ExpectedSession(j) ==
  IF job[j].force /\ contexts # <<>> THEN Last(contexts).expected ELSE LatestCompleted(Cutoff)

Prepare(j) ==
  /\ At(j, "PREPARE_MARKET_CONTEXTS")
  /\ contexts' = Append(contexts, [job |-> j, expected |-> ExpectedSession(j), actual |-> NoDate])
  /\ job' = Advanced(j)
  /\ UNCHANGED <<now, rows, fetched, page, overtaken, replays>>
-----------------------------------------------------------------------------
(***************************************************************************)
(* COLLECT_MARKET_INDICES: one ticker after the other.  An answer has the  *)
(* daily bars that were there, those with a finite close among them, the   *)
(* price a session opened with, and a quote of some session.               *)
(***************************************************************************)
Downloaded(target) == Max({0, target - Lookback}) .. target
Answers(target) ==
  [bars : SUBSET Downloaded(target), opens : BOOLEAN,
   quote : {NoDate} \cup {d \in Sessions : Opens(d) <= now}]

\* _reading_from_rows: the newest bar, compared with the one before or else with
\* its own opening price.
FromBars(answer) ==
  LET newest == Max(answer.bars)
      older == answer.bars \ {newest}
  IN  IF older = {} /\ ~answer.opens THEN Failed
      ELSE [source |-> newest, close |-> Price(newest, now),
            previous |-> Price(IF older = {} THEN newest ELSE Max(older), now)]

FromQuote(target, answer) ==
  [source |-> target, close |-> Price(answer.quote, now),
   previous |-> Price(Max(answer.bars), now)]

\* _read_target_session, after the answers that have no finite close.
ReadTarget(target, answer) ==
  IF answer.bars = {} THEN Failed
  ELSE IF target \in answer.bars \/ answer.quote # target THEN FromBars(answer)
  ELSE FromQuote(target, answer)

Readings(target) == {Failed} \cup {ReadTarget(target, answer) : answer \in Answers(target)}

\* Tickers in their order; one that raises is a failure like the others.
Fetch(j, i) ==
  /\ At(j, "COLLECT_MARKET_INDICES")
  /\ i \in Indices \ DOMAIN fetched[j]
  /\ \A k \in Indices : k < i => k \in DOMAIN fetched[j]
  /\ \E reading \in Readings(Expected(j)) :
       fetched' = [fetched EXCEPT ![j] = Put(@, i, reading)]
  /\ UNCHANGED <<now, rows, contexts, job, page, overtaken, replays>>

\* A source date after the expected session is rejected.
Accepted(j) == {i \in Indices : fetched[j][i] # Failed /\ fetched[j][i].source <= Expected(j)}

\* upsert_index: whatever the row held.
Upserted(j) ==
  [i \in DOMAIN rows \cup Accepted(j) |->
     IF i \in Accepted(j) THEN [reading |-> fetched[j][i], expected |-> Expected(j)]
     ELSE rows[i]]

IsPartial_IgnoresFailures(j) == \E i \in Accepted(j) : fetched[j][i].source < Expected(j)
\* INDEX_FETCH_FAILED, INDEX_FUTURE_SOURCE_DATE, INDEX_NONE_COLLECTED, INDEX_STALE_SOURCE_DATE
IsPartial(j) ==
  \/ Accepted(j) # Indices
  \/ \E i \in Accepted(j) : fetched[j][i].source < Expected(j)

ActualSource_Newest(j) ==
  IF Accepted(j) = {} THEN NoDate ELSE Max({fetched[j][i].source : i \in Accepted(j)})
\* set_actual_index_source_date
ActualSource(j) ==
  IF Accepted(j) = {} THEN NoDate ELSE Min({fetched[j][i].source : i \in Accepted(j)})

Collect(j) ==
  /\ At(j, "COLLECT_MARKET_INDICES")
  /\ DOMAIN fetched[j] = Indices
  /\ rows' = Upserted(j)
  /\ contexts' = [contexts EXCEPT ![ContextOf(j)].actual = ActualSource(j)]
  /\ job' = [Advanced(j) EXCEPT ![j].partial = IsPartial(j),
                                 ![j].collected = Cardinality(Accepted(j))]
  /\ fetched' = [fetched EXCEPT ![j] = <<>>]
  /\ overtaken' = (IF Accepted(j) = {} THEN overtaken ELSE Jobs) \ {j}
  /\ UNCHANGED <<now, page, replays>>
-----------------------------------------------------------------------------
(***************************************************************************)
(* BUILD_PAGE_SNAPSHOT and FINALIZE_JOB: the page shows every row of the   *)
(* date.  What else makes a page PARTIAL is in DailyClusters and           *)
(* NewsCoverage.                                                           *)
(***************************************************************************)
\* _market_partial_message: the dates of the context, if they differ.
Note(context) ==
  IF context.actual \in {NoDate, context.expected} THEN NoDate ELSE context.actual

BuildPage(j) ==
  LET context == contexts[ContextOf(j)] IN
  /\ At(j, "BUILD_PAGE_SNAPSHOT")
  /\ page' = Put(page, j, [status |-> IF job[j].partial THEN "PARTIAL" ELSE "READY",
                           expected |-> context.expected, note |-> Note(context),
                           rows |-> rows, overtaken |-> j \in overtaken])
  /\ job' = Advanced(j)
  /\ UNCHANGED <<now, rows, contexts, fetched, overtaken, replays>>

Finalize(j) ==
  /\ At(j, "FINALIZE_JOB")
  /\ job' = [job EXCEPT ![j].status = IF job[j].partial THEN "PARTIAL" ELSE "SUCCESS"]
  /\ UNCHANGED <<now, rows, contexts, fetched, page, overtaken, replays>>
-----------------------------------------------------------------------------
Next ==
  \/ Tick
  \/ \E j \in Jobs :
       \/ Start(j) \/ Fail(j) \/ Replay(j)
       \/ Prepare(j) \/ Collect(j) \/ BuildPage(j) \/ Finalize(j)
       \/ \E i \in Indices : Fetch(j, i)

Spec == Init /\ [][Next]_vars
-----------------------------------------------------------------------------
(***************************************************************************)
(* Properties.                                                             *)
(***************************************************************************)
\* No price of a session that still trades or has not settled is stored as a
\* daily close, at whatever instant a job was started, queued again or its
\* tickers were answered, and every close is that of the session it names.
\* The change is never against a later session.
PricesAreFinal ==
  \A i \in DOMAIN rows :
    LET reading == rows[i].reading IN
    /\ reading.close = [day |-> reading.source, final |-> TRUE]
    /\ reading.previous.final /\ reading.previous.day <= reading.source
    /\ reading.source <= rows[i].expected

\* README.md:104: a page is READY only if every index is there with the price
\* of the session it is for; a job whose rows another one has written over is
\* the exception.
ReadyPagesAreCurrent ==
  \A j \in DOMAIN page :
    page[j].status = "READY" /\ ~page[j].overtaken =>
      /\ DOMAIN page[j].rows = Indices
      /\ \A i \in Indices : page[j].rows[i].reading.source = page[j].expected

\* When every index was collected, the date a market's note gives is that of the
\* oldest price shown, and no note means that none is older than the session.
NotesTellTheOldest ==
  \A j \in DOMAIN page :
    ~page[j].overtaken /\ job[j].collected = Cardinality(Indices) =>
      (IF page[j].note = NoDate THEN page[j].expected ELSE page[j].note)
        = Min({page[j].rows[i].reading.source : i \in Indices})
=============================================================================
