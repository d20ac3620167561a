------------------------- MODULE MarketIndicesProofs -------------------------
(***************************************************************************)
(* Theorems about MarketIndices, for every set of tickers and jobs, every  *)
(* business date and any number of sessions and replays.                   *)
(***************************************************************************)
EXTENDS MarketIndices, FiniteSetTheorems, TLAPS

ContextRow == [job : Jobs, expected : Sessions, actual : Sessions \cup {NoDate}]
JobRow == [status : Statuses, step : 1 .. 4, force : BOOLEAN, partial : BOOLEAN,
           collected : 0 .. Cardinality(Indices)]

\* The price of session d no longer changes.
Settled(d) == Closes(d) + Grace <= now

\* What may be stored for a job that expects the given session.
GoodReading(reading, expected) ==
  /\ reading \in Reading
  /\ reading.close = [day |-> reading.source, final |-> TRUE]
  /\ reading.previous.final /\ reading.previous.day <= reading.source
  /\ reading.source <= expected

Shape ==
  /\ now \in 2 .. LastInstant
  /\ contexts \in Seq(ContextRow)
  /\ job \in [Jobs -> JobRow]
  /\ DOMAIN fetched = Jobs
  /\ DOMAIN page \subseteq Jobs
  /\ overtaken \subseteq Jobs
  /\ replays \in 0 .. MaxReplays

\* Every context expects a settled session, and a job that was prepared has one.
ContextInv ==
  /\ \A k \in 1 .. Len(contexts) : Settled(contexts[k].expected)
  /\ \A j \in Jobs : job[j].step > 1 => \E k \in 1 .. Len(contexts) : contexts[k].job = j

\* An attempt has answers of the provider only in COLLECT_MARKET_INDICES.
FetchedInv ==
  \A j \in Jobs : \A i \in DOMAIN fetched[j] :
    /\ i \in Indices /\ job[j].step = 2
    /\ fetched[j][i] = Failed \/ GoodReading(fetched[j][i], Expected(j))

RowsInv ==
  \A i \in DOMAIN rows :
    i \in Indices /\ rows[i].expected \in Sessions /\ GoodReading(rows[i].reading, rows[i].expected)

PriceInv == Shape /\ ContextInv /\ FetchedInv /\ RowsInv
-----------------------------------------------------------------------------
(***************************************************************************)
(* Sessions and prices.                                                    *)
(***************************************************************************)
LEMMA Parameters ==
  /\ IsFiniteSet(Indices) /\ Cardinality(Indices) \in Nat /\ Indices # {}
  /\ EndOfDate \in Nat /\ LastInstant \in Nat /\ Lookback \in Nat /\ MaxReplays \in Nat
  /\ 2 <= EndOfDate /\ 2 <= LastInstant
BY MarketIndicesAssumption, FS_CardinalityType

LEMMA SessionsBound ==
  /\ LastInstant \div 3 \in Nat /\ Sessions = 0 .. LastInstant \div 3
  /\ 0 \in Sessions /\ Sessions \subseteq Nat
  /\ \A d \in Sessions : 0 .. d \subseteq Sessions
<1>1. \A n \in Nat : n \div 3 \in Nat
  OBVIOUS
<1>2. LastInstant \div 3 \in Nat
  BY <1>1, Parameters
<1>3. QED
  BY <1>2 DEF Sessions

\* A bounded set of natural numbers has a greatest and a least element.
LEMMA Greatest ==
  ASSUME NEW n \in Nat, NEW S \in SUBSET (0 .. n), S # {}
  PROVE  Max(S) \in S /\ \A x \in S : x <= Max(S)
<1> DEFINE above == {x .. n : x \in S}
<1>1. above \subseteq FiniteSubsetsOf(Nat) /\ above # {}
  <2>1. \A x \in S : IsFiniteSet(x .. n) /\ x .. n \subseteq Nat
    BY FS_Interval
  <2>2. QED
    BY <2>1 DEF FiniteSubsetsOf
<1>2. PICK least \in above : \A set \in above : ~ (<<set, least>> \in StrictSubsetOrdering(Nat))
  BY <1>1, FS_StrictSubsetOrderingWellFounded, WFMin
<1>3. PICK m \in S : least = m .. n
  OBVIOUS
<1>4. ASSUME NEW x \in S PROVE m >= x
  <2>1. SUFFICES ASSUME m < x PROVE FALSE
    OBVIOUS
  <2>2. x .. n \subseteq m .. n /\ m \in m .. n /\ m \notin x .. n
    BY <2>1
  <2>3. x .. n \in SUBSET Nat /\ m .. n \in SUBSET Nat
    OBVIOUS
  <2>4. <<x .. n, m .. n>> \in StrictSubsetOrdering(Nat)
    BY <2>2, <2>3 DEF StrictSubsetOrdering
  <2>5. QED
    BY <1>2, <1>3, <2>4
<1>5. PICK max : max = Max(S)
  OBVIOUS
<1>6. max \in S /\ \A x \in S : max >= x
  BY <1>4, <1>5 DEF Max
<1>7. QED
  BY <1>5, <1>6

LEMMA Least ==
  ASSUME NEW n \in Nat, NEW S \in SUBSET (0 .. n), S # {}
  PROVE  Min(S) \in S /\ \A x \in S : Min(S) <= x
<1> DEFINE mirrored == {n - x : x \in S}
<1>1. mirrored \in SUBSET (0 .. n) /\ mirrored # {}
  OBVIOUS
<1>2. PICK y \in mirrored : \A x \in mirrored : x <= y
  BY <1>1, Greatest
<1>3. PICK m \in S : y = n - m
  OBVIOUS
<1>4. \A x \in S : m <= x
  <2> SUFFICES ASSUME NEW x \in S PROVE m <= x
    OBVIOUS
  <2>1. n - x <= n - m /\ x \in 0 .. n /\ m \in 0 .. n
    BY <1>2, <1>3
  <2>2. QED
    BY <2>1
<1>5. PICK min : min = Min(S)
  OBVIOUS
<1>6. min \in S /\ \A x \in S : min <= x
  BY <1>4, <1>5 DEF Min
<1>7. QED
  BY <1>5, <1>6

\* The first session has settled when the clock starts.
LEMMA LatestCompletedIsSettled ==
  ASSUME now \in 2 .. LastInstant
  PROVE  LatestCompleted(Cutoff) \in Sessions /\ Settled(LatestCompleted(Cutoff))
<1>1. PICK cutoff : cutoff = Cutoff
  OBVIOUS
<1>2. cutoff \in {now, EndOfDate} /\ cutoff <= now /\ 2 <= cutoff /\ cutoff \in Nat /\ now \in Nat
  <2>1. now \in Nat /\ EndOfDate \in Nat /\ 2 <= now /\ 2 <= EndOfDate
    BY Parameters
  <2>2. {now, EndOfDate} \in SUBSET (0 .. now + EndOfDate) /\ now + EndOfDate \in Nat
    BY <2>1
  <2>3. cutoff \in {now, EndOfDate} /\ \A x \in {now, EndOfDate} : cutoff <= x
    BY <1>1, <2>2, Least DEF Cutoff
  <2>4. QED
    BY <2>1, <2>3
<1>3. PICK completed : completed = {d \in Sessions : Opens(d) <= cutoff /\ Closes(d) + Grace <= cutoff}
  OBVIOUS
<1>4. completed \in SUBSET (0 .. LastInstant \div 3) /\ completed # {}
  <2>1. Opens(0) = 0 /\ Closes(0) + Grace = 2
    BY DEF Opens, Closes, Grace
  <2>2. 0 \in completed
    BY <1>2, <1>3, <2>1, SessionsBound
  <2>3. QED
    BY <1>3, <2>2, SessionsBound
<1>5. Max(completed) \in completed
  BY <1>4, SessionsBound, Greatest
<1>6. LatestCompleted(Cutoff) = Max(completed)
  BY <1>1, <1>3 DEF LatestCompleted
<1>7. QED
  <2>1. PICK d \in Sessions : d = Max(completed) /\ Closes(d) + Grace <= cutoff
    BY <1>3, <1>5
  <2>2. Closes(d) + Grace \in Nat
    BY <2>1, SessionsBound DEF Closes, Grace
  <2>3. QED
    BY <1>2, <1>6, <2>1, <2>2 DEF Settled

\* Every bar that is downloaded for a settled session is settled.
LEMMA SettledBefore ==
  ASSUME now \in Nat, NEW target \in Sessions, Settled(target), NEW d \in 0 .. target
  PROVE  d \in Sessions /\ Price(d, now) = [day |-> d, final |-> TRUE] /\ Price(d, now) \in Prices
<1>1. target \in Nat /\ d \in Nat /\ d \in Sessions
  BY SessionsBound
<1>2. now >= Closes(d) + Grace
  BY <1>1 DEF Settled, Closes, Grace
<1>3. QED
  BY <1>1, <1>2 DEF Price, Prices

LEMMA DownloadedIsBefore ==
  ASSUME NEW target \in Sessions
  PROVE  Downloaded(target) \subseteq 0 .. target
<1>1. target \in Nat /\ Lookback \in Nat
  BY SessionsBound, Parameters
<1>2. PICK from : from = Max({0, target - Lookback})
  OBVIOUS
<1>3. \E x \in {0, target - Lookback} : \A y \in {0, target - Lookback} : x >= y
  <2>1. CASE target - Lookback >= 0
    BY <1>1, <2>1
  <2>2. CASE target - Lookback <= 0
    BY <1>1, <2>2
  <2>3. QED
    BY <1>1, <2>1, <2>2
<1>4. from \in {0, target - Lookback} /\ \A y \in {0, target - Lookback} : from >= y
  BY <1>2, <1>3 DEF Max
<1>5. from \in Int /\ from >= 0
  BY <1>1, <1>4
<1>6. QED
  BY <1>1, <1>2, <1>5 DEF Downloaded

\* Whatever the provider answers, what a settled session reads is settled.
LEMMA ReadingIsGood ==
  ASSUME now \in Nat, NEW target \in Sessions, Settled(target),
         NEW reading \in Readings(target), reading # Failed
  PROVE  GoodReading(reading, target)
<1>1. PICK answer \in Answers(target) : reading = ReadTarget(target, answer)
  BY DEF Readings
<1>2. PICK bars : bars = answer.bars
  OBVIOUS
<1>3. bars \in SUBSET (0 .. target) /\ bars # {} /\ target \in Nat
  BY <1>1, <1>2, DownloadedIsBefore, SessionsBound DEF Answers, ReadTarget
<1>4. PICK newest \in bars : newest = Max(bars) /\ \A x \in bars : x <= newest
  BY <1>3, Greatest
<1>5. \A d \in 0 .. target :
        d \in Sessions /\ Price(d, now) = [day |-> d, final |-> TRUE] /\ Price(d, now) \in Prices
  BY SettledBefore
<1>6. CASE reading = FromQuote(target, answer) /\ answer.quote = target
  <2>1. reading = [source |-> target, close |-> Price(target, now),
                   previous |-> Price(newest, now)]
    BY <1>2, <1>4, <1>6 DEF FromQuote
  <2>2. target \in 0 .. target /\ newest \in 0 .. target /\ newest <= target
    BY <1>3
  <2>3. reading \in Reading
    BY <1>5, <2>1, <2>2 DEF Reading
  <2>4. QED
    BY <1>5, <2>1, <2>2, <2>3 DEF GoodReading
<1>7. CASE reading = FromBars(answer)
  <2>1. PICK older : older = bars \ {newest}
    OBVIOUS
  <2>2. PICK before : before = (IF older = {} THEN newest ELSE Max(older))
    OBVIOUS
  <2>3. before \in 0 .. target /\ before <= newest /\ newest \in 0 .. target /\ newest <= target
    <3>1. CASE older = {}
      BY <1>3, <2>2, <3>1
    <3>2. CASE older # {}
      <4>1. older \in SUBSET (0 .. target)
        BY <1>3, <2>1
      <4>2. before \in older
        BY <1>3, <2>2, <3>2, <4>1, Greatest
      <4>3. QED
        BY <1>3, <1>4, <2>1, <4>2
    <3>3. QED
      BY <3>1, <3>2
  <2>4. reading = [source |-> newest, close |-> Price(newest, now),
                   previous |-> Price(before, now)]
    BY <1>2, <1>4, <1>7, <2>1, <2>2 DEF FromBars
  <2>5. reading \in Reading
    BY <1>5, <2>3, <2>4 DEF Reading
  <2>6. QED
    BY <1>5, <2>3, <2>4, <2>5 DEF GoodReading
<1>8. QED
  BY <1>1, <1>6, <1>7 DEF ReadTarget
-----------------------------------------------------------------------------
(***************************************************************************)
(* The context of a job.                                                   *)
(***************************************************************************)
OfJob(j) == {k \in 1 .. Len(contexts) : contexts[k].job = j}

LEMMA ContextIndex ==
  ASSUME NEW j
  PROVE  ContextOf(j) = IF OfJob(j) # {} THEN Min(OfJob(j)) ELSE 0
BY DEF ContextOf, SelectInSeq, OfJob

LEMMA ContextFields ==
  ASSUME Shape
  PROVE  /\ contexts \in Seq(ContextRow) /\ Len(contexts) \in Nat
         /\ now \in Nat /\ now \in 2 .. LastInstant
         /\ \A k \in 1 .. Len(contexts) :
              /\ contexts[k] \in ContextRow /\ contexts[k].job \in Jobs
              /\ contexts[k].expected \in Sessions
              /\ contexts[k].actual \in Sessions \cup {NoDate}
         /\ \A j \in Jobs : job[j] \in JobRow /\ job[j].step \in 1 .. 4
<1>1. contexts \in Seq(ContextRow) /\ Len(contexts) \in Nat
  BY DEF Shape
<1>2. \A k \in 1 .. Len(contexts) : contexts[k] \in ContextRow
  BY <1>1
<1>3. now \in Nat /\ now \in 2 .. LastInstant
  BY Parameters DEF Shape
<1>4. \A j \in Jobs : job[j] \in JobRow /\ job[j].step \in 1 .. 4
  <2>1. \A j \in Jobs : job[j] \in JobRow
    BY DEF Shape
  <2>2. QED
    BY <2>1 DEF JobRow
<1>5. QED
  BY <1>1, <1>2, <1>3, <1>4 DEF ContextRow

LEMMA PreparedContext ==
  ASSUME Shape, ContextInv, NEW j \in Jobs, job[j].step > 1
  PROVE  /\ ContextOf(j) \in 1 .. Len(contexts) /\ contexts[ContextOf(j)].job = j
         /\ Expected(j) \in Sessions /\ Settled(Expected(j))
<1>1. OfJob(j) # {} /\ OfJob(j) \in SUBSET (0 .. Len(contexts)) /\ Len(contexts) \in Nat
  BY ContextFields DEF ContextInv, OfJob
<1>2. ContextOf(j) \in OfJob(j)
  BY <1>1, ContextIndex, Least
<1>3. ContextOf(j) \in 1 .. Len(contexts) /\ contexts[ContextOf(j)].job = j
  BY <1>2 DEF OfJob
<1>4. QED
  BY <1>3, ContextFields DEF Expected, ContextInv

\* A prepared job keeps its context while contexts of other jobs are added, and what
\* it expects while its context records what was found.
LEMMA ContextKept ==
  ASSUME Shape, ContextInv, NEW j \in Jobs, job[j].step > 1,
         OfJob(j)' = OfJob(j),
         \A k \in OfJob(j) : contexts'[k].expected = contexts[k].expected
  PROVE  ContextOf(j)' = ContextOf(j) /\ Expected(j)' = Expected(j)
<1>1. ContextOf(j)' = ContextOf(j)
  <2>1. ContextOf(j)' = IF OfJob(j)' # {} THEN Min(OfJob(j)') ELSE 0
    BY DEF ContextOf, SelectInSeq, OfJob
  <2>2. QED
    BY <2>1, ContextIndex
<1>2. ContextOf(j) \in OfJob(j)
  BY PreparedContext DEF OfJob
<1>3. QED
  BY <1>1, <1>2 DEF Expected

LEMMA PrepareContexts ==
  ASSUME PriceInv, NEW j \in Jobs, Prepare(j)
  PROVE  /\ contexts' \in Seq(ContextRow) /\ Len(contexts') = Len(contexts) + 1
         /\ contexts'[Len(contexts) + 1].job = j
         /\ Settled(contexts'[Len(contexts) + 1].expected)
         /\ \A k \in 1 .. Len(contexts) : contexts'[k] = contexts[k]
         /\ \A i \in Jobs : i # j => OfJob(i)' = OfJob(i)
<1>1. Shape /\ ContextInv
  BY DEF PriceInv
<1>2. contexts \in Seq(ContextRow) /\ Len(contexts) \in Nat
  BY <1>1, ContextFields
<1>3. PICK expected : expected = ExpectedSession(j)
  OBVIOUS
<1>4. expected \in Sessions /\ Settled(expected)
  <2>1. CASE job[j].force /\ contexts # <<>>
    <3>1. Len(contexts) \in 1 .. Len(contexts)
      BY <1>2, <2>1
    <3>2. expected = contexts[Len(contexts)].expected
      BY <1>3, <2>1 DEF ExpectedSession, Last
    <3>3. QED
      BY <1>1, <3>1, <3>2, ContextFields DEF ContextInv
  <2>2. CASE ~(job[j].force /\ contexts # <<>>)
    <3>1. expected = LatestCompleted(Cutoff)
      BY <1>3, <2>2 DEF ExpectedSession
    <3>2. now \in 2 .. LastInstant
      BY <1>1 DEF Shape
    <3>3. QED
      BY <3>1, <3>2, LatestCompletedIsSettled
  <2>3. QED
    BY <2>1, <2>2
<1>5. PICK row : row = [job |-> j, expected |-> expected, actual |-> NoDate]
  OBVIOUS
<1>6. row \in ContextRow /\ row.job = j /\ row.expected = expected
  BY <1>4, <1>5 DEF ContextRow
<1>7. contexts' = Append(contexts, row)
  BY <1>3, <1>5 DEF Prepare
<1>8. /\ contexts' \in Seq(ContextRow) /\ Len(contexts') = Len(contexts) + 1
      /\ contexts'[Len(contexts) + 1] = row
      /\ \A k \in 1 .. Len(contexts) : contexts'[k] = contexts[k]
  BY <1>2, <1>6, <1>7
<1>9. ASSUME NEW i \in Jobs, i # j PROVE OfJob(i)' = OfJob(i)
  <2>1. \A k : k \in 1 .. Len(contexts') <=> k \in 1 .. Len(contexts) \/ k = Len(contexts) + 1
    BY <1>2, <1>8
  <2>2. OfJob(i)' = {k \in 1 .. Len(contexts') : contexts'[k].job = i}
    BY DEF OfJob
  <2>3. \A k : k \in OfJob(i)' <=> k \in OfJob(i)
    BY <1>6, <1>8, <1>9, <2>1, <2>2 DEF OfJob
  <2>4. QED
    BY <2>2, <2>3 DEF OfJob
<1>10. QED
  BY <1>4, <1>6, <1>8, <1>9

LEMMA CollectContexts ==
  ASSUME PriceInv, NEW j \in Jobs, Collect(j)
  PROVE  /\ contexts' \in Seq(ContextRow) /\ Len(contexts') = Len(contexts)
         /\ ContextOf(j) \in 1 .. Len(contexts) /\ contexts[ContextOf(j)].job = j
         /\ contexts'[ContextOf(j)].actual = ActualSource(j)
         /\ \A k \in 1 .. Len(contexts) :
              /\ contexts'[k].job = contexts[k].job
              /\ contexts'[k].expected = contexts[k].expected
              /\ k # ContextOf(j) => contexts'[k] = contexts[k]
         /\ \A i \in Jobs : OfJob(i)' = OfJob(i)
<1>1. Shape /\ ContextInv /\ FetchedInv
  BY DEF PriceInv
<1>2. contexts \in Seq(ContextRow) /\ Len(contexts) \in Nat
  BY <1>1, ContextFields
<1>3. job[j].step > 1
  BY <1>1, ContextFields DEF Collect, At, Steps
<1>4. PICK n : n = ContextOf(j)
  OBVIOUS
<1>5. n \in 1 .. Len(contexts) /\ contexts[n].job = j /\ contexts[n] \in ContextRow
      /\ Expected(j) \in Sessions
  BY <1>1, <1>3, <1>4, PreparedContext, ContextFields
<1>6. ActualSource(j) \in Sessions \cup {NoDate}
  <2>1. CASE Accepted(j) = {}
    BY <2>1 DEF ActualSource
  <2>2. CASE Accepted(j) # {}
    <3>1. PICK sources : sources = {fetched[j][i].source : i \in Accepted(j)}
      OBVIOUS
    <3>2. \A i \in Accepted(j) : GoodReading(fetched[j][i], Expected(j))
      BY <1>1 DEF FetchedInv, Accepted, Collect
    <3>3. sources \in SUBSET Sessions /\ sources # {}
      BY <2>2, <3>1, <3>2 DEF GoodReading, Reading
    <3>4. sources \in SUBSET (0 .. LastInstant \div 3) /\ LastInstant \div 3 \in Nat
      BY <3>3, SessionsBound
    <3>5. Min(sources) \in sources
      BY <3>3, <3>4, Least
    <3>6. QED
      BY <2>2, <3>1, <3>3, <3>5 DEF ActualSource
  <2>3. QED
    BY <2>1, <2>2
<1>7. PICK row : row = [contexts[n] EXCEPT !.actual = ActualSource(j)]
  OBVIOUS
<1>8. /\ row \in ContextRow /\ row.job = contexts[n].job /\ row.expected = contexts[n].expected
      /\ row.actual = ActualSource(j)
  BY <1>5, <1>6, <1>7 DEF ContextRow
<1>9. contexts' = [contexts EXCEPT ![n] = row]
  BY <1>2, <1>4, <1>5, <1>7 DEF Collect
<1>10. /\ contexts' \in Seq(ContextRow) /\ Len(contexts') = Len(contexts)
       /\ \A k \in 1 .. Len(contexts) : contexts'[k] = IF k = n THEN row ELSE contexts[k]
  BY <1>2, <1>5, <1>8, <1>9
<1>11. \A k \in 1 .. Len(contexts) :
         /\ contexts'[k].job = contexts[k].job
         /\ contexts'[k].expected = contexts[k].expected
         /\ k # n => contexts'[k] = contexts[k]
  BY <1>8, <1>10
<1>12. ASSUME NEW i \in Jobs PROVE OfJob(i)' = OfJob(i)
  <2>1. OfJob(i)' = {k \in 1 .. Len(contexts') : contexts'[k].job = i}
    BY DEF OfJob
  <2>2. QED
    BY <1>10, <1>11, <2>1 DEF OfJob
<1>13. QED
  BY <1>4, <1>5, <1>8, <1>10, <1>11, <1>12
-----------------------------------------------------------------------------
(***************************************************************************)
(* The prices.                                                             *)
(***************************************************************************)
LEMMA PriceInit ==
  ASSUME Init PROVE PriceInv
<1>1. now \in 2 .. LastInstant /\ 0 \in 0 .. MaxReplays /\ 0 \in 0 .. Cardinality(Indices)
  BY Parameters DEF Init
<1>2. contexts = <<>> /\ Len(contexts) = 0 /\ contexts \in Seq(ContextRow)
  BY DEF Init
<1>3. job \in [Jobs -> JobRow] /\ \A j \in Jobs : job[j].step = 1
  BY <1>1 DEF Init, JobRow, Statuses
<1>4. DOMAIN rows = {} /\ DOMAIN page = {} /\ DOMAIN fetched = Jobs
      /\ \A j \in Jobs : DOMAIN fetched[j] = {}
  BY DEF Init
<1>5. Shape
  BY <1>1, <1>2, <1>3, <1>4 DEF Shape, Init
<1>6. ContextInv
  BY <1>2, <1>3 DEF ContextInv
<1>7. FetchedInv /\ RowsInv
  BY <1>4 DEF FetchedInv, RowsInv
<1>8. QED
  BY <1>5, <1>6, <1>7 DEF PriceInv

\* Steps that leave contexts and rows alone, forget answers or keep them, and take
\* no job to another step of the pipeline but from the third on.
LEMMA PriceKept ==
  ASSUME PriceInv, Shape', UNCHANGED <<contexts, rows>>, now <= now',
         \A j \in Jobs : /\ fetched'[j] = fetched[j] \/ DOMAIN fetched'[j] = {}
                         /\ job'[j].step = job[j].step \/ job[j].step > 2
  PROVE  PriceInv'
<1>1. Shape /\ ContextInv /\ FetchedInv /\ RowsInv
  BY DEF PriceInv
<1>2. now \in Nat /\ now' \in Nat
  BY <1>1, Parameters DEF Shape
<1>3. \A k \in 1 .. Len(contexts) : Settled(contexts[k].expected)'
  <2>1. ASSUME NEW k \in 1 .. Len(contexts) PROVE Settled(contexts[k].expected)'
    <3>1. PICK d \in Nat : d = contexts[k].expected /\ Closes(d) + Grace <= now
      BY <1>1, ContextFields, SessionsBound DEF ContextInv, Settled
    <3>2. Closes(d) + Grace <= now'
      BY <1>2, <3>1 DEF Closes, Grace
    <3>3. QED
      BY <3>1, <3>2 DEF Settled
  <2>2. QED
    BY <2>1
<1>4. \A j \in Jobs : job[j].step \in 1 .. 4 /\ job'[j].step > 1 => job[j].step > 1
  <2>1. \A j \in Jobs : job[j].step \in 1 .. 4
    BY <1>1, ContextFields
  <2>2. QED
    BY <2>1
<1>5. ContextInv'
  BY <1>1, <1>3, <1>4, ContextFields DEF ContextInv
<1>6. FetchedInv'
  <2>1. \A j \in Jobs : Expected(j)' = Expected(j)
    BY DEF Expected, ContextOf, SelectInSeq
  <2>2. SUFFICES ASSUME NEW j \in Jobs, NEW i \in DOMAIN fetched'[j]
                 PROVE  /\ i \in Indices /\ job'[j].step = 2
                        /\ fetched'[j][i] = Failed \/ GoodReading(fetched'[j][i], Expected(j)')
    BY DEF FetchedInv, GoodReading
  <2>3. fetched'[j] = fetched[j]
    BY <2>2
  <2>4. /\ i \in Indices /\ job[j].step = 2
        /\ fetched[j][i] = Failed \/ GoodReading(fetched[j][i], Expected(j))
    BY <1>1, <2>2, <2>3 DEF FetchedInv
  <2>5. QED
    BY <2>1, <2>3, <2>4
<1>7. RowsInv'
  BY <1>1 DEF RowsInv, GoodReading
<1>8. QED
  BY <1>5, <1>6, <1>7 DEF PriceInv

LEMMA StepTypes ==
  ASSUME PriceInv, NEW j \in Jobs
  PROVE  /\ job \in [Jobs -> JobRow] /\ DOMAIN fetched = Jobs
         /\ job[j].status \in Statuses /\ job[j].step \in 1 .. 4 /\ job[j].force \in BOOLEAN
         /\ job[j].partial \in BOOLEAN /\ job[j].collected \in 0 .. Cardinality(Indices)
         /\ \A step : At(j, step) => job[j].status = "ACTIVE" /\ Steps[job[j].step] = step
<1>1. job \in [Jobs -> JobRow] /\ DOMAIN fetched = Jobs
  BY DEF PriceInv, Shape
<1>2. job[j] \in JobRow
  BY <1>1
<1>3. QED
  BY <1>1, <1>2 DEF JobRow, At, IsActive

\* The third kind of step: a job is started, fails, is queued again or ends.
LEMMA StatusStep ==
  ASSUME PriceInv, NEW j \in Jobs, Start(j) \/ Fail(j) \/ Replay(j) \/ Finalize(j)
  PROVE  PriceInv' /\ \A k \in Jobs : job'[k].step = job[k].step
                      /\ job'[k].collected = job[k].collected /\ job'[k].partial = job[k].partial
<1>1. /\ job \in [Jobs -> JobRow] /\ DOMAIN fetched = Jobs
      /\ job[j].status \in Statuses /\ job[j].step \in 1 .. 4 /\ job[j].force \in BOOLEAN
      /\ job[j].partial \in BOOLEAN /\ job[j].collected \in 0 .. Cardinality(Indices)
  BY StepTypes
<1>2. PICK status \in Statuses, force \in BOOLEAN :
        job' = [job EXCEPT ![j].status = status, ![j].force = force]
  <2>1. CASE Start(j)
    BY <2>1 DEF Start, Statuses
  <2>2. CASE Fail(j)
    <3>1. job' = [job EXCEPT ![j].status = "FAILED", ![j].force = job[j].force]
      BY <1>1, <2>2 DEF Fail, JobRow
    <3>2. QED
      BY <1>1, <3>1 DEF Statuses
  <2>3. CASE Replay(j)
    <3>1. job' = [job EXCEPT ![j].status = "ACTIVE", ![j].force = job[j].force]
      BY <1>1, <2>3 DEF Replay, JobRow
    <3>2. QED
      BY <1>1, <3>1 DEF Statuses
  <2>4. CASE Finalize(j)
    <3>1. PICK status \in Statuses : job' = [job EXCEPT ![j].status = status]
      BY <2>4 DEF Finalize, Statuses
    <3>2. job' = [job EXCEPT ![j].status = status, ![j].force = job[j].force]
      BY <1>1, <3>1 DEF JobRow
    <3>3. QED
      BY <1>1, <3>2
  <2>5. QED
    BY <2>1, <2>2, <2>3, <2>4
<1>3. PICK row : row = [job[j] EXCEPT !.status = status, !.force = force]
  OBVIOUS
<1>4. row \in JobRow /\ row.step = job[j].step /\ row.collected = job[j].collected
      /\ row.partial = job[j].partial
  BY <1>1, <1>3 DEF JobRow
<1>5. job' = [job EXCEPT ![j] = row]
  BY <1>1, <1>2, <1>3
<1>6. job' \in [Jobs -> JobRow]
      /\ \A k \in Jobs : /\ job'[k].step = job[k].step /\ job'[k].partial = job[k].partial
                         /\ job'[k].collected = job[k].collected
  BY <1>1, <1>4, <1>5
<1>7. /\ UNCHANGED <<now, contexts, rows, page, overtaken>>
      /\ replays' \in 0 .. MaxReplays
      /\ fetched' = fetched \/ fetched' = [fetched EXCEPT ![j] = <<>>]
  <2>1. replays \in 0 .. MaxReplays /\ MaxReplays \in Nat
    BY Parameters DEF PriceInv, Shape
  <2>2. QED
    BY <2>1 DEF Start, Fail, Replay, Finalize
<1>8. DOMAIN fetched' = Jobs
      /\ \A k \in Jobs : fetched'[k] = fetched[k] \/ DOMAIN fetched'[k] = {}
  <2>1. DOMAIN <<>> = {}
    OBVIOUS
  <2>2. QED
    BY <1>1, <1>7, <2>1
<1>9. now <= now'
  BY <1>7, ContextFields DEF PriceInv
<1>10. Shape'
  BY <1>6, <1>7, <1>8 DEF PriceInv, Shape
<1>11. PriceInv'
  BY <1>6, <1>7, <1>8, <1>9, <1>10, PriceKept
<1>12. QED
  BY <1>6, <1>11

LEMMA TickStep ==
  ASSUME PriceInv, Tick
  PROVE  PriceInv'
<1>1. now' \in 2 .. LastInstant /\ now <= now'
  BY Parameters DEF PriceInv, Shape, Tick
<1>2. Shape'
  BY <1>1 DEF PriceInv, Shape, Tick
<1>3. QED
  BY <1>1, <1>2, PriceKept DEF Tick

\* A job goes on to its next step.
LEMMA AdvancedRow ==
  ASSUME PriceInv, NEW j \in Jobs, job[j].step \in 1 .. 3
  PROVE  /\ Advanced(j) \in [Jobs -> JobRow]
         /\ \A k \in Jobs : k # j => Advanced(j)[k] = job[k]
         /\ Advanced(j)[j].step = job[j].step + 1
         /\ Advanced(j)[j].partial = job[j].partial
         /\ Advanced(j)[j].collected = job[j].collected
<1>1. /\ job \in [Jobs -> JobRow]
      /\ job[j].status \in Statuses /\ job[j].step \in 1 .. 4 /\ job[j].force \in BOOLEAN
      /\ job[j].partial \in BOOLEAN /\ job[j].collected \in 0 .. Cardinality(Indices)
  BY StepTypes
<1>2. PICK row : row = [job[j] EXCEPT !.step = job[j].step + 1]
  OBVIOUS
<1>3. row \in JobRow /\ row.step = job[j].step + 1 /\ row.partial = job[j].partial
      /\ row.collected = job[j].collected
  BY <1>1, <1>2 DEF JobRow
<1>4. Advanced(j) = [job EXCEPT ![j] = row]
  BY <1>1, <1>2 DEF Advanced
<1>5. QED
  BY <1>1, <1>3, <1>4

LEMMA PrepareStep ==
  ASSUME PriceInv, NEW j \in Jobs, Prepare(j)
  PROVE  PriceInv'
<1>1. Shape /\ ContextInv /\ FetchedInv /\ RowsInv
  BY DEF PriceInv
<1>2. job[j].step = 1
  <2>1. job[j].step \in 1 .. 4 /\ Steps[job[j].step] = "PREPARE_MARKET_CONTEXTS"
    BY StepTypes DEF Prepare
  <2>2. QED
    BY <2>1 DEF Steps
<1>3. /\ job' \in [Jobs -> JobRow] /\ job'[j].step = 2
      /\ \A k \in Jobs : k # j => job'[k] = job[k]
  BY <1>2, AdvancedRow DEF Prepare
<1>4. Len(contexts) \in Nat
  BY <1>1, ContextFields
<1>5. /\ contexts' \in Seq(ContextRow) /\ Len(contexts') = Len(contexts) + 1
      /\ contexts'[Len(contexts) + 1].job = j
      /\ Settled(contexts'[Len(contexts) + 1].expected)
      /\ \A k \in 1 .. Len(contexts) : contexts'[k] = contexts[k]
      /\ \A i \in Jobs : i # j => OfJob(i)' = OfJob(i)
  BY PrepareContexts
<1>6. Shape'
  BY <1>1, <1>3, <1>5 DEF Shape, Prepare
<1>7. \A k \in 1 .. Len(contexts') : k \in 1 .. Len(contexts) \/ k = Len(contexts) + 1
  BY <1>4, <1>5
<1>8. ContextInv'
  <2>1. \A k \in 1 .. Len(contexts') : Settled(contexts[k].expected)'
    BY <1>1, <1>5, <1>7 DEF ContextInv, Settled, Prepare
  <2>2. ASSUME NEW i \in Jobs, job'[i].step > 1
        PROVE  \E k \in 1 .. Len(contexts') : contexts'[k].job = i
    <3>1. CASE i = j
      <4>1. Len(contexts) + 1 \in 1 .. Len(contexts')
        BY <1>4, <1>5
      <4>2. QED
        BY <1>5, <3>1, <4>1
    <3>2. CASE i # j
      <4>1. PICK k \in 1 .. Len(contexts) : contexts[k].job = i
        BY <1>1, <1>3, <2>2, <3>2 DEF ContextInv
      <4>2. k \in 1 .. Len(contexts') /\ contexts'[k] = contexts[k]
        BY <1>4, <1>5
      <4>3. QED
        BY <4>1, <4>2
    <3>3. QED
      BY <3>1, <3>2
  <2>3. QED
    BY <2>1, <2>2 DEF ContextInv
<1>9. FetchedInv'
  <2>1. SUFFICES ASSUME NEW i \in Jobs, NEW x \in DOMAIN fetched[i]
                 PROVE  /\ x \in Indices /\ job'[i].step = 2
                        /\ fetched[i][x] = Failed \/ GoodReading(fetched[i][x], Expected(i)')
    BY DEF FetchedInv, GoodReading, Prepare
  <2>2. /\ x \in Indices /\ job[i].step = 2
        /\ fetched[i][x] = Failed \/ GoodReading(fetched[i][x], Expected(i))
    BY <1>1, <2>1 DEF FetchedInv
  <2>3. i # j /\ job'[i] = job[i]
    BY <1>2, <1>3, <2>2
  <2>4. Expected(i)' = Expected(i)
    <3>1. \A k \in OfJob(i) : contexts'[k].expected = contexts[k].expected
      BY <1>5 DEF OfJob
    <3>2. QED
      BY <1>1, <1>5, <2>2, <2>3, <3>1, ContextKept
  <2>5. QED
    BY <2>2, <2>3, <2>4
<1>10. RowsInv'
  BY <1>1 DEF RowsInv, GoodReading, Prepare
<1>11. QED
  BY <1>6, <1>8, <1>9, <1>10 DEF PriceInv

LEMMA FetchStep ==
  ASSUME PriceInv, NEW j \in Jobs, NEW i \in Indices, Fetch(j, i)
  PROVE  PriceInv'
<1>1. Shape /\ ContextInv /\ FetchedInv /\ RowsInv
  BY DEF PriceInv
<1>2. job[j].step = 2
  <2>1. job[j].step \in 1 .. 4 /\ Steps[job[j].step] = "COLLECT_MARKET_INDICES"
    BY StepTypes DEF Fetch
  <2>2. QED
    BY <2>1 DEF Steps
<1>3. PICK reading \in Readings(Expected(j)) :
        fetched' = [fetched EXCEPT ![j] = Put(fetched[j], i, reading)]
  BY DEF Fetch
<1>4. reading = Failed \/ GoodReading(reading, Expected(j))
  BY <1>1, <1>2, PreparedContext, ReadingIsGood, ContextFields
<1>5. UNCHANGED <<now, rows, contexts, job, page, overtaken, replays>>
  BY DEF Fetch
<1>6. DOMAIN fetched' = Jobs /\ \A k \in Jobs : k # j => fetched'[k] = fetched[k]
  BY <1>1, <1>3 DEF Shape
<1>7. /\ DOMAIN fetched'[j] = DOMAIN fetched[j] \cup {i}
      /\ \A x \in DOMAIN fetched'[j] :
           fetched'[j][x] = IF x = i THEN reading ELSE fetched[j][x]
  BY <1>1, <1>3 DEF Shape, Put
<1>8. FetchedInv'
  <2>1. \A k \in Jobs : Expected(k)' = Expected(k)
    BY <1>5 DEF Expected, ContextOf, SelectInSeq
  <2>2. SUFFICES ASSUME NEW k \in Jobs, NEW x \in DOMAIN fetched'[k]
                 PROVE  /\ x \in Indices /\ job[k].step = 2
                        /\ fetched'[k][x] = Failed \/ GoodReading(fetched'[k][x], Expected(k))
    BY <1>5, <2>1 DEF FetchedInv, GoodReading
  <2>3. CASE k = j /\ x = i
    BY <1>2, <1>4, <1>7, <2>2, <2>3
  <2>4. CASE ~(k = j /\ x = i)
    <3>1. x \in DOMAIN fetched[k] /\ fetched'[k][x] = fetched[k][x]
      BY <1>6, <1>7, <2>2, <2>4
    <3>2. QED
      BY <1>1, <3>1 DEF FetchedInv
  <2>5. QED
    BY <2>3, <2>4
<1>9. Shape'
  BY <1>1, <1>5, <1>6 DEF Shape
<1>10. ContextInv' /\ RowsInv'
  BY <1>1, <1>5 DEF ContextInv, RowsInv, GoodReading, Settled
<1>11. QED
  BY <1>8, <1>9, <1>10 DEF PriceInv

\* What COLLECT_MARKET_INDICES accepts, and what it commits.
LEMMA AcceptedIsGood ==
  ASSUME PriceInv, NEW j \in Jobs, Collect(j)
  PROVE  /\ Accepted(j) \in SUBSET Indices /\ job[j].step = 2
         /\ Expected(j) \in Sessions /\ Settled(Expected(j))
         /\ \A i \in Accepted(j) : GoodReading(fetched[j][i], Expected(j))
         /\ Cardinality(Accepted(j)) \in 0 .. Cardinality(Indices)
         /\ Cardinality(Accepted(j)) = Cardinality(Indices) => Accepted(j) = Indices
<1>1. Shape /\ ContextInv /\ FetchedInv /\ DOMAIN fetched[j] = Indices
  BY DEF PriceInv, Collect
<1>2. job[j].step = 2
  <2>1. job[j].step \in 1 .. 4 /\ Steps[job[j].step] = "COLLECT_MARKET_INDICES"
    BY StepTypes DEF Collect
  <2>2. QED
    BY <2>1 DEF Steps
<1>3. PICK accepted \in SUBSET Indices : accepted = Accepted(j)
  BY DEF Accepted
<1>4. \A i \in accepted : GoodReading(fetched[j][i], Expected(j))
  BY <1>1, <1>3 DEF FetchedInv, Accepted
<1>5. /\ Cardinality(accepted) \in Nat /\ Cardinality(accepted) <= Cardinality(Indices)
      /\ Cardinality(Indices) = Cardinality(accepted) => Indices = accepted
  BY <1>3, Parameters, FS_Subset, FS_CardinalityType
<1>6. Cardinality(accepted) \in 0 .. Cardinality(Indices)
  BY <1>5, Parameters
<1>7. Expected(j) \in Sessions /\ Settled(Expected(j))
  BY <1>1, <1>2, PreparedContext
<1>8. QED
  BY <1>2, <1>3, <1>4, <1>5, <1>6, <1>7

LEMMA CollectedRow ==
  ASSUME PriceInv, NEW j \in Jobs, Collect(j)
  PROVE  /\ job' \in [Jobs -> JobRow] /\ job'[j].step = 3
         /\ job'[j].partial = IsPartial(j) /\ job'[j].collected = Cardinality(Accepted(j))
         /\ \A k \in Jobs : k # j => job'[k] = job[k]
<1>1. /\ Advanced(j) \in [Jobs -> JobRow] /\ Advanced(j)[j].step = 3
      /\ \A k \in Jobs : k # j => Advanced(j)[k] = job[k]
  <2>1. job[j].step = 2
    BY AcceptedIsGood
  <2>2. QED
    BY <2>1, AdvancedRow
<1>2. PICK next \in [Jobs -> JobRow] : next = Advanced(j)
  BY <1>1
<1>3. PICK partial \in BOOLEAN, collected \in 0 .. Cardinality(Indices) :
        partial = IsPartial(j) /\ collected = Cardinality(Accepted(j))
  BY AcceptedIsGood DEF IsPartial
<1>4. job' = [next EXCEPT ![j].partial = partial, ![j].collected = collected]
  BY <1>2, <1>3 DEF Collect
<1>5. PICK row : row = [next[j] EXCEPT !.partial = partial, !.collected = collected]
  OBVIOUS
<1>6. /\ row \in JobRow /\ row.step = next[j].step
      /\ row.partial = partial /\ row.collected = collected
  BY <1>2, <1>3, <1>5 DEF JobRow
<1>7. job' = [next EXCEPT ![j] = row]
  BY <1>2, <1>4, <1>5
<1>8. QED
  BY <1>1, <1>2, <1>3, <1>6, <1>7

LEMMA CollectStep ==
  ASSUME PriceInv, NEW j \in Jobs, Collect(j)
  PROVE  PriceInv'
<1>1. Shape /\ ContextInv /\ FetchedInv /\ RowsInv
  BY DEF PriceInv
<1>2. /\ Accepted(j) \in SUBSET Indices /\ job[j].step = 2
      /\ Expected(j) \in Sessions
      /\ \A i \in Accepted(j) : GoodReading(fetched[j][i], Expected(j))
  BY AcceptedIsGood
<1>3. /\ job' \in [Jobs -> JobRow] /\ job'[j].step = 3
      /\ \A k \in Jobs : k # j => job'[k] = job[k]
  BY CollectedRow
<1>4. /\ contexts' \in Seq(ContextRow) /\ Len(contexts') = Len(contexts)
      /\ \A k \in 1 .. Len(contexts) :
           /\ contexts'[k].job = contexts[k].job
           /\ contexts'[k].expected = contexts[k].expected
      /\ \A i \in Jobs : OfJob(i)' = OfJob(i)
  BY CollectContexts
<1>5. /\ DOMAIN fetched' = Jobs /\ DOMAIN fetched'[j] = {}
      /\ \A k \in Jobs : k # j => fetched'[k] = fetched[k]
  <2>1. DOMAIN <<>> = {}
    OBVIOUS
  <2>2. QED
    BY <1>1, <2>1 DEF Collect, Shape
<1>6. Shape'
  <2>1. overtaken' \subseteq Jobs
    BY <1>1 DEF Shape, Collect
  <2>2. QED
    BY <1>1, <1>3, <1>4, <1>5, <2>1 DEF Shape, Collect
<1>7. ContextInv'
  <2>1. \A k \in 1 .. Len(contexts') : Settled(contexts[k].expected)'
    BY <1>1, <1>4 DEF ContextInv, Settled, Collect
  <2>2. \A i \in Jobs : job'[i].step > 1 => job[i].step > 1
    BY <1>2, <1>3
  <2>3. \A i \in Jobs :
          job'[i].step > 1 => \E k \in 1 .. Len(contexts') : contexts'[k].job = i
    BY <1>1, <1>4, <2>2 DEF ContextInv
  <2>4. QED
    BY <2>1, <2>3 DEF ContextInv
<1>8. FetchedInv'
  <2>1. SUFFICES ASSUME NEW i \in Jobs, NEW x \in DOMAIN fetched'[i]
                 PROVE  /\ x \in Indices /\ job'[i].step = 2
                        /\ fetched'[i][x] = Failed \/ GoodReading(fetched'[i][x], Expected(i)')
    BY DEF FetchedInv, GoodReading
  <2>2. i # j /\ fetched'[i] = fetched[i] /\ job'[i] = job[i]
    BY <1>3, <1>5, <2>1
  <2>3. /\ x \in Indices /\ job[i].step = 2
        /\ fetched[i][x] = Failed \/ GoodReading(fetched[i][x], Expected(i))
    BY <1>1, <2>1, <2>2 DEF FetchedInv
  <2>4. Expected(i)' = Expected(i)
    <3>1. \A k \in OfJob(i) : contexts'[k].expected = contexts[k].expected
      BY <1>4 DEF OfJob
    <3>2. QED
      BY <1>1, <1>4, <2>3, <3>1, ContextKept
  <2>5. QED
    BY <2>2, <2>3, <2>4
<1>9. RowsInv'
  <2>1. rows' = Upserted(j)
    BY DEF Collect
  <2>2. DOMAIN rows' = DOMAIN rows \cup Accepted(j)
        /\ \A i \in DOMAIN rows' :
             rows'[i] = IF i \in Accepted(j)
                        THEN [reading |-> fetched[j][i], expected |-> Expected(j)] ELSE rows[i]
    BY <2>1 DEF Upserted
  <2>3. SUFFICES ASSUME NEW i \in DOMAIN rows'
                 PROVE  /\ i \in Indices /\ rows'[i].expected \in Sessions
                        /\ GoodReading(rows'[i].reading, rows'[i].expected)
    BY DEF RowsInv, GoodReading
  <2>4. CASE i \in Accepted(j)
    <3>1. rows'[i].reading = fetched[j][i] /\ rows'[i].expected = Expected(j)
      <4>1. rows'[i] = [reading |-> fetched[j][i], expected |-> Expected(j)]
        BY <2>2, <2>3, <2>4
      <4>2. QED
        BY <4>1
    <3>2. GoodReading(fetched[j][i], Expected(j)) /\ i \in Indices
      BY <1>2, <2>4
    <3>3. QED
      BY <1>2, <3>1, <3>2
  <2>5. CASE i \notin Accepted(j)
    BY <1>1, <2>2, <2>3, <2>5 DEF RowsInv
  <2>6. QED
    BY <2>4, <2>5
<1>10. QED
  BY <1>6, <1>7, <1>8, <1>9 DEF PriceInv

LEMMA BuildPageStep ==
  ASSUME PriceInv, NEW j \in Jobs, BuildPage(j)
  PROVE  /\ PriceInv' /\ job[j].step = 3 /\ job'[j].step = 4
         /\ job'[j].collected = job[j].collected
         /\ \A k \in Jobs : k # j => job'[k] = job[k]
<1>1. Shape /\ job[j].step = 3
  <2>1. job[j].step \in 1 .. 4 /\ Steps[job[j].step] = "BUILD_PAGE_SNAPSHOT"
    BY StepTypes DEF BuildPage
  <2>2. QED
    BY <2>1 DEF Steps, PriceInv
<1>2. /\ job' \in [Jobs -> JobRow] /\ job'[j].step = 4
      /\ job'[j].collected = job[j].collected
      /\ \A k \in Jobs : k # j => job'[k] = job[k]
  BY <1>1, AdvancedRow DEF BuildPage
<1>3. DOMAIN page' \subseteq Jobs
  BY <1>1 DEF BuildPage, Put, Shape
<1>4. Shape'
  BY <1>1, <1>2, <1>3 DEF Shape, BuildPage
<1>5. now <= now'
  BY <1>1, ContextFields DEF BuildPage
<1>6. PriceInv'
  BY <1>1, <1>2, <1>4, <1>5, PriceKept DEF BuildPage
<1>7. QED
  BY <1>1, <1>2, <1>6

LEMMA PriceStep ==
  ASSUME PriceInv, [Next]_vars
  PROVE  PriceInv'
<1>1. CASE Tick
  BY <1>1, TickStep
<1>2. ASSUME NEW j \in Jobs, Start(j) \/ Fail(j) \/ Replay(j) \/ Finalize(j) PROVE PriceInv'
  BY <1>2, StatusStep
<1>3. ASSUME NEW j \in Jobs, Prepare(j) PROVE PriceInv'
  BY <1>3, PrepareStep
<1>4. ASSUME NEW j \in Jobs, NEW i \in Indices, Fetch(j, i) PROVE PriceInv'
  BY <1>4, FetchStep
<1>5. ASSUME NEW j \in Jobs, Collect(j) PROVE PriceInv'
  BY <1>5, CollectStep
<1>6. ASSUME NEW j \in Jobs, BuildPage(j) PROVE PriceInv'
  BY <1>6, BuildPageStep
<1>7. CASE UNCHANGED vars
  <2>1. UNCHANGED <<contexts, rows>> /\ now <= now' /\ Shape'
        /\ \A j \in Jobs : fetched'[j] = fetched[j] /\ job'[j].step = job[j].step
    BY <1>7, ContextFields DEF vars, PriceInv, Shape
  <2>2. QED
    BY <2>1, PriceKept
<1>8. QED
  BY <1>1, <1>2, <1>3, <1>4, <1>5, <1>6, <1>7 DEF Next

\* The variables keep their types: every session a context, a row or an answer names
\* exists (market_session_policy.py, collect_market_indices.py).
THEOREM TypeCorrect == Spec => []TypeOK
<1>1. Init => PriceInv
  BY PriceInit
<1>2. PriceInv /\ [Next]_vars => PriceInv'
  BY PriceStep
<1>3. PriceInv => TypeOK
  <2>1. SUFFICES ASSUME PriceInv PROVE TypeOK
    OBVIOUS
  <2>2. now \in 2 .. LastInstant /\ DOMAIN page \subseteq Jobs /\ overtaken \subseteq Jobs
        /\ replays \in 0 .. MaxReplays
    BY <2>1 DEF PriceInv, Shape
  <2>3. DOMAIN rows \subseteq Indices
        /\ \A i \in DOMAIN rows : rows[i].reading \in Reading /\ rows[i].expected \in Sessions
    BY <2>1 DEF PriceInv, RowsInv, GoodReading
  <2>4. \A c \in ToSet(contexts) :
          c.job \in Jobs /\ c.expected \in Sessions /\ c.actual \in Sessions \cup {NoDate}
    <3>1. contexts \in Seq(ContextRow) /\ DOMAIN contexts = 1 .. Len(contexts)
      BY <2>1, ContextFields DEF PriceInv
    <3>2. QED
      BY <2>1, <3>1, ContextFields DEF PriceInv, ToSet
  <2>5. \A j \in Jobs :
          /\ job[j].status \in Statuses /\ job[j].step \in DOMAIN Steps
          /\ job[j].collected \in 0 .. Cardinality(Indices)
    BY <2>1, StepTypes DEF Steps
  <2>6. \A j \in Jobs :
          /\ DOMAIN fetched[j] \subseteq Indices
          /\ \A i \in DOMAIN fetched[j] : fetched[j][i] \in Reading \cup {Failed}
    BY <2>1 DEF PriceInv, FetchedInv, GoodReading
  <2>7. QED
    BY <2>2, <2>3, <2>4, <2>5, <2>6 DEF TypeOK
<1>4. QED
  BY <1>1, <1>2, <1>3, PTL DEF Spec

\* No price of a session that has not settled is ever stored as a daily close, at
\* whatever instant a job starts, is queued again or is answered
\* (latest_completed_session, MarketIndexProvider._read_target_session).
THEOREM StoredPricesAreFinal == Spec => []PricesAreFinal
<1>1. Init => PriceInv
  BY PriceInit
<1>2. PriceInv /\ [Next]_vars => PriceInv'
  BY PriceStep
<1>3. PriceInv => PricesAreFinal
  BY DEF PriceInv, RowsInv, GoodReading, PricesAreFinal
<1>4. QED
  BY <1>1, <1>2, <1>3, PTL DEF Spec
-----------------------------------------------------------------------------
(***************************************************************************)
(* The pages.                                                              *)
(***************************************************************************)
Sources == {rows[i].reading.source : i \in Indices}

\* From COLLECT_MARKET_INDICES on, until another job of the date writes over them, the
\* rows are those of the job: with the session it expects unless it is partial, and
\* with the oldest date in its context when it has collected every index.
CollectedRows(j) ==
  job[j].step > 2 /\ j \notin overtaken =>
    /\ ~job[j].partial =>
         DOMAIN rows = Indices /\ \A i \in Indices : rows[i].reading.source = Expected(j)
    /\ job[j].collected = Cardinality(Indices) =>
         /\ DOMAIN rows = Indices
         /\ contexts[ContextOf(j)].actual = Min(Sources) /\ Min(Sources) # NoDate

\* A page is the last thing its job does to it.
PageOK(j) ==
  /\ job[j].step = 4
  /\ page[j].status = "READY" /\ ~page[j].overtaken =>
       /\ DOMAIN page[j].rows = Indices
       /\ \A i \in Indices : page[j].rows[i].reading.source = page[j].expected
  /\ ~page[j].overtaken /\ job[j].collected = Cardinality(Indices) =>
       (IF page[j].note = NoDate THEN page[j].expected ELSE page[j].note)
         = Min({page[j].rows[i].reading.source : i \in Indices})

PageInv == (\A j \in Jobs : CollectedRows(j)) /\ \A j \in DOMAIN page : PageOK(j)

LEMMA CollectedKept ==
  ASSUME NEW j \in Jobs, CollectedRows(j),
         job'[j].step > 2 => job[j].step > 2 /\ job'[j].partial = job[j].partial
                             /\ job'[j].collected = job[j].collected,
         j \notin overtaken' => j \notin overtaken,
         job[j].step > 2 => /\ Expected(j)' = Expected(j)
                            /\ contexts'[ContextOf(j)'].actual = contexts[ContextOf(j)].actual,
         DOMAIN rows' = DOMAIN rows, \A i \in DOMAIN rows : rows'[i] = rows[i]
  PROVE  CollectedRows(j)'
<1>1. SUFFICES ASSUME job'[j].step > 2, j \notin overtaken'
               PROVE  /\ ~job'[j].partial =>
                           /\ DOMAIN rows' = Indices
                           /\ \A i \in Indices : rows'[i].reading.source = Expected(j)'
                      /\ job'[j].collected = Cardinality(Indices) =>
                           /\ DOMAIN rows' = Indices
                           /\ contexts'[ContextOf(j)'].actual = Min(Sources')
                           /\ Min(Sources') # NoDate
  BY DEF CollectedRows
<1>2. /\ ~job[j].partial =>
           DOMAIN rows = Indices /\ \A i \in Indices : rows[i].reading.source = Expected(j)
      /\ job[j].collected = Cardinality(Indices) =>
           /\ DOMAIN rows = Indices
           /\ contexts[ContextOf(j)].actual = Min(Sources) /\ Min(Sources) # NoDate
  BY <1>1 DEF CollectedRows
<1>3. DOMAIN rows = Indices => Sources' = Sources
  BY DEF Sources
<1>4. QED
  BY <1>1, <1>2, <1>3

\* A step that touches neither rows nor contexts nor what jobs have collected.
LEMMA CollectedSame ==
  ASSUME \A j \in Jobs : CollectedRows(j), UNCHANGED <<rows, contexts, overtaken>>,
         \A j \in Jobs : job'[j].step > 2 =>
           job[j].step > 2 /\ job'[j].partial = job[j].partial
           /\ job'[j].collected = job[j].collected
  PROVE  \A j \in Jobs : CollectedRows(j)'
<1>1. SUFFICES ASSUME NEW j \in Jobs PROVE CollectedRows(j)'
  OBVIOUS
<1>2. Expected(j)' = Expected(j) /\ ContextOf(j)' = ContextOf(j)
  BY DEF Expected, ContextOf, SelectInSeq
<1>3. QED
  BY <1>2, CollectedKept

LEMMA PagesSame ==
  ASSUME \A j \in DOMAIN page : PageOK(j), UNCHANGED page,
         \A j \in DOMAIN page : job[j].step = 4 =>
           job'[j].step = 4 /\ job'[j].collected = job[j].collected
  PROVE  \A j \in DOMAIN page' : PageOK(j)'
BY DEF PageOK

LEMMA PreparePages ==
  ASSUME PriceInv, PageInv, NEW j \in Jobs, Prepare(j)
  PROVE  PageInv'
<1>1. Shape /\ ContextInv /\ job[j].step = 1
  <2>1. job[j].step \in 1 .. 4 /\ Steps[job[j].step] = "PREPARE_MARKET_CONTEXTS"
    BY StepTypes DEF Prepare
  <2>2. QED
    BY <2>1 DEF Steps, PriceInv
<1>2. job'[j].step = 2 /\ \A k \in Jobs : k # j => job'[k] = job[k]
  BY <1>1, AdvancedRow DEF Prepare
<1>3. /\ \A k \in 1 .. Len(contexts) : contexts'[k] = contexts[k]
      /\ \A i \in Jobs : i # j => OfJob(i)' = OfJob(i)
  BY PrepareContexts
<1>4. ASSUME NEW k \in Jobs PROVE CollectedRows(k)'
  <2>1. CollectedRows(k) /\ UNCHANGED <<rows, overtaken>>
    BY DEF PageInv, Prepare
  <2>2. job'[k].step > 2 => k # j /\ job'[k] = job[k]
    BY <1>2
  <2>3. ASSUME job[k].step > 2
        PROVE  /\ Expected(k)' = Expected(k)
               /\ contexts'[ContextOf(k)'].actual = contexts[ContextOf(k)].actual
    <3>1. k # j
      BY <1>1, <2>3
    <3>2. job[k].step > 1
      BY <1>1, <2>3, ContextFields
    <3>3. \A n \in OfJob(k) : contexts'[n].expected = contexts[n].expected
      BY <1>3 DEF OfJob
    <3>4. ContextOf(k)' = ContextOf(k) /\ Expected(k)' = Expected(k)
      BY <1>1, <1>3, <3>1, <3>2, <3>3, ContextKept
    <3>5. contexts'[ContextOf(k)] = contexts[ContextOf(k)]
      BY <1>1, <1>3, <3>2, PreparedContext
    <3>6. QED
      BY <3>4, <3>5
  <2>4. QED
    BY <2>1, <2>2, <2>3, CollectedKept
<1>5. \A k \in DOMAIN page' : PageOK(k)'
  <2>1. UNCHANGED page /\ DOMAIN page \subseteq Jobs
    BY <1>1 DEF Prepare, Shape
  <2>2. QED
    BY <1>1, <1>2, <2>1, PagesSame DEF PageInv
<1>6. QED
  BY <1>4, <1>5 DEF PageInv

\* The rows a job leaves when it has accepted every index.
LEMMA CollectedAll ==
  ASSUME PriceInv, NEW j \in Jobs, Collect(j), Accepted(j) = Indices
  PROVE  /\ DOMAIN rows' = Indices
         /\ \A i \in Indices : rows'[i].reading = fetched[j][i]
         /\ ActualSource(j) = Min(Sources') /\ Min(Sources') # NoDate
<1>1. rows' = Upserted(j) /\ DOMAIN rows \subseteq Indices
  BY DEF Collect, PriceInv, RowsInv
<1>2. DOMAIN rows' = Indices
      /\ \A i \in Indices : rows'[i] = [reading |-> fetched[j][i], expected |-> Expected(j)]
  BY <1>1 DEF Upserted
<1>3. \A i \in Indices : rows'[i].reading = fetched[j][i]
  BY <1>2
<1>4. PICK sources : sources = {fetched[j][i].source : i \in Indices}
  OBVIOUS
<1>5. Sources' = sources
  BY <1>3, <1>4 DEF Sources
<1>6. ActualSource(j) = Min(sources)
  BY <1>4, Parameters DEF ActualSource
<1>7. sources \in SUBSET (0 .. LastInstant \div 3) /\ sources # {}
  <2>1. \A i \in Indices : fetched[j][i].source \in Sessions
    BY AcceptedIsGood DEF GoodReading, Reading
  <2>2. QED
    BY <1>4, <2>1, SessionsBound, Parameters
<1>8. Min(sources) \in Nat
  BY <1>7, Least, SessionsBound
<1>9. QED
  BY <1>2, <1>3, <1>5, <1>6, <1>8 DEF NoDate

LEMMA CollectPages ==
  ASSUME PriceInv, PageInv, NEW j \in Jobs, Collect(j)
  PROVE  PageInv'
<1>1. Shape /\ ContextInv
  BY DEF PriceInv
<1>2. /\ Accepted(j) \in SUBSET Indices /\ job[j].step = 2
      /\ Expected(j) \in Sessions
      /\ \A i \in Accepted(j) : GoodReading(fetched[j][i], Expected(j))
      /\ Cardinality(Accepted(j)) = Cardinality(Indices) => Accepted(j) = Indices
  BY AcceptedIsGood
<1>3. /\ job'[j].partial = IsPartial(j) /\ job'[j].collected = Cardinality(Accepted(j))
      /\ \A k \in Jobs : k # j => job'[k] = job[k]
  BY CollectedRow
<1>4. /\ ContextOf(j) \in 1 .. Len(contexts) /\ contexts[ContextOf(j)].job = j
      /\ contexts'[ContextOf(j)].actual = ActualSource(j)
      /\ \A k \in 1 .. Len(contexts) :
           /\ contexts'[k].expected = contexts[k].expected
           /\ k # ContextOf(j) => contexts'[k] = contexts[k]
      /\ \A i \in Jobs : OfJob(i)' = OfJob(i)
  BY CollectContexts
<1>5. ASSUME NEW k \in Jobs, job[k].step > 1
      PROVE  ContextOf(k)' = ContextOf(k) /\ Expected(k)' = Expected(k)
  <2>1. \A n \in OfJob(k) : contexts'[n].expected = contexts[n].expected
    BY <1>4 DEF OfJob
  <2>2. QED
    BY <1>1, <1>4, <1>5, <2>1, ContextKept
<1>6. CollectedRows(j)'
  <2>1. ContextOf(j)' = ContextOf(j) /\ Expected(j)' = Expected(j)
    BY <1>2, <1>5
  <2>2. ASSUME ~job'[j].partial
        PROVE  DOMAIN rows' = Indices /\ \A i \in Indices : rows'[i].reading.source = Expected(j)
    <3>1. Accepted(j) = Indices /\ \A i \in Indices : ~(fetched[j][i].source < Expected(j))
      BY <1>3, <2>2 DEF IsPartial
    <3>2. \A i \in Indices : fetched[j][i].source = Expected(j)
      <4>1. \A i \in Indices : /\ fetched[j][i].source \in Sessions
                               /\ fetched[j][i].source <= Expected(j)
        BY <1>2, <3>1 DEF GoodReading, Reading
      <4>2. QED
        BY <1>2, <3>1, <4>1, SessionsBound
    <3>3. QED
      BY <3>1, <3>2, CollectedAll
  <2>3. ASSUME job'[j].collected = Cardinality(Indices)
        PROVE  /\ DOMAIN rows' = Indices
               /\ contexts'[ContextOf(j)].actual = Min(Sources') /\ Min(Sources') # NoDate
    BY <1>2, <1>3, <1>4, <2>3, CollectedAll
  <2>4. QED
    BY <2>1, <2>2, <2>3 DEF CollectedRows
<1>7. ASSUME NEW k \in Jobs, k # j PROVE CollectedRows(k)'
  <2>1. CollectedRows(k)
    BY DEF PageInv
  <2>2. CASE Accepted(j) # {}
    <3>1. k \in overtaken'
      BY <1>7, <2>2 DEF Collect
    <3>2. QED
      BY <3>1 DEF CollectedRows
  <2>3. CASE Accepted(j) = {}
    <3>1. DOMAIN rows' = DOMAIN rows /\ \A i \in DOMAIN rows : rows'[i] = rows[i]
      BY <2>3 DEF Collect, Upserted
    <3>2. k \notin overtaken' => k \notin overtaken
      BY <1>7, <2>3 DEF Collect
    <3>3. ASSUME job[k].step > 2
          PROVE  /\ Expected(k)' = Expected(k)
                 /\ contexts'[ContextOf(k)'].actual = contexts[ContextOf(k)].actual
      <4>1. job[k].step > 1
        BY <1>1, <3>3, ContextFields
      <4>2. ContextOf(k) \in 1 .. Len(contexts) /\ contexts[ContextOf(k)].job = k
        BY <1>1, <4>1, PreparedContext
      <4>3. contexts'[ContextOf(k)] = contexts[ContextOf(k)]
        BY <1>4, <1>7, <4>2
      <4>4. QED
        BY <1>5, <4>1, <4>3
    <3>4. QED
      BY <1>3, <1>7, <2>1, <3>1, <3>2, <3>3, CollectedKept
  <2>4. QED
    BY <2>2, <2>3
<1>8. \A k \in DOMAIN page' : PageOK(k)'
  <2>1. UNCHANGED page /\ DOMAIN page \subseteq Jobs
    BY <1>1 DEF Collect, Shape
  <2>2. QED
    BY <1>2, <1>3, <2>1, PagesSame DEF PageInv
<1>9. QED
  BY <1>6, <1>7, <1>8 DEF PageInv

LEMMA BuildPagePages ==
  ASSUME PriceInv, PageInv, NEW j \in Jobs, BuildPage(j)
  PROVE  PageInv'
<1>1. /\ job[j].step = 3 /\ job'[j].step = 4
      /\ job'[j].collected = job[j].collected
      /\ \A k \in Jobs : k # j => job'[k] = job[k]
  BY BuildPageStep
<1>2. \A k \in Jobs : CollectedRows(k)'
  <2>1. job'[j].partial = job[j].partial
    BY <1>1, AdvancedRow DEF BuildPage
  <2>2. QED
    BY <1>1, <2>1, CollectedSame DEF PageInv, BuildPage
<1>3. PICK context : context = contexts[ContextOf(j)]
  OBVIOUS
<1>4. PICK new : new = [status |-> IF job[j].partial THEN "PARTIAL" ELSE "READY",
                        expected |-> context.expected, note |-> Note(context),
                        rows |-> rows, overtaken |-> j \in overtaken]
  OBVIOUS
<1>5. page' = Put(page, j, new)
  BY <1>3, <1>4 DEF BuildPage
<1>6. DOMAIN page' = DOMAIN page \cup {j}
      /\ \A k \in DOMAIN page' : page'[k] = IF k = j THEN new ELSE page[k]
  BY <1>5 DEF Put
<1>7. /\ new.status = "READY" => ~job[j].partial
      /\ new.expected = Expected(j) /\ new.note = Note(context) /\ new.rows = rows
      /\ ~new.overtaken => j \notin overtaken
  BY <1>3, <1>4 DEF Expected
<1>8. PageOK(j)'
  <2>1. page'[j] = new
    BY <1>6
  <2>2. CollectedRows(j) /\ job[j].step > 2
    BY <1>1 DEF PageInv
  <2>3. ASSUME new.status = "READY", ~new.overtaken
        PROVE  /\ DOMAIN new.rows = Indices
               /\ \A i \in Indices : new.rows[i].reading.source = new.expected
    BY <1>7, <2>2, <2>3 DEF CollectedRows
  <2>4. ASSUME ~new.overtaken, job[j].collected = Cardinality(Indices)
        PROVE  (IF new.note = NoDate THEN new.expected ELSE new.note)
                 = Min({new.rows[i].reading.source : i \in Indices})
    <3>1. context.actual = Min(Sources) /\ Min(Sources) # NoDate
      BY <1>3, <1>7, <2>2, <2>4 DEF CollectedRows
    <3>2. {new.rows[i].reading.source : i \in Indices} = Sources
      BY <1>7 DEF Sources
    <3>3. new.expected = context.expected
      BY <1>4
    <3>4. CASE context.actual = context.expected
      <4>1. new.note = NoDate
        BY <1>7, <3>4 DEF Note
      <4>2. QED
        BY <3>1, <3>2, <3>3, <3>4, <4>1
    <3>5. CASE context.actual # context.expected
      <4>1. new.note = context.actual
        BY <1>7, <3>1, <3>5 DEF Note
      <4>2. QED
        BY <3>1, <3>2, <4>1
    <3>6. QED
      BY <3>4, <3>5
  <2>5. QED
    BY <1>1, <2>1, <2>3, <2>4 DEF PageOK
<1>9. ASSUME NEW k \in DOMAIN page', k # j PROVE PageOK(k)'
  <2>1. k \in DOMAIN page /\ page'[k] = page[k]
    BY <1>6, <1>9
  <2>2. k \in Jobs
    BY <2>1 DEF PriceInv, Shape
  <2>3. PageOK(k) /\ job'[k] = job[k]
    BY <1>1, <1>9, <2>1, <2>2 DEF PageInv
  <2>4. QED
    BY <2>1, <2>3 DEF PageOK
<1>10. QED
  BY <1>2, <1>8, <1>9 DEF PageInv

LEMMA PagesUntouched ==
  ASSUME PriceInv, PageInv, UNCHANGED <<rows, contexts, overtaken, page>>,
         \A j \in Jobs : job'[j].step = job[j].step /\ job'[j].partial = job[j].partial
                         /\ job'[j].collected = job[j].collected
  PROVE  PageInv'
<1>1. \A j \in Jobs : CollectedRows(j)'
  BY CollectedSame DEF PageInv
<1>2. DOMAIN page \subseteq Jobs
  BY DEF PriceInv, Shape
<1>3. \A j \in DOMAIN page' : PageOK(j)'
  BY <1>2, PagesSame DEF PageInv
<1>4. QED
  BY <1>1, <1>3 DEF PageInv

LEMMA PageStep ==
  ASSUME PriceInv, PageInv, [Next]_vars
  PROVE  PageInv'
<1>1. CASE Tick \/ (\E j \in Jobs, i \in Indices : Fetch(j, i)) \/ UNCHANGED vars
  BY <1>1, PagesUntouched DEF Tick, Fetch, vars
<1>2. ASSUME NEW j \in Jobs, Start(j) \/ Fail(j) \/ Replay(j) \/ Finalize(j) PROVE PageInv'
  <2>1. UNCHANGED <<rows, contexts, overtaken, page>>
    BY <1>2 DEF Start, Fail, Replay, Finalize
  <2>2. QED
    BY <1>2, <2>1, StatusStep, PagesUntouched
<1>3. ASSUME NEW j \in Jobs, Prepare(j) PROVE PageInv'
  BY <1>3, PreparePages
<1>4. ASSUME NEW j \in Jobs, Collect(j) PROVE PageInv'
  BY <1>4, CollectPages
<1>5. ASSUME NEW j \in Jobs, BuildPage(j) PROVE PageInv'
  BY <1>5, BuildPagePages
<1>6. QED
  BY <1>1, <1>2, <1>3, <1>4, <1>5 DEF Next

\* The inductive invariant of the pages: the rows of a date are those of the last job
\* that collected any, for as long as no other one has.
THEOREM PageInvariant == Spec => [](PriceInv /\ PageInv)
<1>1. ASSUME Init PROVE PriceInv /\ PageInv
  <2>1. (\A j \in Jobs : job[j].step = 1) /\ DOMAIN page = {}
    BY <1>1 DEF Init
  <2>2. QED
    BY <1>1, <2>1, PriceInit DEF PageInv, CollectedRows
<1>2. PriceInv /\ PageInv /\ [Next]_vars => (PriceInv /\ PageInv)'
  BY PriceStep, PageStep
<1>3. QED
  BY <1>1, <1>2, PTL DEF Spec

\* README.md:104: a READY page has every index with the price of the session it is for,
\* unless another job has written over the rows (CollectMarketIndicesStep,
\* BuildPageSnapshotStep).
THEOREM ReadyMeansCurrent == Spec => []ReadyPagesAreCurrent
<1>1. PageInv => ReadyPagesAreCurrent
  BY DEF PageInv, PageOK, ReadyPagesAreCurrent
<1>2. QED
  BY <1>1, PageInvariant, PTL

\* The date of a market's note is that of the oldest price shown
\* (_market_partial_message, set_actual_index_source_date).
THEOREM NotesAreOfTheOldest == Spec => []NotesTellTheOldest
<1>1. PageInv => NotesTellTheOldest
  BY DEF PageInv, PageOK, NotesTellTheOldest
<1>2. QED
  BY <1>1, PageInvariant, PTL
=============================================================================
