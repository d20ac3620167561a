------------------------- MODULE NewsCoverageProofs -------------------------
(***************************************************************************)
(* Theorems about NewsCoverage, for every set of markets and every choice  *)
(* of the intervals and limits.                                            *)
(***************************************************************************)
EXTENDS NewsCoverage, FiniteSetTheorems, TLAPS

ContextRow == [date : Nat, stage : Stages, window : [Markets -> Windows]]
WindowOK(w) == 0 <= w.start /\ w.start <= w.end /\ w.end <= now

\* A context is being read only while its job is in DEDUPE_ARTICLES, and its windows
\* count as complete only once they were judged.
StageInv ==
  /\ reading # 0 => contexts[reading].stage = "reading"
  /\ \A i \in 1 .. Len(contexts), m \in Markets :
       contexts[i].window[m].complete => contexts[i].stage = "judged"

PlaceInv == TypeOK /\ StageInv
-----------------------------------------------------------------------------
(***************************************************************************)
(* Arithmetic of slots and days.                                           *)
(***************************************************************************)
LEMMA Division ==
  ASSUME NEW n \in Nat, NEW l \in Nat \ {0}
  PROVE  n % l \in 0 .. l - 1 /\ n \div l \in Nat /\ n = l * (n \div l) + (n % l)
OBVIOUS

LEMMA DivisionIsUnique ==
  ASSUME NEW n \in Nat, NEW l \in Nat \ {0}, NEW q \in Nat, NEW r \in 0 .. l - 1,
         n = l * q + r
  PROVE  n % l = r
OBVIOUS

\* The multiple of l at or before n is the same at n + 1, unless n + 1 is one.
LEMMA NextRemainder ==
  ASSUME NEW n \in Nat, NEW l \in Nat \ {0}, (n + 1) % l # 0
  PROVE  (n + 1) % l = (n % l) + 1
<1>1. PICK q \in Nat, r \in 0 .. l - 1 : n = l * q + r /\ r = n % l
  BY Division
<1>2. CASE r + 1 < l
  <2>1. r + 1 \in 0 .. l - 1 /\ n + 1 = l * q + (r + 1) /\ n + 1 \in Nat
    BY <1>1, <1>2
  <2>2. (n + 1) % l = r + 1
    BY <2>1, DivisionIsUnique
  <2>3. QED
    BY <1>1, <2>2
<1>3. CASE r + 1 = l
  <2>1. l * (q + 1) = l * q + l
    OBVIOUS
  <2>2. n + 1 = l * (q + 1) + 0 /\ q + 1 \in Nat /\ 0 \in 0 .. l - 1 /\ n + 1 \in Nat
    BY <1>1, <1>3, <2>1
  <2>3. (n + 1) % l = 0
    BY <2>2, DivisionIsUnique
  <2>4. QED
    BY <2>3
<1>4. QED
  BY <1>1, <1>2, <1>3

\* Rounding down is monotone.
LEMMA RoundingDown ==
  ASSUME NEW a \in Nat, NEW b \in Nat, NEW l \in Nat \ {0}, a <= b
  PROVE  a - (a % l) <= b - (b % l)
<1>1. PICK q \in Nat, r \in 0 .. l - 1 : a = l * q + r /\ r = a % l
  BY Division
<1>2. PICK p \in Nat, s \in 0 .. l - 1 : b = l * p + s /\ s = b % l
  BY Division
<1>3. CASE q <= p
  <2>1. l * q <= l * p
    BY <1>3
  <2>2. QED
    BY <1>1, <1>2, <2>1
<1>4. CASE p < q
  <2>1. l * p + l <= l * q
    BY <1>4
  <2>2. QED
    BY <1>1, <1>2, <2>1
<1>5. QED
  BY <1>3, <1>4

\* The midnight after a past date is past.
LEMMA PastMidnight ==
  ASSUME NEW d \in Nat, NEW n \in Nat, NEW l \in Nat \ {0}, d < n \div l
  PROVE  (d + 1) * l <= n /\ l <= (d + 1) * l
OBVIOUS

\* A bounded set of natural numbers has a greatest element.
LEMMA GreatestElement ==
  ASSUME NEW n \in Nat, NEW S \in SUBSET (0 .. n), S # {}
  PROVE  Max(S) \in S /\ \A x \in S : x <= Max(S)
<1> DEFINE above == {x .. n : x \in S}
<1>1. above \subseteq FiniteSubsetsOf(Nat) /\ above # {}
  <2>1. \A x \in S : IsFiniteSet(x .. n) /\ x .. n \subseteq Nat
    BY FS_Interval
  <2>2. QED
    BY <2>1 DEF FiniteSubsetsOf
<1>2. PICK least \in above : \A set \in above : ~ (<<set, least>> \in StrictSubsetOrdering(Nat))
  BY <1>1, FS_StrictSubsetOrderingWellFounded, WFMin
<1>3. PICK m \in S : least = m .. n
  OBVIOUS
<1>4. ASSUME NEW x \in S PROVE m >= x
  <2>1. SUFFICES ASSUME m < x PROVE FALSE
    OBVIOUS
  <2>2. x .. n \subseteq m .. n /\ m \in m .. n /\ m \notin x .. n
    BY <2>1
  <2>3. x .. n \in SUBSET Nat /\ m .. n \in SUBSET Nat
    OBVIOUS
  <2>4. <<x .. n, m .. n>> \in StrictSubsetOrdering(Nat)
    BY <2>2, <2>3 DEF StrictSubsetOrdering
  <2>5. QED
    BY <1>2, <1>3, <2>4
<1>5. PICK max : max = Max(S)
  OBVIOUS
<1>6. max \in S /\ \A x \in S : max >= x
  BY <1>4, <1>5 DEF Max
<1>7. QED
  BY <1>5, <1>6

LEMMA GreaterOfTwo ==
  ASSUME NEW a \in Int, NEW b \in Int
  PROVE  Max({a, b}) = IF a >= b THEN a ELSE b
<1>1. PICK max : max = Max({a, b})
  OBVIOUS
<1>2. \E x \in {a, b} : \A y \in {a, b} : x >= y
  <2>1. CASE a >= b
    BY <2>1
  <2>2. CASE b >= a
    BY <2>2
  <2>3. QED
    BY <2>1, <2>2
<1>3. max \in {a, b} /\ \A y \in {a, b} : max >= y
  BY <1>1, <1>2 DEF Max
<1>4. QED
  BY <1>1, <1>3
-----------------------------------------------------------------------------
(***************************************************************************)
(* Contexts and windows.                                                   *)
(***************************************************************************)
LEMMA Parameters ==
  /\ Overlap \in Nat /\ CatchupMax \in Nat /\ SlotLength \in Nat \ {0}
  /\ MaxLookback \in Nat \ {0} /\ FirstWindow \in Nat \ {0} /\ Day \in Nat \ {0}
  /\ Start \in Nat /\ MaxNow \in Nat
  /\ FirstWindow <= MaxLookback /\ FirstWindow <= Day /\ FirstWindow <= Start
  /\ Start <= MaxNow
BY NewsCoverageAssumption

LEMMA ContextFields ==
  ASSUME TypeOK
  PROVE  /\ contexts \in Seq(ContextRow) /\ Len(contexts) \in Nat
         /\ now \in Nat /\ Start <= now
         /\ \A i \in 1 .. Len(contexts) :
              /\ contexts[i] \in ContextRow /\ contexts[i].stage \in Stages
              /\ contexts[i].date \in Nat /\ contexts[i].window \in [Markets -> Windows]
              /\ \A m \in Markets :
                   LET w == contexts[i].window[m]
                   IN  w \in Windows /\ WindowOK(w) /\ w.start \in 0 .. now /\ w.end \in 0 .. now
                       /\ w.complete \in BOOLEAN
<1>1. contexts \in Seq(ContextRow) /\ Len(contexts) \in Nat
  BY DEF TypeOK, ContextRow
<1>2. now \in Nat /\ Start <= now
  BY NewsCoverageAssumption DEF TypeOK
<1>3. ASSUME NEW i \in 1 .. Len(contexts)
      PROVE  /\ contexts[i] \in ContextRow /\ contexts[i].stage \in Stages
             /\ contexts[i].date \in Nat /\ contexts[i].window \in [Markets -> Windows]
  <2>1. contexts[i] \in ContextRow
    BY <1>1
  <2>2. QED
    BY <2>1 DEF ContextRow
<1>4. ASSUME NEW i \in 1 .. Len(contexts), NEW m \in Markets, NEW w, w = contexts[i].window[m]
      PROVE  w \in Windows /\ WindowOK(w) /\ w.start \in 0 .. now /\ w.end \in 0 .. now
             /\ w.complete \in BOOLEAN
  <2>1. w \in Windows
    BY <1>3, <1>4
  <2>2. w.start \in Int /\ w.end \in Nat /\ w.complete \in BOOLEAN
    BY <2>1 DEF Windows
  <2>3. 0 <= w.start /\ w.start <= w.end /\ w.end <= now
    BY <1>4 DEF TypeOK
  <2>4. QED
    BY <1>2, <2>1, <2>2, <2>3 DEF WindowOK
<1>5. QED
  BY <1>1, <1>2, <1>3, <1>4

LEMMA WatermarkFields ==
  ASSUME TypeOK, NEW m \in Markets, NEW asOf \in Nat, CompleteEnds(m, asOf) # {}
  PROVE  /\ CompleteEnds(m, asOf) \in SUBSET (0 .. asOf)
         /\ Watermark(m, asOf) \in CompleteEnds(m, asOf)
         /\ \A e \in CompleteEnds(m, asOf) : e <= Watermark(m, asOf)
<1>1. CompleteEnds(m, asOf) \in SUBSET (0 .. asOf)
  BY ContextFields DEF CompleteEnds
<1>2. QED
  BY <1>1, GreatestElement DEF Watermark

\* A new window ends where it is asked to and is at most the lookback long.
LEMMA NewWindowFields ==
  ASSUME TypeOK, NEW m \in Markets, NEW asOf \in Nat, FirstWindow <= asOf
  PROVE  /\ NewWindow(m, asOf) \in Windows
         /\ NewWindow(m, asOf).start \in 0 .. asOf /\ NewWindow(m, asOf).end = asOf
         /\ NewWindow(m, asOf).complete = FALSE
         /\ asOf - MaxLookback <= NewWindow(m, asOf).start
<1>1. PICK start : start = IF CompleteEnds(m, asOf) = {} THEN asOf - FirstWindow
                           ELSE Max({Watermark(m, asOf), asOf - MaxLookback})
  OBVIOUS
<1>2. /\ MaxLookback \in Nat /\ FirstWindow \in Nat /\ FirstWindow <= MaxLookback
  BY Parameters
<1>3. start \in 0 .. asOf /\ asOf - MaxLookback <= start
  <2>1. CASE CompleteEnds(m, asOf) = {}
    BY <1>1, <1>2, <2>1
  <2>2. CASE CompleteEnds(m, asOf) # {}
    <3>1. PICK mark \in 0 .. asOf : mark = Watermark(m, asOf)
      BY <2>2, WatermarkFields
    <3>2. start = Max({mark, asOf - MaxLookback})
      BY <1>1, <2>2, <3>1
    <3>3. start = IF mark >= asOf - MaxLookback THEN mark ELSE asOf - MaxLookback
      BY <1>2, <3>2, GreaterOfTwo
    <3>4. QED
      BY <1>2, <3>3
  <2>3. QED
    BY <2>1, <2>2
<1>4. NewWindow(m, asOf) = [start |-> start, end |-> asOf, complete |-> FALSE]
  BY <1>1 DEF NewWindow
<1>5. QED
  BY <1>3, <1>4 DEF Windows

\* The cutoff of a date is past and has a first window before it.
LEMMA CutoffFields ==
  ASSUME TypeOK, NEW date \in 0 .. Today
  PROVE  Cutoff(date) \in Nat /\ FirstWindow <= Cutoff(date) /\ Cutoff(date) <= now
<1>1. now \in Nat /\ Start <= now /\ Day \in Nat \ {0} /\ Today \in Nat
      /\ FirstWindow <= Start /\ FirstWindow <= Day /\ FirstWindow \in Nat
  <2>1. now \in Nat /\ Start <= now
    BY ContextFields
  <2>2. Today \in Nat
    BY <2>1, Parameters, Division DEF Today
  <2>3. QED
    BY <2>1, <2>2, Parameters
<1>2. CASE date >= Today
  BY <1>1, <1>2, NewsCoverageAssumption DEF Cutoff
<1>3. CASE ~(date >= Today)
  <2>1. date \in Nat /\ date < now \div Day
    BY <1>1, <1>3 DEF Today
  <2>2. (date + 1) * Day <= now /\ Day <= (date + 1) * Day /\ (date + 1) * Day \in Nat
    BY <1>1, <2>1, PastMidnight
  <2>3. Cutoff(date) = (date + 1) * Day
    BY <1>3 DEF Cutoff
  <2>4. QED
    BY <1>1, <2>2, <2>3
<1>4. QED
  BY <1>2, <1>3
-----------------------------------------------------------------------------
(***************************************************************************)
(* Types and stages.                                                       *)
(***************************************************************************)
\* What a step does that leaves the contexts alone and does not turn the clock back.
LEMMA ContextsStay ==
  ASSUME PlaceInv, UNCHANGED <<contexts, reading>>, now' \in Nat, now <= now'
  PROVE  /\ contexts' \in Seq(ContextRow) /\ StageInv'
         /\ \A i \in 1 .. Len(contexts'), m \in Markets :
              LET w == contexts'[i].window[m] IN 0 <= w.start /\ w.start <= w.end /\ w.end <= now'
<1>1. TypeOK
  BY DEF PlaceInv
<1>2. \A i \in 1 .. Len(contexts), m \in Markets :
        LET w == contexts[i].window[m]
        IN  0 <= w.start /\ w.start <= w.end /\ w.end <= now /\ w.end \in Nat /\ now \in Nat
  BY <1>1, ContextFields DEF WindowOK
<1>3. \A i \in 1 .. Len(contexts), m \in Markets :
        LET w == contexts[i].window[m] IN 0 <= w.start /\ w.start <= w.end /\ w.end <= now'
  BY <1>2
<1>4. contexts \in Seq(ContextRow)
  BY <1>1, ContextFields
<1>5. StageInv'
  BY DEF PlaceInv, StageInv
<1>6. QED
  BY <1>3, <1>4, <1>5

\* A context moves to another stage and keeps its windows, but for their verdict.
SameWindow(v, w) == v.start = w.start /\ v.end = w.end

LEMMA ContextMoves ==
  ASSUME PlaceInv, NEW i \in 1 .. Len(contexts), NEW row \in ContextRow,
         contexts' = [contexts EXCEPT ![i] = row], UNCHANGED now,
         \A m \in Markets : SameWindow(row.window[m], contexts[i].window[m])
  PROVE  /\ contexts' \in Seq(ContextRow) /\ Len(contexts') = Len(contexts)
         /\ \A k \in 1 .. Len(contexts) : contexts'[k] = IF k = i THEN row ELSE contexts[k]
         /\ \A k \in 1 .. Len(contexts'), m \in Markets :
              LET w == contexts'[k].window[m] IN 0 <= w.start /\ w.start <= w.end /\ w.end <= now'
<1>1. contexts \in Seq(ContextRow) /\ Len(contexts) \in Nat
  BY ContextFields DEF PlaceInv
<1>2. contexts' \in Seq(ContextRow) /\ Len(contexts') = Len(contexts)
      /\ \A k \in 1 .. Len(contexts) : contexts'[k] = IF k = i THEN row ELSE contexts[k]
  BY <1>1
<1>3. \A k \in 1 .. Len(contexts), m \in Markets :
        SameWindow(contexts'[k].window[m], contexts[k].window[m])
  BY <1>2 DEF SameWindow
<1>4. \A k \in 1 .. Len(contexts), m \in Markets : WindowOK(contexts[k].window[m])
  BY ContextFields DEF PlaceInv
<1>5. \A k \in 1 .. Len(contexts'), m \in Markets :
        LET w == contexts'[k].window[m] IN 0 <= w.start /\ w.start <= w.end /\ w.end <= now'
  BY <1>2, <1>3, <1>4 DEF SameWindow, WindowOK
<1>6. QED
  BY <1>2, <1>5

\* Requests for slots, collections and the clock.
JobType == [SlotEnds -> {"none", "PENDING", "SUCCESS", "PARTIAL", "FAILED"}]
KeywordType == [SlotEnds -> [Markets -> {"none", "complete", "incomplete"}]]

LEMMA SlotStep ==
  ASSUME PlaceInv, UNCHANGED <<contexts, reading, read, shown>>,
         now' \in Start .. MaxNow, now <= now', job' \in JobType, keywords' \in KeywordType,
         raw' \in [Markets -> SUBSET Ticks], caughtUp' \in BOOLEAN
  PROVE  PlaceInv'
<1>1. now' \in Nat
  BY Parameters
<1>2. /\ contexts' \in Seq(ContextRow) /\ StageInv'
      /\ \A i \in 1 .. Len(contexts'), m \in Markets :
           LET w == contexts'[i].window[m] IN 0 <= w.start /\ w.start <= w.end /\ w.end <= now'
  BY <1>1, ContextsStay
<1>3. TypeOK'
  BY <1>2 DEF PlaceInv, TypeOK, JobType, KeywordType, ContextRow
<1>4. QED
  BY <1>2, <1>3 DEF PlaceInv

LEMMA AskType ==
  ASSUME PlaceInv, NEW ends, Ask(ends)
  PROVE  job' \in JobType /\ \A e \in SlotEnds : job[e] # "none" \/ e \in ends => job'[e] # "none"
BY DEF PlaceInv, TypeOK, JobType, Ask

LEMMA RequestPlace ==
  ASSUME PlaceInv, RequestLatest \/ \E e \in SlotEnds : RequestSlot(e)
  PROVE  PlaceInv'
<1>1. now \in Start .. MaxNow /\ keywords \in KeywordType /\ raw \in [Markets -> SUBSET Ticks]
      /\ caughtUp \in BOOLEAN /\ now <= now
  BY Parameters DEF PlaceInv, TypeOK, KeywordType
<1>2. CASE RequestLatest
  BY <1>1, <1>2, AskType, SlotStep DEF RequestLatest
<1>3. ASSUME NEW e \in SlotEnds, RequestSlot(e) PROVE PlaceInv'
  BY <1>1, <1>3, AskType, SlotStep DEF RequestSlot
<1>4. QED
  BY <1>2, <1>3

LEMMA PersistedRaw ==
  ASSUME PlaceInv, NEW e \in SlotEnds, NEW covered \in SUBSET Markets, Persist(e, covered)
  PROVE  /\ raw' \in [Markets -> SUBSET Ticks]
         /\ \A m \in Markets : /\ raw[m] \subseteq raw'[m]
                               /\ m \in covered => QueryTicks(e) \subseteq raw'[m]
<1>1. QueryTicks(e) \subseteq Ticks
  BY DEF QueryTicks
<1>2. raw \in [Markets -> SUBSET Ticks]
  BY DEF PlaceInv, TypeOK
<1>3. QED
  BY <1>1, <1>2 DEF Persist

LEMMA CollectPlace ==
  ASSUME PlaceInv, NEW e \in SlotEnds, Collect(e) \/ CollectionStops(e)
  PROVE  PlaceInv'
<1>1. now \in Start .. MaxNow /\ caughtUp \in BOOLEAN /\ now <= now
      /\ job \in JobType /\ keywords \in KeywordType
  BY Parameters DEF PlaceInv, TypeOK, KeywordType, JobType
<1>2. CASE Collect(e)
  <2>1. PICK covered \in SUBSET Markets, authFailed \in BOOLEAN :
          /\ job' = [job EXCEPT ![e] = Outcome(covered, authFailed)]
          /\ keywords' = [keywords EXCEPT ![e] =
               [m \in Markets |-> IF m \in covered THEN "complete" ELSE "incomplete"]]
          /\ Persist(e, covered)
    BY <1>2 DEF Collect
  <2>2. job' \in JobType
    BY <1>1, <2>1 DEF JobType, Outcome
  <2>3. keywords' \in KeywordType
    BY <1>1, <2>1 DEF KeywordType
  <2>4. QED
    BY <1>1, <1>2, <2>1, <2>2, <2>3, PersistedRaw, SlotStep DEF Collect
<1>3. CASE CollectionStops(e)
  <2>1. PICK covered \in SUBSET Markets :
          /\ keywords' = [keywords EXCEPT ![e] =
               [m \in Markets |-> IF m \in covered THEN "complete" ELSE keywords[e][m]]]
          /\ Persist(e, covered)
    BY <1>3 DEF CollectionStops
  <2>2. job' \in JobType
    BY <1>1, <1>3 DEF CollectionStops, JobType
  <2>3. keywords' \in KeywordType
    BY <1>1, <2>1 DEF KeywordType
  <2>4. QED
    BY <1>1, <1>3, <2>1, <2>2, <2>3, PersistedRaw, SlotStep DEF CollectionStops
<1>4. QED
  BY <1>2, <1>3

LEMMA TickPlace ==
  ASSUME PlaceInv, Tick
  PROVE  PlaceInv'
<1>1. now' \in Start .. MaxNow /\ now <= now' /\ caughtUp' \in BOOLEAN
  BY Parameters DEF PlaceInv, TypeOK, Tick
<1>2. job' \in JobType /\ keywords' \in KeywordType /\ raw' \in [Markets -> SUBSET Ticks]
  BY DEF PlaceInv, TypeOK, Tick, JobType, KeywordType
<1>3. QED
  BY <1>1, <1>2, SlotStep DEF Tick

\* The windows of a new context are past and not yet judged.
LEMMA TemplateFields ==
  ASSUME TypeOK, NEW date, OfDate(date) # {}, NEW m \in Markets
  PROVE  /\ Template(date)[m] \in Windows /\ WindowOK(Template(date)[m])
         /\ Template(date)[m].complete = FALSE
<1>1. OfDate(date) \in SUBSET (0 .. Len(contexts)) /\ OfDate(date) \subseteq 1 .. Len(contexts)
      /\ Len(contexts) \in Nat
  BY ContextFields DEF OfDate
<1>2. PICK last \in 1 .. Len(contexts) : last = Max(OfDate(date))
  BY <1>1, GreatestElement
<1>3. PICK w : w = contexts[last].window[m]
  OBVIOUS
<1>4. w \in Windows /\ WindowOK(w)
  BY <1>3, ContextFields
<1>5. Template(date)[m] = [w EXCEPT !.complete = FALSE]
  BY <1>2, <1>3 DEF Template
<1>6. QED
  BY <1>4, <1>5 DEF Windows, WindowOK

LEMMA PreparePlace ==
  ASSUME PlaceInv, NEW date \in 0 .. Today, NEW force \in BOOLEAN, Prepare(date, force)
  PROVE  /\ PlaceInv'
         /\ Len(contexts') = Len(contexts) + 1
         /\ \A i \in 1 .. Len(contexts) : contexts'[i] = contexts[i]
         /\ \A m \in Markets : ~contexts'[Len(contexts) + 1].window[m].complete
<1>1. PICK window : window = IF force /\ OfDate(date) # {} THEN Template(date)
                             ELSE [m \in Markets |-> NewWindow(m, Cutoff(date))]
  OBVIOUS
<1>2. TypeOK /\ Today \in Nat /\ date \in Nat
  <2>1. now \in Nat
    BY ContextFields DEF PlaceInv
  <2>2. Today \in Nat
    BY <2>1, Parameters, Division DEF Today
  <2>3. QED
    BY <2>2 DEF PlaceInv
<1>3. ASSUME NEW m \in Markets
      PROVE  window[m] \in Windows /\ WindowOK(window[m]) /\ window[m].complete = FALSE
  <2>1. CASE force /\ OfDate(date) # {}
    BY <1>1, <1>2, <2>1, TemplateFields
  <2>2. CASE ~(force /\ OfDate(date) # {})
    <3>1. PICK cutoff : cutoff = Cutoff(date)
      OBVIOUS
    <3>2. cutoff \in Nat /\ FirstWindow <= cutoff /\ cutoff <= now
      BY <1>2, <3>1, CutoffFields
    <3>3. window[m] = NewWindow(m, cutoff)
      BY <1>1, <2>2, <3>1
    <3>4. /\ window[m] \in Windows /\ window[m].start \in 0 .. cutoff
          /\ window[m].end = cutoff /\ window[m].complete = FALSE
      BY <1>2, <3>2, <3>3, NewWindowFields
    <3>5. QED
      BY <3>2, <3>4 DEF WindowOK
  <2>3. QED
    BY <2>1, <2>2
<1>4. window \in [Markets -> Windows]
  <2>1. window = [m \in Markets |-> window[m]]
    BY <1>1 DEF Template
  <2>2. QED
    BY <1>3, <2>1
<1>5. PICK row : row = [date |-> date, stage |-> "prepared", window |-> window]
  OBVIOUS
<1>6. row \in ContextRow /\ row.window = window
  BY <1>2, <1>4, <1>5 DEF ContextRow, Stages
<1>7. contexts' = Append(contexts, row)
  BY <1>1, <1>5 DEF Prepare
<1>8. contexts \in Seq(ContextRow) /\ Len(contexts) \in Nat
  BY <1>2, ContextFields
<1>9. /\ contexts' \in Seq(ContextRow) /\ Len(contexts') = Len(contexts) + 1
      /\ \A i \in 1 .. Len(contexts) : contexts'[i] = contexts[i]
      /\ contexts'[Len(contexts) + 1] = row
  BY <1>6, <1>7, <1>8
<1>10. \A i \in 1 .. Len(contexts'), m \in Markets :
         LET w == contexts'[i].window[m] IN 0 <= w.start /\ w.start <= w.end /\ w.end <= now'
  <2>1. UNCHANGED now
    BY DEF Prepare
  <2>2. \A i \in 1 .. Len(contexts), m \in Markets : WindowOK(contexts[i].window[m])
    BY <1>2, ContextFields
  <2>3. \A i \in 1 .. Len(contexts'), m \in Markets : WindowOK(contexts'[i].window[m])
    <3>1. \A i \in 1 .. Len(contexts') : i \in 1 .. Len(contexts) \/ i = Len(contexts) + 1
      BY <1>8, <1>9
    <3>2. QED
      BY <1>3, <1>6, <1>9, <2>2, <3>1
  <2>4. QED
    BY <2>1, <2>3 DEF WindowOK
<1>11. StageInv'
  <2>1. UNCHANGED reading /\ reading \in 0 .. Len(contexts)
    BY <1>2 DEF Prepare, TypeOK
  <2>2. reading' # 0 => contexts'[reading'].stage = "reading"
    BY <1>8, <1>9, <2>1 DEF PlaceInv, StageInv
  <2>3. ASSUME NEW i \in 1 .. Len(contexts'), NEW m \in Markets,
               contexts'[i].window[m].complete
        PROVE  contexts'[i].stage = "judged"
    <3>1. i # Len(contexts) + 1
      BY <1>3, <1>6, <1>9, <2>3
    <3>2. i \in 1 .. Len(contexts)
      BY <1>8, <1>9, <3>1
    <3>3. QED
      BY <1>9, <2>3, <3>2 DEF PlaceInv, StageInv
  <2>4. QED
    BY <2>2, <2>3 DEF StageInv
<1>12. TypeOK'
  BY <1>2, <1>8, <1>9, <1>10 DEF TypeOK, Prepare, ContextRow
<1>13. QED
  BY <1>3, <1>6, <1>9, <1>11, <1>12 DEF PlaceInv

LEMMA ReadArticlesPlace ==
  ASSUME PlaceInv, NEW i \in 1 .. Len(contexts), ReadArticles(i)
  PROVE  /\ PlaceInv'
         /\ Len(contexts') = Len(contexts)
         /\ \A k \in 1 .. Len(contexts) : contexts'[k].window = contexts[k].window
<1>1. PICK row : row = [contexts[i] EXCEPT !.stage = "reading"]
  OBVIOUS
<1>2. TypeOK /\ contexts[i] \in ContextRow
  BY ContextFields DEF PlaceInv
<1>3. /\ row \in ContextRow /\ row.window = contexts[i].window /\ row.stage = "reading"
  BY <1>1, <1>2 DEF ContextRow, Stages
<1>4. contexts' = [contexts EXCEPT ![i] = row] /\ UNCHANGED now
  BY <1>1, <1>2 DEF ReadArticles
<1>5. /\ contexts' \in Seq(ContextRow) /\ Len(contexts') = Len(contexts)
      /\ \A k \in 1 .. Len(contexts) : contexts'[k] = IF k = i THEN row ELSE contexts[k]
      /\ \A k \in 1 .. Len(contexts'), m \in Markets :
           LET w == contexts'[k].window[m] IN 0 <= w.start /\ w.start <= w.end /\ w.end <= now'
  BY <1>3, <1>4, ContextMoves DEF SameWindow
<1>6. read' \in [Markets -> SUBSET Ticks]
  BY <1>2 DEF TypeOK, ReadArticles
<1>7. TypeOK'
  BY <1>2, <1>5, <1>6 DEF TypeOK, ReadArticles, ContextRow
<1>8. StageInv'
  <2>1. \A m \in Markets : ~contexts[i].window[m].complete
    <3>1. contexts[i].stage = "prepared"
      BY DEF ReadArticles
    <3>2. \A m \in Markets : contexts[i].window[m].complete => contexts[i].stage = "judged"
      BY DEF PlaceInv, StageInv
    <3>3. QED
      BY <3>1, <3>2
  <2>2. reading' = i
    BY DEF ReadArticles
  <2>3. ASSUME NEW k \in 1 .. Len(contexts'), NEW m \in Markets,
               contexts'[k].window[m].complete
        PROVE  contexts'[k].stage = "judged"
    <3>1. k # i /\ contexts'[k] = contexts[k]
      BY <1>3, <1>5, <2>1, <2>3
    <3>2. QED
      BY <1>5, <2>3, <3>1 DEF PlaceInv, StageInv
  <2>4. QED
    BY <1>3, <1>5, <2>2, <2>3 DEF StageInv
<1>9. QED
  BY <1>3, <1>5, <1>7, <1>8 DEF PlaceInv

\* What the end of a step does: the job it has read for moves on and every other
\* context stays as it is.
LEMMA EndReadingPlace ==
  ASSUME PlaceInv, NEW stage \in {"judged", "prepared"}, EndReading(stage)
  PROVE  /\ PlaceInv'
         /\ Len(contexts') = Len(contexts) /\ reading \in 1 .. Len(contexts)
         /\ \A k \in 1 .. Len(contexts) : k # reading => contexts'[k] = contexts[k]
         /\ contexts[reading].stage = "reading"
         /\ \A m \in Markets :
              contexts'[reading].window[m] =
                IF stage = "judged" THEN Judged(contexts[reading].window[m], m)
                ELSE contexts[reading].window[m]
<1>1. PICK i : i = reading
  OBVIOUS
<1>2. TypeOK /\ i \in 1 .. Len(contexts) /\ contexts[i].stage = "reading"
  <2>1. reading \in 0 .. Len(contexts) /\ reading # 0 /\ TypeOK /\ Len(contexts) \in Nat
    BY ContextFields DEF PlaceInv, TypeOK, EndReading
  <2>2. QED
    BY <1>1, <2>1 DEF PlaceInv, StageInv
<1>3. PICK window :
        window = IF stage = "judged" THEN [m \in Markets |-> Judged(contexts[i].window[m], m)]
                 ELSE contexts[i].window
  OBVIOUS
<1>4. ASSUME NEW m \in Markets
      PROVE  /\ window[m] \in Windows /\ SameWindow(window[m], contexts[i].window[m])
             /\ window[m] = IF stage = "judged" THEN Judged(contexts[i].window[m], m)
                            ELSE contexts[i].window[m]
             /\ stage # "judged" => ~window[m].complete
  <2>1. PICK w : w = contexts[i].window[m]
    OBVIOUS
  <2>2. w \in Windows /\ (w.complete => contexts[i].stage = "judged")
    BY <1>2, <2>1, ContextFields DEF PlaceInv, StageInv
  <2>3. window[m] = IF stage = "judged" THEN Judged(w, m) ELSE w
    BY <1>3, <2>1
  <2>4. PICK verdict \in BOOLEAN : verdict = CoverageComplete(m, w)
    BY DEF CoverageComplete
  <2>5. Judged(w, m) = [w EXCEPT !.complete = verdict]
    BY <2>4 DEF Judged
  <2>6. window[m] \in Windows /\ SameWindow(window[m], w)
    BY <2>2, <2>3, <2>5 DEF Windows, SameWindow
  <2>7. QED
    BY <1>2, <2>1, <2>2, <2>3, <2>6
<1>5. window \in [Markets -> Windows]
  <2>1. contexts[i].window \in [Markets -> Windows]
    BY <1>2, ContextFields
  <2>2. window = [m \in Markets |-> window[m]]
    BY <1>3, <2>1
  <2>3. QED
    BY <1>4, <2>2
<1>6. PICK row : row = [contexts[i] EXCEPT !.stage = stage, !.window = window]
  OBVIOUS
<1>7. row \in ContextRow /\ row.window = window /\ row.stage = stage
  BY <1>2, <1>5, <1>6, ContextFields DEF ContextRow, Stages
<1>8. contexts' = [contexts EXCEPT ![i] = row] /\ UNCHANGED now
  BY <1>1, <1>2, <1>3, <1>6, ContextFields DEF EndReading
<1>9. /\ contexts' \in Seq(ContextRow) /\ Len(contexts') = Len(contexts)
      /\ \A k \in 1 .. Len(contexts) : contexts'[k] = IF k = i THEN row ELSE contexts[k]
      /\ \A k \in 1 .. Len(contexts'), m \in Markets :
           LET w == contexts'[k].window[m] IN 0 <= w.start /\ w.start <= w.end /\ w.end <= now'
  BY <1>2, <1>4, <1>7, <1>8, ContextMoves
<1>10. read' \in [Markets -> SUBSET Ticks] /\ shown' \in [Markets -> SUBSET Ticks]
  <2>1. read \in [Markets -> SUBSET Ticks] /\ shown \in [Markets -> SUBSET Ticks]
    BY <1>2 DEF TypeOK
  <2>2. QED
    BY <2>1 DEF EndReading
<1>11. TypeOK'
  <2>1. Len(contexts') \in Nat
    BY <1>9
  <2>2. reading' = 0 /\ reading' \in 0 .. Len(contexts')
    BY <2>1 DEF EndReading
  <2>3. QED
    BY <1>2, <1>9, <1>10, <2>2 DEF TypeOK, EndReading, ContextRow
<1>12. StageInv'
  <2>1. ASSUME NEW k \in 1 .. Len(contexts'), NEW m \in Markets,
               contexts'[k].window[m].complete
        PROVE  contexts'[k].stage = "judged"
    <3>1. CASE k = i
      BY <1>4, <1>7, <1>9, <2>1, <3>1
    <3>2. CASE k # i
      <4>1. contexts'[k] = contexts[k] /\ k \in 1 .. Len(contexts)
        BY <1>9, <3>2
      <4>2. QED
        BY <2>1, <4>1 DEF PlaceInv, StageInv
    <3>3. QED
      BY <3>1, <3>2
  <2>2. QED
    BY <2>1 DEF StageInv, EndReading
<1>13. QED
  BY <1>1, <1>2, <1>4, <1>7, <1>9, <1>11, <1>12 DEF PlaceInv

LEMMA PlaceInit ==
  ASSUME Init PROVE PlaceInv
<1>1. now \in Start .. MaxNow
  BY Parameters DEF Init
<1>2. contexts = <<>> /\ Len(contexts) = 0 /\ contexts \in Seq(ContextRow)
  BY DEF Init
<1>3. TypeOK
  <2>1. contexts \in Seq(ContextRow) /\ reading \in 0 .. Len(contexts)
        /\ \A i \in 1 .. Len(contexts) : i \in {}
    BY <1>2 DEF Init
  <2>2. /\ job \in JobType /\ keywords \in KeywordType /\ caughtUp \in BOOLEAN
        /\ raw \in [Markets -> SUBSET Ticks] /\ read \in [Markets -> SUBSET Ticks]
        /\ shown \in [Markets -> SUBSET Ticks]
    BY DEF Init, JobType, KeywordType
  <2>3. QED
    BY <1>1, <2>1, <2>2 DEF TypeOK, ContextRow, JobType, KeywordType
<1>4. StageInv
  BY <1>2 DEF Init, StageInv
<1>5. QED
  BY <1>3, <1>4 DEF PlaceInv

LEMMA PlaceStep ==
  ASSUME PlaceInv, [Next]_vars
  PROVE  PlaceInv'
<1>1. CASE RequestLatest
  BY <1>1, RequestPlace
<1>2. ASSUME NEW e \in SlotEnds, RequestSlot(e) PROVE PlaceInv'
  BY <1>2, RequestPlace
<1>3. ASSUME NEW e \in SlotEnds, Collect(e) \/ CollectionStops(e) PROVE PlaceInv'
  BY <1>3, CollectPlace
<1>4. ASSUME NEW date \in 0 .. Today, NEW force \in BOOLEAN, Prepare(date, force)
      PROVE  PlaceInv'
  BY <1>4, PreparePlace
<1>5. ASSUME NEW i \in 1 .. Len(contexts), ReadArticles(i) PROVE PlaceInv'
  BY <1>5, ReadArticlesPlace
<1>6. CASE JudgeCoverage \/ DedupeFails
  BY <1>6, EndReadingPlace DEF JudgeCoverage, DedupeFails
<1>7. CASE Tick
  BY <1>7, TickPlace
<1>8. CASE UNCHANGED vars
  BY <1>8 DEF vars, PlaceInv, TypeOK, StageInv
<1>9. QED
  BY <1>1, <1>2, <1>3, <1>4, <1>5, <1>6, <1>7, <1>8 DEF Next

\* The variables keep their types, a window is past and does not end before it
\* starts, and only a judged context reports complete coverage
\* (prepare_market_contexts.py, dedupe_articles.py).
THEOREM TypeCorrect == Spec => [](TypeOK /\ StageInv)
<1>1. Init => PlaceInv
  BY PlaceInit
<1>2. PlaceInv /\ [Next]_vars => PlaceInv'
  BY PlaceStep
<1>3. PlaceInv => TypeOK /\ StageInv
  BY DEF PlaceInv
<1>4. QED
  BY <1>1, <1>2, <1>3, PTL DEF Spec
-----------------------------------------------------------------------------
(***************************************************************************)
(* The catch-up.                                                           *)
(***************************************************************************)
\* After a scheduled request that got through, every slot of the horizon was asked for
\* until the next slot is completed.
CatchInv ==
  caughtUp =>
    \A e \in SlotEnds : LatestEnd - MaxLookback < e /\ e <= LatestEnd => job[e] # "none"

\* A slot that was asked for stays asked for.
AskedStays == \A e \in SlotEnds : job[e] # "none" => job'[e] # "none"

LEMMA CatchStays ==
  ASSUME CatchInv, AskedStays, UNCHANGED <<now, caughtUp>>
  PROVE  CatchInv'
<1>1. LatestEnd' = LatestEnd
  BY DEF LatestEnd
<1>2. QED
  BY <1>1 DEF CatchInv, AskedStays

LEMMA LatestIsPast ==
  ASSUME TypeOK
  PROVE  LatestEnd \in 0 .. now /\ now \in Nat
<1>1. now \in Nat /\ SlotLength \in Nat \ {0}
  BY ContextFields, Parameters
<1>2. PICK q \in Nat, r \in 0 .. SlotLength - 1 :
        now = SlotLength * q + r /\ r = now % SlotLength
  BY <1>1, Division
<1>3. LatestEnd = SlotLength * q /\ SlotLength * q \in Nat
  BY <1>1, <1>2 DEF LatestEnd
<1>4. QED
  BY <1>1, <1>2, <1>3

LEMMA CatchStep ==
  ASSUME PlaceInv, CatchInv, [Next]_vars
  PROVE  CatchInv'
<1>1. CASE RequestLatest
  <2>1. PICK done \in SUBSET Chased :
          Ask({LatestEnd} \cup done) /\ caughtUp' = (done = MissedEnds) /\ UNCHANGED now
    BY <1>1 DEF RequestLatest
  <2>2. \A e \in SlotEnds : job[e] # "none" \/ e \in {LatestEnd} \cup done => job'[e] # "none"
    BY <2>1, AskType
  <2>3. ASSUME done = MissedEnds, NEW e \in SlotEnds,
               LatestEnd - MaxLookback < e, e <= LatestEnd
        PROVE  job'[e] # "none"
    <3>1. e \in Int /\ LatestEnd \in Int /\ MaxLookback \in Int
      BY LatestIsPast, Parameters DEF PlaceInv, SlotEnds
    <3>2. e = LatestEnd \/ e < LatestEnd
      BY <2>3, <3>1
    <3>3. e < LatestEnd => job[e] # "none" \/ e \in MissedEnds
      BY <2>3, <3>1 DEF MissedEnds
    <3>4. QED
      BY <2>2, <2>3, <3>2, <3>3
  <2>4. LatestEnd' = LatestEnd
    BY <2>1 DEF LatestEnd
  <2>5. QED
    BY <2>1, <2>3, <2>4 DEF CatchInv
<1>2. ASSUME NEW e \in SlotEnds, RequestSlot(e) PROVE CatchInv'
  <2>1. AskedStays
    BY <1>2, AskType DEF RequestSlot, AskedStays
  <2>2. QED
    BY <1>2, <2>1, CatchStays DEF RequestSlot
<1>3. ASSUME NEW e \in SlotEnds, Collect(e) \/ CollectionStops(e) PROVE CatchInv'
  <2>1. AskedStays
    BY <1>3 DEF PlaceInv, TypeOK, Collect, CollectionStops, Outcome, AskedStays
  <2>2. QED
    BY <1>3, <2>1, CatchStays DEF Collect, CollectionStops
<1>4. ASSUME UNCHANGED <<now, job, caughtUp>> PROVE CatchInv'
  BY <1>4, CatchStays DEF AskedStays
<1>5. CASE Tick
  <2>1. SUFFICES ASSUME caughtUp' PROVE CatchInv'
    BY DEF CatchInv
  <2>2. now \in Nat /\ SlotLength \in Nat \ {0} /\ now' = now + 1
        /\ caughtUp /\ (now + 1) % SlotLength # 0 /\ UNCHANGED job
    BY <1>5, <2>1, ContextFields, Parameters DEF PlaceInv, Tick
  <2>3. (now + 1) % SlotLength = (now % SlotLength) + 1 /\ now % SlotLength \in Nat
    <3>1. PICK n \in Nat, l \in Nat \ {0} : n = now /\ l = SlotLength
      BY <2>2
    <3>2. (n + 1) % l # 0
      BY <2>2, <3>1
    <3>3. (n + 1) % l = (n % l) + 1
      BY <3>2, NextRemainder
    <3>4. n % l \in Nat
      BY Division
    <3>5. QED
      BY <3>1, <3>3, <3>4
  <2>4. LatestEnd' = LatestEnd
    BY <2>2, <2>3 DEF LatestEnd
  <2>5. QED
    BY <2>2, <2>4 DEF CatchInv
<1>6. QED
  BY <1>1, <1>2, <1>3, <1>4, <1>5
  DEF Next, vars, Prepare, ReadArticles, JudgeCoverage, DedupeFails, EndReading

\* After a scheduled request that got through, every slot of the window that a page
\* would be built from now was asked for, whatever windows were complete before
\* (batches/service.py, the catch-up horizon; prepare_market_contexts.py).
THEOREM CatchUpIsEnough == Spec => []CatchUpReachesTheWindow
<1>1. Init => PlaceInv /\ CatchInv
  BY PlaceInit DEF Init, CatchInv
<1>2. PlaceInv /\ CatchInv /\ [Next]_vars => (PlaceInv /\ CatchInv)'
  BY PlaceStep, CatchStep
<1>3. PlaceInv /\ CatchInv => CatchUpReachesTheWindow
  <2>1. SUFFICES ASSUME PlaceInv, CatchInv, caughtUp, NEW m \in Markets, NEW e \in SlotEnds,
                        e <= LatestEnd, NEW t \in Slot(e), InWindow(NewWindow(m, now), t)
                 PROVE  job[e] # "none"
    BY DEF CatchUpReachesTheWindow
  <2>2. TypeOK /\ now \in Nat /\ FirstWindow <= now /\ MaxLookback \in Nat
        /\ SlotLength \in Nat \ {0}
    <3>1. TypeOK /\ now \in Nat /\ Start <= now
      BY <2>1, ContextFields DEF PlaceInv
    <3>2. QED
      BY <3>1, Parameters
  <2>3. PICK start \in 0 .. now : start = NewWindow(m, now).start /\ now - MaxLookback <= start
    BY <2>2, NewWindowFields
  <2>4. start <= t /\ t < e /\ e \in Int /\ t \in Int
    BY <2>1, <2>2, <2>3 DEF InWindow, Slot, SlotEnds
  <2>5. LatestEnd \in 0 .. now
    BY <2>2, LatestIsPast
  <2>6. LatestEnd - MaxLookback < e
    BY <2>2, <2>3, <2>4, <2>5
  <2>7. QED
    BY <2>1, <2>6 DEF CatchInv
<1>4. QED
  BY <1>1, <1>2, <1>3, PTL DEF Spec
-----------------------------------------------------------------------------
(***************************************************************************)
(* The watermark.                                                          *)
(***************************************************************************)
\* A complete window is never changed again, and the clock is not turned back.
LEMMA CompleteStays ==
  ASSUME PlaceInv, [Next]_vars
  PROVE  /\ now \in Nat /\ now' \in Nat /\ now <= now'
         /\ \A i \in 1 .. Len(contexts) :
              /\ i \in 1 .. Len(contexts')
              /\ \A m \in Markets : contexts[i].window[m].complete =>
                   contexts'[i].window[m] = contexts[i].window[m]
<1>1. Len(contexts) \in Nat /\ now \in Nat
  BY ContextFields DEF PlaceInv
<1>2. now' \in Nat /\ now <= now'
  <2>1. CASE Tick
    BY <1>1, <2>1 DEF Tick
  <2>2. CASE UNCHANGED now
    BY <1>1, <2>2
  <2>3. QED
    BY <2>1, <2>2 DEF Next, vars, RequestLatest, RequestSlot, Collect, CollectionStops,
                      Prepare, ReadArticles, JudgeCoverage, DedupeFails, EndReading
<1>3. ASSUME NEW date \in 0 .. Today, NEW force \in BOOLEAN, Prepare(date, force),
             NEW i \in 1 .. Len(contexts)
      PROVE  i \in 1 .. Len(contexts') /\ contexts'[i] = contexts[i]
  <2>1. /\ Len(contexts') = Len(contexts) + 1
        /\ \A k \in 1 .. Len(contexts) : contexts'[k] = contexts[k]
    BY <1>3, PreparePlace
  <2>2. QED
    BY <1>1, <2>1
<1>4. ASSUME NEW k \in 1 .. Len(contexts), ReadArticles(k), NEW i \in 1 .. Len(contexts)
      PROVE  i \in 1 .. Len(contexts') /\ contexts'[i].window = contexts[i].window
  BY <1>4, ReadArticlesPlace
<1>5. ASSUME JudgeCoverage \/ DedupeFails, NEW i \in 1 .. Len(contexts), NEW m \in Markets,
             contexts[i].window[m].complete
      PROVE  i \in 1 .. Len(contexts') /\ contexts'[i] = contexts[i]
  <2>1. PICK stage \in {"judged", "prepared"} : EndReading(stage)
    BY <1>5 DEF JudgeCoverage, DedupeFails
  <2>2. /\ Len(contexts') = Len(contexts) /\ contexts[reading].stage = "reading"
        /\ \A k \in 1 .. Len(contexts) : k # reading => contexts'[k] = contexts[k]
    BY <2>1, EndReadingPlace
  <2>3. contexts[i].stage = "judged"
    BY <1>5 DEF PlaceInv, StageInv
  <2>4. QED
    BY <2>2, <2>3
<1>6. JudgeCoverage \/ DedupeFails => Len(contexts') = Len(contexts)
  BY EndReadingPlace DEF JudgeCoverage, DedupeFails
<1>7. ASSUME UNCHANGED contexts, NEW i \in 1 .. Len(contexts)
      PROVE  i \in 1 .. Len(contexts') /\ contexts'[i] = contexts[i]
  BY <1>7
<1>8. ASSUME NEW i \in 1 .. Len(contexts)
      PROVE  /\ i \in 1 .. Len(contexts')
             /\ \A m \in Markets : contexts[i].window[m].complete =>
                  contexts'[i].window[m] = contexts[i].window[m]
  <2>1. CASE \E date \in 0 .. Today, force \in BOOLEAN : Prepare(date, force)
    BY <1>3, <2>1
  <2>2. CASE \E k \in 1 .. Len(contexts) : ReadArticles(k)
    BY <1>4, <2>2
  <2>3. CASE JudgeCoverage \/ DedupeFails
    BY <1>5, <1>6, <2>3
  <2>4. CASE UNCHANGED contexts
    BY <1>7, <2>4
  <2>5. QED
    BY <2>1, <2>2, <2>3, <2>4
    DEF Next, vars, RequestLatest, RequestSlot, Collect, CollectionStops, Tick
<1>9. QED
  BY <1>1, <1>2, <1>8

\* The watermark from which the next window of a market starts never moves back,
\* in whatever order pages of different dates become complete
\* (get_latest_complete_coverage_end).
THEOREM WatermarkIsMonotone == Spec => WatermarkNeverMovesBack
<1>1. Init => PlaceInv
  BY PlaceInit
<1>2. PlaceInv /\ [Next]_vars => PlaceInv'
  BY PlaceStep
<1>3. ASSUME PlaceInv, [Next]_vars, NEW m \in Markets, CompleteEnds(m, now) # {}
      PROVE  Watermark(m, now) <= Watermark(m, now)'
  <2>1. TypeOK /\ TypeOK' /\ now \in Nat
    BY <1>2, <1>3, ContextFields DEF PlaceInv
  <2>2. /\ CompleteEnds(m, now) \in SUBSET (0 .. now)
        /\ Watermark(m, now) \in CompleteEnds(m, now)
    BY <1>3, <2>1, WatermarkFields
  <2>3. PICK ends : ends = CompleteEnds(m, now)'
    OBVIOUS
  <2>4. now' \in Nat /\ ends \in SUBSET (0 .. now')
    <3>1. \A i \in 1 .. Len(contexts') : contexts'[i].window[m].end \in Nat
      <4>1. contexts' \in Seq(ContextRow) /\ Len(contexts') \in Nat
        BY <2>1 DEF TypeOK, ContextRow
      <4>2. \A i \in 1 .. Len(contexts') : contexts'[i] \in ContextRow
        BY <4>1
      <4>3. QED
        BY <4>2 DEF ContextRow, Windows
    <3>2. now' \in Nat
      BY <1>3, CompleteStays
    <3>3. ends = {contexts'[i].window[m].end :
                    i \in {k \in 1 .. Len(contexts') : /\ contexts'[k].window[m].complete
                                                       /\ contexts'[k].window[m].end <= now'}}
      BY <2>3 DEF CompleteEnds
    <3>4. QED
      BY <3>1, <3>2, <3>3
  <2>5. Watermark(m, now) \in ends
    <3>1. PICK i \in 1 .. Len(contexts) :
            /\ contexts[i].window[m].complete /\ contexts[i].window[m].end <= now
            /\ Watermark(m, now) = contexts[i].window[m].end
      BY <2>2 DEF CompleteEnds
    <3>2. /\ i \in 1 .. Len(contexts') /\ now <= now' /\ now' \in Nat
          /\ contexts'[i].window[m] = contexts[i].window[m]
      BY <1>3, <3>1, CompleteStays
    <3>3. contexts'[i].window[m].end <= now'
      BY <2>1, <2>2, <3>1, <3>2
    <3>4. QED
      BY <2>3, <3>1, <3>2, <3>3 DEF CompleteEnds
  <2>6. Watermark(m, now)' = Max(ends)
    BY <2>3 DEF Watermark
  <2>7. QED
    BY <2>2, <2>4, <2>5, <2>6, GreatestElement
<1>4. PlaceInv /\ [Next]_vars =>
        \A m \in Markets :
          CompleteEnds(m, now) # {} => Watermark(m, now) <= Watermark(m, now)'
  BY <1>3
<1>5. QED
  BY <1>1, <1>2, <1>4, PTL DEF Spec, WatermarkNeverMovesBack
-----------------------------------------------------------------------------
(***************************************************************************)
(* What the pages of complete windows are built from.                      *)
(***************************************************************************)
\* The diagnostics of a slot call a market complete only when its articles are persisted.
CompleteIsRaw ==
  \A e \in SlotEnds, m \in Markets :
    keywords[e][m] = "complete" => Slot(e) \cap Ticks \subseteq raw[m]

\* Between its two reads a job has every article of its windows that is persisted.
ReadIsWindow ==
  reading # 0 =>
    \A m \in Markets :
      {t \in raw[m] : InWindow(contexts[reading].window[m], t)} \subseteq read[m]

ReadInv == CompleteIsRaw /\ ReadIsWindow

LEMMA SlotIsQueried ==
  ASSUME NEW e \in SlotEnds
  PROVE  Slot(e) \cap Ticks \subseteq QueryTicks(e)
<1>1. Overlap \in Nat /\ SlotLength \in Nat /\ e \in Nat /\ MaxNow \in Nat
  BY Parameters DEF SlotEnds
<1>2. QED
  BY <1>1 DEF Slot, QueryTicks, Ticks

LEMMA RawStep ==
  ASSUME PlaceInv, CompleteIsRaw, [Next]_vars
  PROVE  CompleteIsRaw'
<1>1. CASE UNCHANGED <<keywords, raw>>
  BY <1>1 DEF CompleteIsRaw
<1>2. ASSUME NEW e \in SlotEnds, Collect(e) \/ CollectionStops(e)
      PROVE  CompleteIsRaw'
  <2>1. PICK covered \in SUBSET Markets :
          /\ \A m \in Markets : keywords'[e][m] = "complete" =>
               m \in covered \/ keywords[e][m] = "complete"
          /\ \A d \in SlotEnds : d # e => keywords'[d] = keywords[d]
          /\ Persist(e, covered)
    <3>1. keywords \in KeywordType
      BY DEF PlaceInv, TypeOK, KeywordType
    <3>2. CASE Collect(e)
      <4>1. PICK covered \in SUBSET Markets :
              /\ keywords' = [keywords EXCEPT ![e] =
                   [m \in Markets |-> IF m \in covered THEN "complete" ELSE "incomplete"]]
              /\ Persist(e, covered)
        BY <3>2 DEF Collect
      <4>2. QED
        BY <3>1, <4>1 DEF KeywordType
    <3>3. CASE CollectionStops(e)
      <4>1. PICK covered \in SUBSET Markets :
              /\ keywords' = [keywords EXCEPT ![e] =
                   [m \in Markets |-> IF m \in covered THEN "complete" ELSE keywords[e][m]]]
              /\ Persist(e, covered)
        BY <3>3 DEF CollectionStops
      <4>2. QED
        BY <3>1, <4>1 DEF KeywordType
    <3>4. QED
      BY <1>2, <3>2, <3>3
  <2>2. \A m \in Markets : raw[m] \subseteq raw'[m]
                           /\ (m \in covered => QueryTicks(e) \subseteq raw'[m])
    BY <2>1, PersistedRaw
  <2>3. ASSUME NEW d \in SlotEnds, NEW m \in Markets, keywords'[d][m] = "complete"
        PROVE  Slot(d) \cap Ticks \subseteq raw'[m]
    <3>1. CASE keywords[d][m] = "complete"
      BY <2>2, <3>1 DEF CompleteIsRaw
    <3>2. CASE d = e /\ m \in covered
      BY <2>2, <3>2, SlotIsQueried
    <3>3. QED
      BY <2>1, <2>3, <3>1, <3>2
  <2>4. QED
    BY <2>3 DEF CompleteIsRaw
<1>3. QED
  BY <1>1, <1>2 DEF Next, vars, RequestLatest, RequestSlot, Prepare, ReadArticles,
                    JudgeCoverage, DedupeFails, EndReading, Tick

LEMMA ReadStep ==
  ASSUME OneRunner, PlaceInv, ReadIsWindow, [Next]_vars
  PROVE  ReadIsWindow'
<1>1. CASE UNCHANGED <<reading, raw, contexts, read>>
  BY <1>1 DEF ReadIsWindow
<1>2. ASSUME NEW e \in SlotEnds, Collect(e) \/ CollectionStops(e)
      PROVE  ReadIsWindow'
  BY <1>2 DEF Collect, CollectionStops, MayCollect, ReadIsWindow
<1>3. ASSUME NEW date \in 0 .. Today, NEW force \in BOOLEAN, Prepare(date, force)
      PROVE  ReadIsWindow'
  BY <1>3 DEF Prepare, ReadIsWindow
<1>4. ASSUME NEW i \in 1 .. Len(contexts), ReadArticles(i)
      PROVE  ReadIsWindow'
  <2>1. /\ reading' = i /\ UNCHANGED raw
        /\ read' = [m \in Markets |-> {t \in raw[m] : InWindow(contexts[i].window[m], t)}]
    BY <1>4 DEF ReadArticles
  <2>2. contexts'[i].window = contexts[i].window
    BY <1>4, ReadArticlesPlace
  <2>3. QED
    BY <2>1, <2>2 DEF ReadIsWindow
<1>5. CASE JudgeCoverage \/ DedupeFails
  BY <1>5 DEF JudgeCoverage, DedupeFails, EndReading, ReadIsWindow
<1>6. QED
  BY <1>1, <1>2, <1>3, <1>4, <1>5 DEF Next, vars, RequestLatest, RequestSlot, Tick

\* Judging a window complete: every article up to the slot in which it ends was read.
LEMMA JudgedIsRead ==
  ASSUME PlaceInv, ReadInv, NEW m \in Markets, reading # 0,
         NEW w, w = contexts[reading].window[m], CoverageComplete(m, w)
  PROVE  w.start .. SlotStart(w.end) - 1 \subseteq read[m]
<1>1. SUFFICES ASSUME NEW t \in w.start .. SlotStart(w.end) - 1 PROVE t \in read[m]
  OBVIOUS
<1>2. /\ now \in 0 .. MaxNow /\ MaxNow \in Nat /\ reading \in 1 .. Len(contexts)
  <2>1. now \in Start .. MaxNow /\ reading \in 0 .. Len(contexts) /\ Len(contexts) \in Nat
    BY ContextFields DEF PlaceInv, TypeOK
  <2>2. QED
    BY <2>1, Parameters
<1>3. w.start \in Nat /\ w.end \in Nat /\ w.end <= now
  <2>1. WindowOK(w) /\ w.start \in 0 .. now /\ w.end \in 0 .. now
    BY <1>2, ContextFields DEF PlaceInv
  <2>2. QED
    BY <1>2, <2>1
<1>4. /\ SlotStart(w.end) <= w.end /\ SlotStart(w.end) <= LatestEnd
      /\ SlotStart(w.end) \in Int /\ LatestEnd \in Int
  <2>1. PICK l \in Nat \ {0}, a \in Nat, b \in Nat :
          l = SlotLength /\ a = w.end /\ b = now /\ a <= b
    BY <1>2, <1>3, Parameters
  <2>2. a % l \in 0 .. l - 1 /\ b % l \in 0 .. l - 1
    BY Division
  <2>3. a - (a % l) <= b - (b % l)
    BY <2>1, RoundingDown
  <2>4. SlotStart(w.end) = a - (a % l) /\ LatestEnd = b - (b % l)
    BY <2>1 DEF SlotStart, LatestEnd
  <2>5. QED
    BY <2>1, <2>2, <2>3, <2>4
<1>5. w.start <= t /\ t < SlotStart(w.end) /\ t \in Int
  BY <1>1, <1>3, <1>4
<1>6. t \in Ticks /\ t < w.end /\ t < Deadline(w)
  BY <1>2, <1>3, <1>4, <1>5 DEF Ticks, Deadline
<1>7. PICK e \in SlotEnds : keywords[e][m] = "complete" /\ t \in Slot(e)
  BY <1>5, <1>6 DEF CoverageComplete, CompleteSlots
<1>8. t \in raw[m]
  BY <1>6, <1>7 DEF ReadInv, CompleteIsRaw
<1>9. InWindow(w, t)
  BY <1>5, <1>6 DEF InWindow
<1>10. QED
  BY <1>8, <1>9 DEF ReadInv, ReadIsWindow

LEMMA ShownStep ==
  ASSUME PlaceInv, ReadInv, CompleteMeansShown, [Next]_vars
  PROVE  CompleteMeansShown'
<1>1. \A m \in Markets : shown[m] \subseteq shown'[m]
  BY DEF Next, vars, RequestLatest, RequestSlot, Collect, CollectionStops, Prepare,
         ReadArticles, JudgeCoverage, DedupeFails, EndReading, Tick
<1>2. ASSUME NEW i \in 1 .. Len(contexts'), NEW m \in Markets, NEW w,
             w = contexts'[i].window[m], w.complete
      PROVE  w.start .. SlotStart(w.end) - 1 \subseteq shown'[m]
  <2>1. ASSUME i \in 1 .. Len(contexts), contexts[i].window[m] = w
        PROVE  w.start .. SlotStart(w.end) - 1 \subseteq shown'[m]
    <3>1. w.start .. SlotStart(w.end) - 1 \subseteq shown[m]
      BY <1>2, <2>1 DEF CompleteMeansShown
    <3>2. QED
      BY <1>1, <3>1
  <2>2. CASE UNCHANGED contexts
    BY <1>2, <2>1, <2>2
  <2>3. ASSUME NEW date \in 0 .. Today, NEW force \in BOOLEAN, Prepare(date, force)
        PROVE  i \in 1 .. Len(contexts) /\ contexts[i].window[m] = w
    <3>1. /\ Len(contexts') = Len(contexts) + 1 /\ Len(contexts) \in Nat
          /\ \A k \in 1 .. Len(contexts) : contexts'[k] = contexts[k]
          /\ ~contexts'[Len(contexts) + 1].window[m].complete
      BY <2>3, PreparePlace, ContextFields DEF PlaceInv
    <3>2. i # Len(contexts) + 1
      BY <1>2, <3>1
    <3>3. i \in 1 .. Len(contexts)
      BY <3>1, <3>2
    <3>4. QED
      BY <1>2, <3>1, <3>3
  <2>4. ASSUME NEW k \in 1 .. Len(contexts), ReadArticles(k)
        PROVE  i \in 1 .. Len(contexts) /\ contexts[i].window[m] = w
    BY <1>2, <2>4, ReadArticlesPlace
  <2>5. CASE JudgeCoverage \/ DedupeFails
    <3>1. PICK stage \in {"judged", "prepared"} : EndReading(stage)
      BY <2>5 DEF JudgeCoverage, DedupeFails
    <3>2. /\ Len(contexts') = Len(contexts) /\ reading \in 1 .. Len(contexts)
          /\ \A k \in 1 .. Len(contexts) : k # reading => contexts'[k] = contexts[k]
          /\ contexts[reading].stage = "reading"
          /\ contexts'[reading].window[m] =
               IF stage = "judged" THEN Judged(contexts[reading].window[m], m)
               ELSE contexts[reading].window[m]
      BY <3>1, EndReadingPlace
    <3>3. CASE i # reading
      BY <1>2, <2>1, <3>2, <3>3
    <3>4. CASE i = reading
      <4>1. PICK v : v = contexts[reading].window[m]
        OBVIOUS
      <4>2. v \in Windows /\ ~v.complete
        BY <3>2, <4>1, ContextFields DEF PlaceInv, StageInv
      <4>3. stage = "judged" /\ w = Judged(v, m)
        BY <1>2, <3>2, <3>4, <4>1, <4>2
      <4>4. w = [v EXCEPT !.complete = CoverageComplete(m, v)]
        BY <4>3 DEF Judged
      <4>5. w.start = v.start /\ w.end = v.end /\ CoverageComplete(m, v)
        BY <1>2, <4>2, <4>4 DEF Windows
      <4>6. v.start .. SlotStart(v.end) - 1 \subseteq read[m]
        BY <3>2, <4>1, <4>5, JudgedIsRead
      <4>7. read[m] \subseteq shown'[m]
        BY <3>1, <4>3 DEF EndReading
      <4>8. QED
        BY <4>5, <4>6, <4>7
    <3>5. QED
      BY <3>3, <3>4
  <2>6. QED
    BY <2>1, <2>2, <2>3, <2>4, <2>5
    DEF Next, vars, RequestLatest, RequestSlot, Collect, CollectionStops, Tick
<1>3. QED
  BY <1>2 DEF CompleteMeansShown

\* The inductive invariant: what is called complete is persisted, and a job that is
\* reading has all that is persisted of its windows.
THEOREM CoverageInvariant ==
  ASSUME OneRunner
  PROVE  Spec => [](PlaceInv /\ ReadInv /\ CompleteMeansShown)
<1>1. ASSUME Init PROVE PlaceInv /\ ReadInv /\ CompleteMeansShown
  <2>1. ReadInv
    BY <1>1 DEF Init, ReadInv, CompleteIsRaw, ReadIsWindow
  <2>2. Len(contexts) = 0
    BY <1>1 DEF Init
  <2>3. CompleteMeansShown
    BY <2>2 DEF CompleteMeansShown
  <2>4. QED
    BY <1>1, <2>1, <2>3, PlaceInit
<1>2. PlaceInv /\ ReadInv /\ CompleteMeansShown /\ [Next]_vars
        => (PlaceInv /\ ReadInv /\ CompleteMeansShown)'
  BY PlaceStep, RawStep, ReadStep, ShownStep DEF ReadInv
<1>3. QED
  BY <1>1, <1>2, PTL DEF Spec

\* With one worker, a page whose coverage is complete is built from every article of its
\* window up to the slot in which the window ends, although the articles are read
\* before the coverage (steps/dedupe_articles.py).
THEOREM CompletePagesMissNothing ==
  ASSUME OneRunner
  PROVE  Spec => []CompleteMeansShown
BY CoverageInvariant, PTL
=============================================================================
