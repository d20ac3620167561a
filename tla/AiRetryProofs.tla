---------------------------- MODULE AiRetryProofs ----------------------------
(***************************************************************************)
(* Theorems about AiRetry, for any number of retry jobs, targets and       *)
(* attempts, and whatever the source job produced.                         *)
(***************************************************************************)
EXTENDS AiRetry, FiniteSetTheorems, TLAPS

Row == [quality : Qualities \cup {"none"}, attempt : Nat, stamp : Nat, source : AllJobs]
Page == [job : RetryJobs, shows : SUBSET Targets, ready : BOOLEAN]

\* Attempts and the queue go together, and a queued job has an attempt left.
QueueInv ==
  \A j \in RetryJobs :
    /\ (pc[j] # "idle") = (status[j] = "RUNNING")
    /\ status[j] \in {"ABSENT", "PENDING"} => attempts[j] < MaxAttempts

\* The rows of the source job never change, and every attempt knows them.
SourceInv ==
  /\ rows[SourceJob] = SourceRows
  /\ \A j \in RetryJobs : seen[j][SourceJob] = SourceRows

PlaceInv == TypeOK /\ QueueInv /\ SourceInv
-----------------------------------------------------------------------------
(***************************************************************************)
(* Finite sets have maximal elements.                                      *)
(***************************************************************************)
\* R relates each element to those above it.
LEMMA MaximalElement ==
  ASSUME NEW S, IsFiniteSet(S), S # {}, NEW R,
         \A x \in S : <<x, x>> \notin R,
         \A x, y, z \in S : <<x, y>> \in R /\ <<y, z>> \in R => <<x, z>> \in R
  PROVE  \E top \in S : \A x \in S : <<top, x>> \notin R
<1> DEFINE Above(x) == {y \in S : <<x, y>> \in R}
           family == {Above(x) : x \in S}
<1>1. family \subseteq FiniteSubsetsOf(S) /\ family # {}
  <2>1. ASSUME NEW set \in family PROVE set \in FiniteSubsetsOf(S)
    <3>1. set \in SUBSET S
      OBVIOUS
    <3>2. IsFiniteSet(set)
      BY <3>1, FS_Subset
    <3>3. QED
      BY <3>1, <3>2 DEF FiniteSubsetsOf
  <2>2. family # {}
    <3>1. PICK x : x \in S
      OBVIOUS
    <3>2. Above(x) \in family
      BY <3>1
    <3>3. QED
      BY <3>2
  <2>3. QED
    BY <2>1, <2>2
<1>2. PICK least \in family :
        \A set \in family : ~ (<<set, least>> \in StrictSubsetOrdering(S))
  BY <1>1, FS_StrictSubsetOrderingWellFounded, WFMin
<1>3. PICK top \in S : least = Above(top)
  OBVIOUS
<1>4. ASSUME NEW x \in S, <<top, x>> \in R PROVE FALSE
  <2>1. Above(x) \subseteq Above(top) /\ x \in Above(top) /\ x \notin Above(x)
    BY <1>4
  <2>2. Above(x) \in SUBSET S /\ Above(top) \in SUBSET S /\ Above(x) # Above(top)
    BY <2>1
  <2>3. <<Above(x), Above(top)>> \in StrictSubsetOrdering(S)
    BY <2>1, <2>2 DEF StrictSubsetOrdering
  <2>4. QED
    BY <1>2, <1>3, <2>3
<1>5. QED
  BY <1>4

LEMMA GreatestElement ==
  ASSUME NEW S \in SUBSET Nat, IsFiniteSet(S), S # {}
  PROVE  Max(S) \in S /\ \A x \in S : x <= Max(S)
<1> DEFINE R == {p \in S \X S : p[1] < p[2]}
<1>1. \A x, y \in S : <<x, y>> \in R <=> x < y
  OBVIOUS
<1>2. \A x \in S : <<x, x>> \notin R
  BY <1>1
<1>3. \A x, y, z \in S : <<x, y>> \in R /\ <<y, z>> \in R => <<x, z>> \in R
  BY <1>1
<1>4. PICK top \in S : \A x \in S : <<top, x>> \notin R
  <2> HIDE DEF R
  <2>1. QED
    BY <1>2, <1>3, MaximalElement
<1>5. \A x \in S : x \in Nat /\ top \in Nat /\ ~(top < x)
  BY <1>1, <1>4
<1>6. \A x \in S : top >= x
  BY <1>5
<1>7. PICK max : max = Max(S)
  OBVIOUS
<1>8. max \in S /\ \A x \in S : max >= x
  BY <1>6, <1>7 DEF Max
<1>9. \A x \in S : x \in Nat
  OBVIOUS
<1>10. QED
  BY <1>7, <1>8, <1>9
-----------------------------------------------------------------------------
(***************************************************************************)
(* The resolver.                                                           *)
(***************************************************************************)
LEMMA RowFields ==
  /\ NoRow \in Row /\ SourceRows \in [Targets -> Row] /\ InitialRows \in Lineage
  /\ Lineage = [AllJobs -> [Targets -> Row]]
  /\ InitialRows[SourceJob] = SourceRows
  /\ \A t \in Targets : Exists(SourceRows[t])
<1>1. SourceJob \in AllJobs
  BY DEF AllJobs
<1>2. NoRow \in Row
  BY <1>1 DEF NoRow, Row
<1>3. SourceRows \in [Targets -> Row]
  BY <1>1, AiRetryAssumption DEF SourceRows, Row
<1>4. Lineage = [AllJobs -> [Targets -> Row]]
  BY DEF Lineage, Row
<1>5. InitialRows \in Lineage /\ InitialRows[SourceJob] = SourceRows
  BY <1>1, <1>2, <1>3, <1>4 DEF InitialRows, NoRows
<1>6. \A t \in Targets : Exists(SourceRows[t])
  BY AiRetryAssumption DEF SourceRows, Exists, Qualities
<1>7. QED
  BY <1>2, <1>3, <1>4, <1>5, <1>6

\* Among some jobs there is one whose row is the newest.
LEMMA NewestExists ==
  ASSUME NEW lineage \in Lineage, NEW t \in Targets, NEW pool \in SUBSET AllJobs, pool # {}
  PROVE  \E k \in pool : \A i \in pool : Older(lineage[i][t], lineage[k][t])
<1> DEFINE R == {p \in pool \X pool : ~Older(lineage[p[2]][t], lineage[p[1]][t])}
<1>1. \A k \in pool : lineage[k][t].attempt \in Nat /\ lineage[k][t].stamp \in Nat
  <2>1. \A k \in pool : lineage[k][t] \in Row
    BY RowFields
  <2>2. QED
    BY <2>1 DEF Row
<1>2. \A i, k \in pool : <<k, i>> \in R <=> ~Older(lineage[i][t], lineage[k][t])
  OBVIOUS
<1>3. \A k \in pool : <<k, k>> \notin R
  BY <1>1, <1>2 DEF Older
<1>4. \A x, y, z \in pool : <<x, y>> \in R /\ <<y, z>> \in R => <<x, z>> \in R
  BY <1>1, <1>2 DEF Older
<1>5. IsFiniteSet(pool)
  <2>1. IsFiniteSet({SourceJob}) /\ IsFiniteSet(RetryJobs)
    BY FS_Singleton, AiRetryAssumption
  <2>2. IsFiniteSet(AllJobs)
    BY <2>1, FS_Union DEF AllJobs
  <2>3. QED
    BY <2>2, FS_Subset
<1>6. PICK k \in pool : \A i \in pool : <<k, i>> \notin R
  <2> HIDE DEF R
  <2>1. QED
    BY <1>3, <1>4, <1>5, MaximalElement
<1>7. QED
  BY <1>2, <1>6

\* The rows the resolver chooses from.
Present(lineage, t) == {k \in AllJobs : Exists(lineage[k][t])}
Good(lineage, t) == {k \in Present(lineage, t) : IsSuccessful(lineage[k][t])}
Pool(lineage, t) == IF Good(lineage, t) # {} THEN Good(lineage, t) ELSE Present(lineage, t)

LEMMA EffectiveIsOne ==
  ASSUME NEW lineage \in Lineage, NEW t \in Targets, Exists(lineage[SourceJob][t])
  PROVE  \E k \in Pool(lineage, t) : Effective(lineage, t) = lineage[k][t]
<1>1. Pool(lineage, t) \in SUBSET AllJobs /\ Pool(lineage, t) # {}
  BY DEF Pool, Good, Present, AllJobs
<1>2. PICK pool : pool = Pool(lineage, t)
  OBVIOUS
<1>3. PICK newest : newest = CHOOSE k \in pool : \A i \in pool : Older(lineage[i][t], lineage[k][t])
  OBVIOUS
<1>4. newest \in pool
  BY <1>1, <1>2, <1>3, NewestExists
<1>5. Effective(lineage, t) = lineage[newest][t]
  BY <1>2, <1>3 DEF Effective, Pool, Good, Present
<1>6. QED
  BY <1>2, <1>4, <1>5

\* Only the rows of a target matter for it.
LEMMA ColumnDecides ==
  ASSUME NEW lineage \in Lineage, NEW other \in Lineage, NEW t \in Targets,
         Exists(lineage[SourceJob][t]),
         \A k \in AllJobs : lineage[k][t] = other[k][t]
  PROVE  Effective(lineage, t) = Effective(other, t)
<1>1. PICK pool : pool = Pool(lineage, t)
  OBVIOUS
<1>2. pool = Pool(other, t) /\ pool \in SUBSET AllJobs /\ pool # {}
  BY <1>1 DEF Pool, Good, Present, AllJobs
<1>3. PICK newest : newest = CHOOSE k \in pool : \A i \in pool : Older(lineage[i][t], lineage[k][t])
  OBVIOUS
<1>4. newest = CHOOSE k \in pool : \A i \in pool : Older(other[i][t], other[k][t])
  BY <1>2, <1>3
<1>5. newest \in AllJobs
  BY <1>2, <1>3, NewestExists
<1>6. Effective(lineage, t) = lineage[newest][t]
  BY <1>1, <1>3 DEF Effective, Pool, Good, Present
<1>7. Effective(other, t) = other[newest][t]
  BY <1>2, <1>4 DEF Effective, Pool, Good, Present
<1>8. QED
  BY <1>5, <1>6, <1>7
-----------------------------------------------------------------------------
(***************************************************************************)
(* What a generation writes.                                               *)
(***************************************************************************)
LEMMA KnownRows ==
  ASSUME PlaceInv
  PROVE  /\ rows \in Lineage /\ \A t \in Targets : Exists(rows[SourceJob][t])
         /\ \A j \in RetryJobs :
              seen[j] \in Lineage /\ \A t \in Targets : Exists(seen[j][SourceJob][t])
BY RowFields DEF PlaceInv, TypeOK, SourceInv

\* The row of the job itself, or the effective one, names where a text comes from.
LEMMA RetrySourceIsAJob ==
  ASSUME NEW lineage \in Lineage, NEW t \in Targets, Exists(lineage[SourceJob][t]),
         NEW j \in AllJobs
  PROVE  RetrySource(j, lineage, t) \in AllJobs
<1>1. lineage[j][t] \in Row
  BY RowFields
<1>2. \E k \in AllJobs : lineage[k][t] = Effective(lineage, t)
  <2>1. Pool(lineage, t) \subseteq AllJobs
    BY DEF Pool, Good, Present
  <2>2. QED
    BY <2>1, EffectiveIsOne
<1>3. (CHOOSE k \in AllJobs : lineage[k][t] = Effective(lineage, t)) \in AllJobs
  BY <1>2
<1>4. QED
  BY <1>1, <1>3 DEF RetrySource, Row

LEMMA NewRowIsARow ==
  ASSUME PlaceInv, NEW j \in RetryJobs, NEW t \in Targets, NEW quality \in Qualities
  PROVE  NewRow(j, seen[j], t, quality) \in Row
<1>1. PICK source \in AllJobs : source = RetrySource(j, seen[j], t)
  BY KnownRows, RetrySourceIsAJob DEF AllJobs
<1>2. seen[j][j][t] \in Row /\ seen[j][source][t] \in Row
  BY KnownRows, RowFields DEF AllJobs
<1>3. PICK stamp : stamp = 1 + Max({rows[k][t].stamp : k \in AllJobs \ {j}})
  OBVIOUS
<1>4. stamp \in Nat
  <2> DEFINE others == {rows[k][t].stamp : k \in AllJobs \ {j}}
  <2>1. \A k \in AllJobs : rows[k][t].stamp \in Nat
    <3>1. \A k \in AllJobs : rows[k][t] \in Row
      BY KnownRows, RowFields
    <3>2. QED
      BY <3>1 DEF Row
  <2>2. IsFiniteSet(AllJobs \ {j})
    <3>1. IsFiniteSet({SourceJob}) /\ IsFiniteSet(RetryJobs)
      BY FS_Singleton, AiRetryAssumption
    <3>2. IsFiniteSet(AllJobs)
      BY <3>1, FS_Union DEF AllJobs
    <3>3. QED
      BY <3>2, FS_Subset
  <2>3. IsFiniteSet(others)
    <3> DEFINE stampOf == [k \in AllJobs \ {j} |-> rows[k][t].stamp]
    <3>1. stampOf \in Surjection(AllJobs \ {j}, others)
      BY DEF Surjection
    <3>2. QED
      BY <2>2, <3>1, FS_Surjection
  <2>4. others \in SUBSET Nat /\ rows[SourceJob][t].stamp \in others
    BY <2>1, AiRetryAssumption DEF AllJobs
  <2>5. Max(others) \in Nat
    <3> HIDE DEF others
    <3>1. QED
      BY <2>3, <2>4, GreatestElement
  <2>6. QED
    BY <1>3, <2>5
<1>5. PICK attempt : attempt = IF Exists(seen[j][j][t]) THEN seen[j][j][t].attempt
                               ELSE seen[j][source][t].attempt + 1
  OBVIOUS
<1>6. attempt \in Nat
  BY <1>2, <1>5 DEF Row
<1>7. NewRow(j, seen[j], t, quality) =
        [quality |-> quality, attempt |-> attempt, stamp |-> stamp, source |-> source]
  BY <1>1, <1>3, <1>5 DEF NewRow
<1>8. QED
  BY <1>4, <1>6, <1>7 DEF Row

\* A generation writes one row, of its own job, and spares a successful one.
LEMMA GeneratedRow ==
  ASSUME PlaceInv, NEW j \in RetryJobs, NEW t \in Targets, NEW quality \in Qualities,
         Generate(j, t, quality)
  PROVE  \E new \in Row :
           /\ IsSuccessful(rows[j][t]) => new = rows[j][t]
           /\ rows' = [rows EXCEPT ![j][t] = new]
           /\ seen' = [seen EXCEPT ![j][j][t] = new]
           /\ rows' \in Lineage /\ seen' \in [RetryJobs -> Lineage]
           /\ rows'[SourceJob] = rows[SourceJob]
           /\ \A i \in RetryJobs : seen'[i][SourceJob] = seen[i][SourceJob]
           /\ \A k \in AllJobs, u \in Targets :
                rows'[k][u] = IF k = j /\ u = t THEN new ELSE rows[k][u]
<1>1. PICK new : new = Persisted(j, t, quality)
  OBVIOUS
<1>2. j \in AllJobs /\ rows[j][t] \in Row
  BY KnownRows, RowFields DEF AllJobs
<1>3. new \in Row
  BY <1>1, <1>2, NewRowIsARow DEF Persisted
<1>4. IsSuccessful(rows[j][t]) => new = rows[j][t]
  BY <1>1 DEF Persisted
<1>5. rows' = [rows EXCEPT ![j][t] = new] /\ seen' = [seen EXCEPT ![j][j][t] = new]
  BY <1>1 DEF Generate
<1>6. rows' \in [AllJobs -> [Targets -> Row]]
  BY <1>3, <1>5, KnownRows, RowFields
<1>7. seen \in [RetryJobs -> [AllJobs -> [Targets -> Row]]]
  BY RowFields DEF PlaceInv, TypeOK
<1>8. seen' \in [RetryJobs -> [AllJobs -> [Targets -> Row]]]
  BY <1>2, <1>3, <1>5, <1>7
<1>9. j # SourceJob /\ SourceJob \in AllJobs
  BY AiRetryAssumption DEF AllJobs
<1>10. rows'[SourceJob] = rows[SourceJob]
  BY <1>5, <1>9, KnownRows, RowFields
<1>11. \A i \in RetryJobs : seen'[i][SourceJob] = seen[i][SourceJob]
  BY <1>5, <1>7, <1>9
<1>12. \A k \in AllJobs, u \in Targets :
         rows'[k][u] = IF k = j /\ u = t THEN new ELSE rows[k][u]
  BY <1>2, <1>5, KnownRows, RowFields
<1>13. QED
  BY <1>3, <1>4, <1>5, <1>6, <1>8, <1>10, <1>11, <1>12, RowFields
-----------------------------------------------------------------------------
(***************************************************************************)
(* Types.                                                                  *)
(***************************************************************************)
LEMMA PlaceInit == Init => PlaceInv
<1> SUFFICES ASSUME Init PROVE PlaceInv
  OBVIOUS
<1>1. pages = <<>> /\ Len(pages) = 0
  BY DEF Init
<1>2. TypeOK
  BY <1>1, RowFields, AiRetryAssumption DEF Init, TypeOK, NoPage
<1>3. QueueInv
  BY AiRetryAssumption DEF Init, QueueInv
<1>4. SourceInv
  BY RowFields DEF Init, SourceInv
<1>5. QED
  BY <1>2, <1>3, <1>4 DEF PlaceInv

LEMMA NoPageIsNamed ==
  ASSUME PlaceInv
  PROVE  NoPage \in NoPage .. Len(pages)
<1>1. Len(pages) \in Nat
  BY DEF PlaceInv, TypeOK
<1>2. QED
  BY <1>1 DEF NoPage

LEMMA PlaceEnqueue ==
  ASSUME PlaceInv, NEW j \in RetryJobs, Enqueue(j)
  PROVE  PlaceInv'
<1>1. TypeOK'
  BY DEF PlaceInv, TypeOK, Enqueue
<1>2. QueueInv'
  BY DEF PlaceInv, TypeOK, QueueInv, Enqueue
<1>3. SourceInv'
  BY DEF PlaceInv, SourceInv, Enqueue
<1>4. QED
  BY <1>1, <1>2, <1>3 DEF PlaceInv

LEMMA PlaceStart ==
  ASSUME PlaceInv, NEW j \in RetryJobs, Start(j)
  PROVE  PlaceInv'
<1>1. attempts[j] \in 0 .. MaxAttempts /\ attempts[j] < MaxAttempts
  BY DEF PlaceInv, TypeOK, QueueInv, Start
<1>2. attempts' = [attempts EXCEPT ![j] = attempts[j] + 1]
      /\ attempts[j] + 1 \in 0 .. MaxAttempts
  BY <1>1, AiRetryAssumption DEF Start, CountAttempt
<1>3. TypeOK'
  BY <1>2 DEF PlaceInv, TypeOK, Start
<1>4. QueueInv'
  BY <1>2 DEF PlaceInv, TypeOK, QueueInv, Start
<1>5. SourceInv'
  BY DEF PlaceInv, SourceInv, Start
<1>6. QED
  BY <1>3, <1>4, <1>5 DEF PlaceInv

\* The end of an attempt, in whatever state of the queue.
LEMMA PlaceEndAttempt ==
  ASSUME PlaceInv, NEW j \in RetryJobs, NEW next \in {"PENDING", "SUCCESS", "PARTIAL", "FAILED"},
         next = "PENDING" => attempts[j] < MaxAttempts, EndAttempt(j, next),
         result' \in [RetryJobs -> NoPage .. Len(pages)],
         UNCHANGED <<rows, pages, attempts, checkpoint>>
  PROVE  PlaceInv'
<1>1. /\ status' \in [RetryJobs -> {"ABSENT", "PENDING", "RUNNING"} \cup Ended]
      /\ pc' \in [RetryJobs -> {"idle", "select", "generate", "build", "finalize"}]
      /\ todo' \in [RetryJobs -> SUBSET Targets] /\ seen' \in [RetryJobs -> Lineage]
  BY RowFields DEF PlaceInv, TypeOK, EndAttempt, Ended
<1>2. page' \in [RetryJobs -> NoPage .. Len(pages)]
  BY NoPageIsNamed DEF PlaceInv, TypeOK, EndAttempt
<1>3. TypeOK'
  BY <1>1, <1>2 DEF PlaceInv, TypeOK
<1>4. QueueInv'
  BY DEF PlaceInv, TypeOK, QueueInv, EndAttempt
<1>5. SourceInv'
  BY RowFields DEF PlaceInv, TypeOK, SourceInv, EndAttempt
<1>6. QED
  BY <1>3, <1>4, <1>5 DEF PlaceInv

LEMMA PlaceInterrupt ==
  ASSUME PlaceInv, NEW j \in RetryJobs, Interrupt(j)
  PROVE  PlaceInv'
<1>1. attempts[j] \in 0 .. MaxAttempts /\ Requeued(j) \in {"PENDING", "FAILED"}
      /\ (Requeued(j) = "PENDING" => attempts[j] < MaxAttempts)
  BY DEF PlaceInv, TypeOK, Requeued
<1>2. result' \in [RetryJobs -> NoPage .. Len(pages)]
  BY DEF PlaceInv, TypeOK, Interrupt
<1>3. QED
  BY <1>1, <1>2, PlaceEndAttempt DEF Interrupt

LEMMA PlaceSelectTargets ==
  ASSUME PlaceInv, NEW j \in RetryJobs, SelectTargets(j)
  PROVE  PlaceInv'
<1>1. Selected(j, rows) \in SUBSET Targets
  BY DEF Selected, Unresolved
<1>2. TypeOK'
  BY <1>1 DEF PlaceInv, TypeOK, SelectTargets, ReadLineage, Checkpoint, NoPage
<1>3. QueueInv'
  BY DEF PlaceInv, TypeOK, QueueInv, SelectTargets
<1>4. SourceInv'
  BY DEF PlaceInv, TypeOK, SourceInv, SelectTargets, ReadLineage
<1>5. QED
  BY <1>2, <1>3, <1>4 DEF PlaceInv

LEMMA PlaceGenerate ==
  ASSUME PlaceInv, NEW j \in RetryJobs, NEW t \in Targets, NEW quality \in Qualities,
         Generate(j, t, quality)
  PROVE  PlaceInv'
<1>1. /\ rows' \in Lineage /\ seen' \in [RetryJobs -> Lineage]
      /\ rows'[SourceJob] = rows[SourceJob]
      /\ \A i \in RetryJobs : seen'[i][SourceJob] = seen[i][SourceJob]
  BY GeneratedRow
<1>2. todo' \in [RetryJobs -> SUBSET Targets]
      /\ checkpoint' \in [RetryJobs -> NoPage .. Len(pages)]
  BY NoPageIsNamed DEF PlaceInv, TypeOK, Generate, Checkpoint
<1>3. UNCHANGED <<pages, status, attempts, result, pc, page>>
  BY DEF Generate
<1>4. TypeOK'
  BY <1>1, <1>2, <1>3 DEF PlaceInv, TypeOK
<1>5. QueueInv'
  BY <1>3 DEF PlaceInv, QueueInv
<1>6. SourceInv'
  BY <1>1 DEF PlaceInv, SourceInv
<1>7. QED
  BY <1>4, <1>5, <1>6 DEF PlaceInv

LEMMA PlaceGenerated ==
  ASSUME PlaceInv, NEW j \in RetryJobs, Generated(j)
  PROVE  PlaceInv'
<1>1. UNCHANGED <<rows, pages, status, attempts, checkpoint, result, seen, todo, page>>
  BY DEF Generated, stored
<1>2. pc' = [pc EXCEPT ![j] = "build"] \/ pc' = [pc EXCEPT ![j] = "finalize"]
  BY DEF Generated
<1>3. TypeOK'
  BY <1>1, <1>2 DEF PlaceInv, TypeOK
<1>4. QueueInv'
  BY <1>1, <1>2 DEF PlaceInv, TypeOK, QueueInv, Generated
<1>5. SourceInv'
  BY <1>1 DEF PlaceInv, SourceInv
<1>6. QED
  BY <1>3, <1>4, <1>5 DEF PlaceInv

\* What the page of an attempt says.
NewPage(j) == [job |-> j, shows |-> Targets \ Unresolved(seen[j]), ready |-> IsReady(seen[j])]

LEMMA BuiltPage ==
  ASSUME PlaceInv, NEW j \in RetryJobs, BuildPage(j)
  PROVE  /\ pages \in Seq(Page) /\ NewPage(j) \in Page /\ pages' = Append(pages, NewPage(j))
         /\ pages' \in Seq(Page) /\ Len(pages) \in Nat /\ Len(pages') = Len(pages) + 1
         /\ pages'[Len(pages')] = NewPage(j)
         /\ \A v \in 1 .. Len(pages) : pages'[v] = pages[v]
<1>1. IsReady(seen[j]) \in BOOLEAN
  BY AiRetryAssumption DEF IsReady
<1>2. pages \in Seq(Page)
  BY DEF PlaceInv, TypeOK, Page
<1>3. NewPage(j) \in Page
  BY <1>1 DEF NewPage, Page
<1>4. pages' = Append(pages, NewPage(j))
  BY DEF BuildPage, NewPage
<1>5. QED
  BY <1>2, <1>3, <1>4

LEMMA PlaceBuildPage ==
  ASSUME PlaceInv, NEW j \in RetryJobs, BuildPage(j)
  PROVE  PlaceInv'
<1>1. pages' \in Seq(Page) /\ Len(pages) \in Nat /\ Len(pages') = Len(pages) + 1
  BY BuiltPage
<1>2. NoPage .. Len(pages) \subseteq NoPage .. Len(pages') /\ Len(pages') \in NoPage .. Len(pages')
  BY <1>1 DEF NoPage
<1>3. page' = [page EXCEPT ![j] = Len(pages')] /\ checkpoint' = [checkpoint EXCEPT ![j] = Len(pages')]
  BY <1>1 DEF BuildPage, Checkpoint, NextVersion
<1>4. /\ page' \in [RetryJobs -> NoPage .. Len(pages')]
      /\ checkpoint' \in [RetryJobs -> NoPage .. Len(pages')]
      /\ result' \in [RetryJobs -> NoPage .. Len(pages')]
  BY <1>2, <1>3 DEF PlaceInv, TypeOK, BuildPage
<1>5. TypeOK'
  BY <1>1, <1>4 DEF PlaceInv, TypeOK, BuildPage, Page
<1>6. QueueInv'
  BY DEF PlaceInv, TypeOK, QueueInv, BuildPage
<1>7. SourceInv'
  BY DEF PlaceInv, SourceInv, BuildPage
<1>8. QED
  BY <1>5, <1>6, <1>7 DEF PlaceInv

LEMMA PlaceFinalize ==
  ASSUME PlaceInv, NEW j \in RetryJobs, Finalize(j)
  PROVE  PlaceInv'
<1>1. TerminalStatus(j) \in {"SUCCESS", "PARTIAL"}
  BY DEF TerminalStatus
<1>2. result' \in [RetryJobs -> NoPage .. Len(pages)]
  BY DEF PlaceInv, TypeOK, Finalize
<1>3. QED
  BY <1>1, <1>2, PlaceEndAttempt DEF Finalize

LEMMA PlaceStep == PlaceInv /\ [Next]_vars => PlaceInv'
<1> SUFFICES ASSUME PlaceInv, [Next]_vars PROVE PlaceInv'
  OBVIOUS
<1>1. ASSUME NEW j \in RetryJobs, Advance(j) PROVE PlaceInv'
  BY <1>1, PlaceStart, PlaceSelectTargets, PlaceGenerate, PlaceGenerated, PlaceBuildPage,
     PlaceFinalize DEF Advance
<1>2. ASSUME NEW j \in RetryJobs, Enqueue(j) \/ Interrupt(j) PROVE PlaceInv'
  BY <1>2, PlaceEnqueue, PlaceInterrupt
<1>3. CASE UNCHANGED vars
  BY <1>3 DEF vars, stored, PlaceInv, TypeOK, QueueInv, SourceInv
<1>4. QED
  BY <1>1, <1>2, <1>3 DEF Next, Work

\* Every reachable state is well typed, however many retry jobs run at once: in
\* particular no attempt starts beyond max_attempts, and the page versions that
\* checkpoints and results name exist.
THEOREM TypeCorrect == Spec => []TypeOK
<1>1. PlaceInv => TypeOK
  BY DEF PlaceInv
<1>2. QED
  BY <1>1, PlaceInit, PlaceStep, PTL DEF Spec
-----------------------------------------------------------------------------
(***************************************************************************)
(* Retries that run one at a time.                                         *)
(***************************************************************************)
OneAttempt == \A i, j \in RetryJobs : pc[i] # "idle" /\ pc[j] # "idle" => i = j

\* What the attempt knows is what the rows say.
KnowsTheRows ==
  \A j \in RetryJobs :
    /\ pc[j] \in {"generate", "build", "finalize"} => seen[j] = rows
    /\ pc[j] # "generate" => todo[j] = {}

LatestIsRecovered == LatestShows \subseteq Targets \ Unresolved(rows)

RetryInv ==
  OneAttempt /\ KnowsTheRows /\ LatestIsRecovered /\ NoWastedCalls /\ SuccessIsTrue

LEMMA RetryInit == Init => RetryInv
<1> SUFFICES ASSUME Init PROVE RetryInv
  OBVIOUS
<1>1. OneAttempt /\ KnowsTheRows /\ NoWastedCalls
  BY DEF Init, OneAttempt, KnowsTheRows, NoWastedCalls
<1>2. LatestIsRecovered
  BY DEF Init, LatestIsRecovered, LatestShows
<1>3. SuccessIsTrue
  BY DEF Init, SuccessIsTrue
<1>4. QED
  BY <1>1, <1>2, <1>3 DEF RetryInv

\* A generation for an unresolved target spoils no target and touches no other one.
LEMMA GenerationImproves ==
  ASSUME PlaceInv, NEW j \in RetryJobs, NEW t \in Targets, NEW quality \in Qualities,
         Generate(j, t, quality), t \in Unresolved(rows)
  PROVE  /\ \A u \in Targets : u # t => Effective(rows', u) = Effective(rows, u)
         /\ Rank(Effective(rows, t).quality) <= Rank(Effective(rows', t).quality)
<1>1. PICK new \in Row :
        /\ IsSuccessful(rows[j][t]) => new = rows[j][t]
        /\ rows' \in Lineage
        /\ rows'[SourceJob] = rows[SourceJob]
        /\ \A k \in AllJobs, u \in Targets :
             rows'[k][u] = IF k = j /\ u = t THEN new ELSE rows[k][u]
  BY GeneratedRow
<1>2. PICK after \in Lineage : after = rows'
  BY <1>1
<1>3. rows \in Lineage /\ \A u \in Targets : Exists(rows[SourceJob][u])
  BY KnownRows
<1>4. ASSUME NEW u \in Targets, u # t PROVE Effective(rows', u) = Effective(rows, u)
  <2>1. \A k \in AllJobs : rows[k][u] = after[k][u]
    BY <1>1, <1>2, <1>4
  <2>2. Effective(rows, u) = Effective(after, u)
    BY <1>3, <2>1, ColumnDecides
  <2>3. QED
    BY <1>2, <2>2
<1>5. PICK before \in Pool(rows, t) : Effective(rows, t) = rows[before][t]
  BY <1>3, EffectiveIsOne
<1>6. PICK next \in Pool(after, t) : Effective(after, t) = after[next][t]
  BY <1>1, <1>2, <1>3, EffectiveIsOne
<1>7. rows[before][t].quality # "success"
  BY <1>5 DEF Unresolved, IsResolved
<1>8. CASE Good(rows, t) = {}
  <2>1. before \in AllJobs /\ ~IsSuccessful(rows[before][t])
    BY <1>5, <1>8 DEF Pool, Good, Present
  <2>2. Rank(Effective(rows, t).quality) = 0
    BY <1>5, <2>1 DEF IsSuccessful, Rank
  <2>3. Rank(Effective(after, t).quality) \in {0, 1, 2}
    BY DEF Rank
  <2>4. QED
    BY <1>2, <1>4, <2>2, <2>3
<1>9. CASE Good(rows, t) # {}
  <2>1. PICK k \in Good(rows, t) : TRUE
    BY <1>9
  <2>2. k \in AllJobs /\ Exists(rows[k][t]) /\ IsSuccessful(rows[k][t])
    BY <2>1 DEF Good, Present
  <2>3. after[k][t] = rows[k][t]
    BY <1>1, <1>2, <2>2
  <2>4. k \in Good(after, t)
    BY <2>2, <2>3 DEF Good, Present
  <2>5. IsSuccessful(after[next][t])
    BY <1>6, <2>4 DEF Pool, Good
  <2>6. Rank(Effective(after, t).quality) \in {1, 2}
    BY <1>6, <2>5 DEF IsSuccessful, Rank
  <2>7. Rank(Effective(rows, t).quality) \in {0, 1}
    BY <1>5, <1>7 DEF Rank
  <2>8. QED
    BY <1>2, <1>4, <2>6, <2>7
<1>10. QED
  BY <1>8, <1>9

\* A step that changes no row and no page, and ends no job in SUCCESS.
LEMMA QuietRetry ==
  ASSUME PlaceInv, RetryInv, UNCHANGED <<rows, pages, result>>,
         \A j \in RetryJobs : status'[j] = "SUCCESS" => status[j] = "SUCCESS"
  PROVE  LatestIsRecovered' /\ SuccessIsTrue'
<1>1. LatestShows' = LatestShows /\ Unresolved(rows)' = Unresolved(rows)
  BY DEF LatestShows
<1>2. LatestIsRecovered'
  BY <1>1 DEF RetryInv, LatestIsRecovered
<1>3. SuccessIsTrue'
  BY DEF RetryInv, SuccessIsTrue
<1>4. QED
  BY <1>2, <1>3

LEMMA EnqueueRetry ==
  ASSUME PlaceInv, RetryInv, NEW j \in RetryJobs, Enqueue(j)
  PROVE  RetryInv'
<1>1. \A i \in RetryJobs : status'[i] = "SUCCESS" => status[i] = "SUCCESS"
  BY DEF Enqueue, PlaceInv, TypeOK
<1>2. LatestIsRecovered' /\ SuccessIsTrue'
  BY <1>1, QuietRetry DEF Enqueue
<1>3. OneAttempt' /\ KnowsTheRows' /\ NoWastedCalls'
  BY DEF RetryInv, OneAttempt, KnowsTheRows, NoWastedCalls, Enqueue
<1>4. QED
  BY <1>2, <1>3 DEF RetryInv

LEMMA StartRetry ==
  ASSUME OneRunner, PlaceInv, RetryInv, NEW j \in RetryJobs, Start(j)
  PROVE  RetryInv'
<1>1. \A i \in RetryJobs : status'[i] = "SUCCESS" => status[i] = "SUCCESS"
  BY DEF Start, PlaceInv, TypeOK
<1>2. LatestIsRecovered' /\ SuccessIsTrue'
  BY <1>1, QuietRetry DEF Start
<1>3. \A i \in RetryJobs : pc[i] = "idle"
  BY DEF Start, PlaceInv, QueueInv
<1>4. pc' = [pc EXCEPT ![j] = "select"] /\ UNCHANGED <<rows, seen, todo>>
  BY DEF Start
<1>5. \A i \in RetryJobs : pc'[i] = IF i = j THEN "select" ELSE "idle"
  BY <1>3, <1>4 DEF PlaceInv, TypeOK
<1>6. OneAttempt'
  BY <1>5 DEF OneAttempt
<1>7. KnowsTheRows' /\ NoWastedCalls'
  BY <1>3, <1>4, <1>5 DEF RetryInv, KnowsTheRows, NoWastedCalls
<1>8. QED
  BY <1>2, <1>6, <1>7 DEF RetryInv

\* The attempts that run after the step are those before it, or fewer.
LEMMA SettledAttempt ==
  ASSUME PlaceInv, RetryInv, NEW j \in RetryJobs, NEW next, EndAttempt(j, next),
         UNCHANGED rows
  PROVE  OneAttempt' /\ KnowsTheRows' /\ NoWastedCalls'
<1>1. \A i \in RetryJobs : /\ pc'[i] = IF i = j THEN "idle" ELSE pc[i]
                           /\ todo'[i] = IF i = j THEN {} ELSE todo[i]
                           /\ i # j => seen'[i] = seen[i]
  BY DEF EndAttempt, PlaceInv, TypeOK
<1>2. QED
  BY <1>1 DEF RetryInv, OneAttempt, KnowsTheRows, NoWastedCalls

LEMMA InterruptRetry ==
  ASSUME PlaceInv, RetryInv, NEW j \in RetryJobs, Interrupt(j)
  PROVE  RetryInv'
<1>1. \A i \in RetryJobs : status'[i] = "SUCCESS" => status[i] = "SUCCESS"
  BY DEF Interrupt, EndAttempt, Requeued, PlaceInv, TypeOK
<1>2. LatestIsRecovered' /\ SuccessIsTrue'
  BY <1>1, QuietRetry DEF Interrupt
<1>3. OneAttempt' /\ KnowsTheRows' /\ NoWastedCalls'
  BY SettledAttempt DEF Interrupt
<1>4. QED
  BY <1>2, <1>3 DEF RetryInv

LEMMA SelectTargetsRetry ==
  ASSUME PlaceInv, RetryInv, NEW j \in RetryJobs, SelectTargets(j)
  PROVE  RetryInv'
<1>1. LatestIsRecovered' /\ SuccessIsTrue'
  BY QuietRetry DEF SelectTargets
<1>2. \A i \in RetryJobs : /\ pc'[i] = IF i = j THEN "generate" ELSE pc[i]
                           /\ todo'[i] = IF i = j THEN Selected(j, rows) ELSE todo[i]
                           /\ seen'[i] = IF i = j THEN rows ELSE seen[i]
  BY DEF SelectTargets, ReadLineage, PlaceInv, TypeOK
<1>3. pc[j] # "idle" /\ UNCHANGED rows
  BY DEF SelectTargets
<1>4. Selected(j, rows) \subseteq Unresolved(rows)
  BY DEF Selected
<1>5. OneAttempt' /\ KnowsTheRows'
  BY <1>2, <1>3 DEF RetryInv, OneAttempt, KnowsTheRows
<1>6. NoWastedCalls'
  BY <1>2, <1>3, <1>4 DEF RetryInv, NoWastedCalls
<1>7. QED
  BY <1>1, <1>5, <1>6 DEF RetryInv

LEMMA GenerateRetry ==
  ASSUME PlaceInv, RetryInv, NEW j \in RetryJobs, NEW t \in Targets, NEW quality \in Qualities,
         Generate(j, t, quality)
  PROVE  /\ RetryInv'
         /\ \A u \in Targets : u # t => Effective(rows', u) = Effective(rows, u)
         /\ Rank(Effective(rows, t).quality) <= Rank(Effective(rows', t).quality)
<1>1. /\ pc[j] = "generate" /\ t \in todo[j] /\ seen[j] = rows
      /\ t \in Unresolved(rows) /\ UNCHANGED <<pages, status, result, pc>>
      /\ todo' = [todo EXCEPT ![j] = @ \ {t}]
  BY DEF Generate, RetryInv, KnowsTheRows, NoWastedCalls
<1>2. /\ \A u \in Targets : u # t => Effective(rows', u) = Effective(rows, u)
      /\ Rank(Effective(rows, t).quality) <= Rank(Effective(rows', t).quality)
  BY <1>1, GenerationImproves
<1>3. \A u \in Targets : u # t => (u \in Unresolved(rows) <=> u \in Unresolved(rows'))
  BY <1>2 DEF Unresolved
<1>4. LatestIsRecovered'
  BY <1>1, <1>3 DEF RetryInv, LatestIsRecovered, LatestShows, Unresolved
<1>5. SuccessIsTrue'
  BY <1>1 DEF RetryInv, SuccessIsTrue
<1>6. \A i \in RetryJobs : i # j => pc[i] = "idle" /\ todo[i] = {}
  BY <1>1 DEF RetryInv, OneAttempt, KnowsTheRows
<1>7. \A i \in RetryJobs : todo'[i] = IF i = j THEN todo[i] \ {t} ELSE {}
  BY <1>1, <1>6 DEF PlaceInv, TypeOK
<1>8. todo[j] \subseteq Targets /\ todo[j] \subseteq Unresolved(rows)
  BY DEF RetryInv, NoWastedCalls, PlaceInv, TypeOK
<1>9. NoWastedCalls'
  BY <1>3, <1>7, <1>8 DEF NoWastedCalls
<1>10. seen'[j] = rows'
  <2>1. PICK new \in Row :
                   /\ rows' = [rows EXCEPT ![j][t] = new]
                   /\ seen' = [seen EXCEPT ![j][j][t] = new]
    BY GeneratedRow
  <2>2. seen'[j] = [seen[j] EXCEPT ![j][t] = new]
    BY <2>1 DEF PlaceInv, TypeOK
  <2>3. QED
    BY <1>1, <2>1, <2>2
<1>11. OneAttempt' /\ KnowsTheRows'
  BY <1>1, <1>6, <1>7, <1>10 DEF RetryInv, OneAttempt, KnowsTheRows
<1>12. QED
  BY <1>2, <1>4, <1>5, <1>9, <1>11 DEF RetryInv

LEMMA GeneratedRetry ==
  ASSUME PlaceInv, RetryInv, NEW j \in RetryJobs, Generated(j)
  PROVE  RetryInv'
<1>1. UNCHANGED <<rows, pages, status, result, seen, todo>>
  BY DEF Generated, stored
<1>2. LatestIsRecovered' /\ SuccessIsTrue'
  BY <1>1, QuietRetry
<1>3. pc[j] = "generate" /\ todo[j] = {}
      /\ (pc' = [pc EXCEPT ![j] = "build"] \/ pc' = [pc EXCEPT ![j] = "finalize"])
  BY DEF Generated
<1>4. \A i \in RetryJobs :
        pc'[i] = pc[i] \/ (i = j /\ pc'[i] \in {"build", "finalize"})
  BY <1>3 DEF PlaceInv, TypeOK
<1>5. OneAttempt' /\ KnowsTheRows' /\ NoWastedCalls'
  BY <1>1, <1>3, <1>4 DEF RetryInv, OneAttempt, KnowsTheRows, NoWastedCalls
<1>6. QED
  BY <1>2, <1>5 DEF RetryInv

\* The new page shows what the rows resolve, and so what the page before it showed.
LEMMA BuildPageRetry ==
  ASSUME PlaceInv, RetryInv, NEW j \in RetryJobs, BuildPage(j)
  PROVE  RetryInv' /\ LatestShows \subseteq LatestShows'
<1>1. /\ pc[j] = "build" /\ pc' = [pc EXCEPT ![j] = "finalize"]
      /\ UNCHANGED <<rows, status, result, seen, todo>>
  BY DEF BuildPage
<1>2. seen[j] = rows
  BY <1>1 DEF RetryInv, KnowsTheRows
<1>3. /\ Len(pages) \in Nat /\ Len(pages') = Len(pages) + 1 /\ pages' \in Seq(Page)
      /\ pages'[Len(pages')] = NewPage(j)
      /\ \A v \in 1 .. Len(pages) : pages'[v] = pages[v]
  BY BuiltPage
<1>4. LatestShows' = Targets \ Unresolved(rows)
  <2>1. pages' # <<>>
    BY <1>3
  <2>2. NewPage(j).shows = Targets \ Unresolved(seen[j])
    BY DEF NewPage
  <2>3. QED
    BY <1>2, <1>3, <2>1, <2>2 DEF LatestShows
<1>5. LatestIsRecovered' /\ LatestShows \subseteq LatestShows'
  BY <1>1, <1>4 DEF RetryInv, LatestIsRecovered
<1>6. SuccessIsTrue'
  <2> SUFFICES ASSUME NEW i \in RetryJobs, status[i] = "SUCCESS"
               PROVE  /\ Unresolved(rows) = {}
                      /\ result[i] # NoPage => pages'[result[i]].ready
    BY <1>1 DEF SuccessIsTrue
  <2>1. /\ Unresolved(rows) = {}
        /\ result[i] # NoPage => pages[result[i]].ready
    BY DEF RetryInv, SuccessIsTrue
  <2>2. result[i] # NoPage => result[i] \in 1 .. Len(pages)
    BY <1>3 DEF PlaceInv, TypeOK, NoPage
  <2>3. QED
    BY <1>3, <2>1, <2>2
<1>7. \A i \in RetryJobs : pc'[i] = IF i = j THEN "finalize" ELSE pc[i]
  BY <1>1 DEF PlaceInv, TypeOK
<1>8. OneAttempt' /\ KnowsTheRows' /\ NoWastedCalls'
  BY <1>1, <1>7 DEF RetryInv, OneAttempt, KnowsTheRows, NoWastedCalls
<1>9. QED
  BY <1>5, <1>6, <1>8 DEF RetryInv

LEMMA FinalizeRetry ==
  ASSUME PlaceInv, RetryInv, NEW j \in RetryJobs, Finalize(j)
  PROVE  RetryInv'
<1>1. /\ pc[j] = "finalize" /\ UNCHANGED <<rows, pages>>
      /\ result' = [result EXCEPT ![j] = page[j]]
      /\ status' = [status EXCEPT ![j] = TerminalStatus(j)]
  BY DEF Finalize, EndAttempt
<1>2. seen[j] = rows
  BY <1>1 DEF RetryInv, KnowsTheRows
<1>3. TerminalStatus(j) = "SUCCESS" =>
        Unresolved(rows) = {} /\ (page[j] # NoPage => pages[page[j]].ready)
  BY <1>2 DEF TerminalStatus
<1>4. \A i \in RetryJobs : /\ status'[i] = IF i = j THEN TerminalStatus(j) ELSE status[i]
                           /\ result'[i] = IF i = j THEN page[j] ELSE result[i]
  BY <1>1 DEF PlaceInv, TypeOK
<1>5. SuccessIsTrue'
  BY <1>1, <1>3, <1>4 DEF RetryInv, SuccessIsTrue
<1>6. LatestIsRecovered'
  BY <1>1 DEF RetryInv, LatestIsRecovered, LatestShows
<1>7. OneAttempt' /\ KnowsTheRows' /\ NoWastedCalls'
  BY SettledAttempt DEF Finalize
<1>8. QED
  BY <1>5, <1>6, <1>7 DEF RetryInv

LEMMA RetryStep ==
  ASSUME OneRunner
  PROVE  PlaceInv /\ RetryInv /\ [Next]_vars => RetryInv'
<1> SUFFICES ASSUME PlaceInv, RetryInv, [Next]_vars PROVE RetryInv'
  OBVIOUS
<1>1. ASSUME NEW j \in RetryJobs, Advance(j) PROVE RetryInv'
  BY <1>1, StartRetry, SelectTargetsRetry, GenerateRetry, GeneratedRetry, BuildPageRetry,
     FinalizeRetry DEF Advance
<1>2. ASSUME NEW j \in RetryJobs, Enqueue(j) \/ Interrupt(j) PROVE RetryInv'
  BY <1>2, EnqueueRetry, InterruptRetry
<1>3. CASE UNCHANGED vars
  BY <1>3 DEF vars, stored, RetryInv, OneAttempt, KnowsTheRows, LatestIsRecovered,
     LatestShows, NoWastedCalls, SuccessIsTrue
<1>4. QED
  BY <1>1, <1>2, <1>3 DEF Next, Work

\* One worker drains the queue: an attempt knows the rows as they are.
THEOREM RetryInvariant ==
  ASSUME OneRunner
  PROVE  Spec => [](PlaceInv /\ RetryInv)
<1>1. PlaceInv /\ RetryInv /\ [Next]_vars => PlaceInv' /\ RetryInv'
  BY PlaceStep, RetryStep
<1>2. QED
  BY <1>1, PlaceInit, RetryInit, PTL DEF Spec

\* An attempt asks the provider only for what no committed row has resolved.
THEOREM ResolvedTargetsAreNotCalled ==
  ASSUME OneRunner
  PROVE  Spec => []NoWastedCalls
<1>1. RetryInv => NoWastedCalls
  BY DEF RetryInv
<1>2. QED
  BY <1>1, RetryInvariant, PTL

\* A retry that reports SUCCESS left nothing unresolved, then or later.
THEOREM SuccessStaysTrue ==
  ASSUME OneRunner
  PROVE  Spec => []SuccessIsTrue
<1>1. RetryInv => SuccessIsTrue
  BY DEF RetryInv
<1>2. QED
  BY <1>1, RetryInvariant, PTL

\* The rows change only by a generation for an unresolved target.
LEMMA RowsChangeByGeneration ==
  ASSUME Next
  PROVE  UNCHANGED rows \/ \E j \in RetryJobs, t \in Targets, quality \in Qualities :
           Generate(j, t, quality)
BY DEF Next, Work, Advance, Start, SelectTargets, Generated, BuildPage, Finalize, Enqueue,
   Interrupt, stored

\* What a target shows never gets worse.
THEOREM RetriesNeverSpoil ==
  ASSUME OneRunner
  PROVE  Spec => EffectiveNeverRegresses
<1> DEFINE Kept == \A t \in Targets :
             Rank(Effective(rows, t).quality) <= Rank(Effective(rows', t).quality)
<1>1. PlaceInv /\ RetryInv /\ [Next]_vars => [Kept]_vars
  <2> SUFFICES ASSUME PlaceInv, RetryInv, Next, NEW u \in Targets
               PROVE  Rank(Effective(rows, u).quality) <= Rank(Effective(rows', u).quality)
    OBVIOUS
  <2>1. Rank(Effective(rows, u).quality) \in {0, 1, 2}
    BY DEF Rank
  <2>2. CASE UNCHANGED rows
    BY <2>1, <2>2
  <2>3. ASSUME NEW j \in RetryJobs, NEW t \in Targets, NEW quality \in Qualities,
               Generate(j, t, quality)
        PROVE  Rank(Effective(rows, u).quality) <= Rank(Effective(rows', u).quality)
    BY <2>1, <2>3, GenerateRetry
  <2>4. QED
    BY <2>2, <2>3, RowsChangeByGeneration
<1>2. QED
  BY <1>1, RetryInvariant, PTL DEF Spec, EffectiveNeverRegresses

\* A later version of the page shows every recovery of the one before it.
THEOREM RecoveriesStayShown ==
  ASSUME OneRunner
  PROVE  Spec => LatestPageKeepsRecoveries
<1>1. PlaceInv /\ RetryInv /\ [Next]_vars => [LatestShows \subseteq LatestShows']_vars
  <2> SUFFICES ASSUME PlaceInv, RetryInv, Next PROVE LatestShows \subseteq LatestShows'
    OBVIOUS
  <2>1. CASE UNCHANGED pages
    BY <2>1 DEF LatestShows
  <2>2. CASE ~UNCHANGED pages
    <3>1. PICK j \in RetryJobs : BuildPage(j)
      BY <2>2 DEF Next, Work, Advance, Start, SelectTargets, Generate, Generated, Finalize,
         Enqueue, Interrupt, stored
    <3>2. QED
      BY <3>1, BuildPageRetry
  <2>3. QED
    BY <2>1, <2>2
<1>2. QED
  BY <1>1, RetryInvariant, PTL DEF Spec, LatestPageKeepsRecoveries
=============================================================================
