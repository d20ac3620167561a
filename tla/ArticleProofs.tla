---------------------------- MODULE ArticleProofs ----------------------------
(***************************************************************************)
(* Theorems about articles, from the search to the page: what a slot       *)
(* covers can be read, whatever the provider lists while it is paged       *)
(* through (KeywordCollection), and the page of a run that nobody has      *)
(* overtaken is the clustering of the articles there are (DailyClusters).  *)
(* They hold for all keywords, page sizes, workers, articles, scores and   *)
(* caps.                                                                   *)
(***************************************************************************)
EXTENDS KeywordCollection, DailyClusters, FiniteSetTheorems, SequenceTheorems, WellFoundedInduction,
        TLAPS

(***************************************************************************)
(* The listing: positions count without gaps.                              *)
(***************************************************************************)
Ahead(k, a) == {b \in Hits(k) : Newer(b, a)}

LEMMA Order ==
  /\ \A a \in Articles : ~Newer(a, a)
  /\ \A a, b \in Articles : a # b => Newer(a, b) \/ Newer(b, a)
  /\ \A a, b, c \in Articles : Newer(a, b) /\ Newer(b, c) => Newer(a, c)
  BY KeywordCollectionAssumption DEF Newer

LEMMA AheadIsFinite ==
  ASSUME listed \subseteq Articles, NEW k, NEW a \in Articles
  PROVE  /\ IsFiniteSet(Ahead(k, a)) /\ Cardinality(Ahead(k, a)) \in Nat
         /\ Position(k, a) = 1 + Cardinality(Ahead(k, a))
  BY KeywordCollectionAssumption, FS_Subset, FS_CardinalityType DEF Ahead, Hits, Position

\* An article ahead of another stands before it.
LEMMA NewerStandsBefore ==
  ASSUME listed \subseteq Articles, NEW k, NEW b \in Hits(k), NEW a \in Articles,
         Newer(b, a)
  PROVE  Position(k, b) < Position(k, a)
<1>1. b \in Articles /\ b \in Ahead(k, a) /\ b \notin Ahead(k, b)
  BY Order DEF Ahead, Hits
<1>2. Ahead(k, b) \subseteq Ahead(k, a) \ {b}
  BY <1>1, Order DEF Ahead, Hits
<1>3. Cardinality(Ahead(k, a) \ {b}) = Cardinality(Ahead(k, a)) - 1
  BY <1>1, AheadIsFinite, FS_RemoveElement
<1>4. IsFiniteSet(Ahead(k, a) \ {b})
  BY AheadIsFinite, FS_RemoveElement
<1>5. Cardinality(Ahead(k, b)) <= Cardinality(Ahead(k, a) \ {b})
  BY <1>2, <1>4, FS_Subset
<1>6. QED
  BY <1>1, <1>3, <1>5, AheadIsFinite

\* A page that is not full is the last one.
LEMMA ShortPageIsTheLast ==
  ASSUME listed \subseteq Articles, NEW k, NEW s \in Nat \ {0},
         Cardinality(Page(k, s)) < PageSize, NEW a \in Hits(k)
  PROVE  Position(k, a) < s + PageSize
<1> DEFINE B == Ahead(k, a)
           n == Cardinality(B)
           f == [b \in B |-> Position(k, b)]
           P == s .. s + PageSize - 1
<1>0. /\ PageSize \in Nat \ {0}
      /\ a \in Articles /\ B \subseteq Articles /\ B \subseteq Hits(k)
      /\ IsFiniteSet(B) /\ n \in Nat /\ Position(k, a) = 1 + n
  <2>1. a \in Articles /\ B \subseteq Articles /\ B \subseteq Hits(k)
    BY DEF Ahead, Hits
  <2>2. QED
    BY <2>1, KeywordCollectionAssumption, AheadIsFinite
<1>1. SUFFICES ASSUME s + PageSize <= Position(k, a) PROVE FALSE
  BY <1>0
<1>2. \A b \in B : Position(k, b) \in 1 .. n
  <2>1. TAKE b \in B
  <2>2. Position(k, b) < Position(k, a)
    BY <1>0, NewerStandsBefore DEF Ahead
  <2>3. Position(k, b) \in Nat \ {0}
    BY <1>0, AheadIsFinite
  <2>4. QED
    BY <1>0, <2>2, <2>3
<1>3. \A b, c \in B : Position(k, b) = Position(k, c) => b = c
  <2>1. SUFFICES ASSUME NEW b \in B, NEW c \in B, b # c
                 PROVE  Position(k, b) # Position(k, c)
    OBVIOUS
  <2>2. Position(k, b) < Position(k, c) \/ Position(k, c) < Position(k, b)
    BY <1>0, <2>1, Order, NewerStandsBefore
  <2>3. QED
    BY <1>2, <2>2
<1>4. f \in Injection(B, 1 .. n)
  BY <1>2, <1>3 DEF Injection, IsInjective
<1>5. IsFiniteSet(1 .. n) /\ Cardinality(1 .. n) = n
  BY <1>0, FS_Interval
<1>6. f \in Surjection(B, 1 .. n)
  BY <1>4, <1>5, FS_Injection
<1>7. \A p \in P : \E b \in B : Position(k, b) = p
  <2>1. P \subseteq 1 .. n
    BY <1>0, <1>1
  <2>2. \A p \in 1 .. n : \E b \in B : f[b] = p
    BY <1>6 DEF Surjection
  <2>3. QED
    BY <2>1, <2>2
<1> DEFINE g == [p \in P |-> CHOOSE b \in B : Position(k, b) = p]
<1>8. g \in Injection(P, Page(k, s))
  <2>1. \A p \in P : g[p] \in B /\ Position(k, g[p]) = p
    BY <1>7
  <2>2. \A p \in P : g[p] \in Page(k, s)
    BY <1>0, <2>1 DEF Page
  <2>3. QED
    BY <2>1, <2>2 DEF Injection, IsInjective
<1>9. IsFiniteSet(Page(k, s)) /\ Cardinality(Page(k, s)) \in Nat
  BY KeywordCollectionAssumption, FS_Subset, FS_CardinalityType DEF Page, Hits
<1>10. Cardinality(P) = PageSize
  BY <1>0, FS_Interval
<1>11. Cardinality(P) <= Cardinality(Page(k, s))
  BY <1>8, <1>9, FS_Injection
<1>12. QED
  BY <1>0, <1>9, <1>10, <1>11
-----------------------------------------------------------------------------
(***************************************************************************)
(* Types.                                                                  *)
(***************************************************************************)
Attempt(w) == work[w] \in Attempts /\ work[w].query \in Queries

LEMMA Orders ==
  /\ Len(KeywordOrder) \in Nat
  /\ \A i \in 1 .. Len(KeywordOrder) : KeywordOrder[i] \in Keywords
  /\ \A k \in Keywords : \E i \in 1 .. Len(KeywordOrder) : KeywordOrder[i] = k
  BY KeywordCollectionAssumption DEF Keywords, Range

LEMMA BusyHasAttempt ==
  ASSUME TypeOK, NEW w \in Workers, work[w] # Idle
  PROVE  Attempt(w)
  BY DEF TypeOK, Attempt, Attempts

LEMMA AskingHasKeyword ==
  ASSUME TypeOK, NEW w \in Workers, Asking(w)
  PROVE  Attempt(w) /\ Keyword(w) \in Keywords
  BY BusyHasAttempt, Orders DEF Asking, Keyword, Attempt, Queries

LEMMA QueryType ==
  ASSUME TypeOK, NEW e \in SlotEnds, NEW n \in Nat \ {0}
  PROVE  Query(e, n) \in Queries
<1>1. \A k : Due(e, k) \in SUBSET Articles
  BY DEF Due, TypeOK
<1>2. QED
  BY <1>1 DEF Query, Queries

LEMMA NextKeywordType ==
  ASSUME TypeOK, NEW w \in Workers, Asking(w), NEW ok \in BOOLEAN, NextKeyword(w, ok)
  PROVE  work' \in [Workers -> {Idle} \cup Attempts]
<1>1. Attempt(w)
  BY AskingHasKeyword
<1>2. Query(work[w].slot, work[w].query.keyword + 1) \in Queries
  BY <1>1, QueryType DEF Attempt, Attempts, Queries
<1>3. QED
  BY <1>1, <1>2 DEF NextKeyword, TypeOK, Attempts, Attempt

LEMMA DiagnoseType ==
  ASSUME TypeOK, NEW w \in Workers, Asking(w), NEW v \in Verdicts, Diagnose(w, v)
  PROVE  /\ diagnostic' \in [SlotEnds -> [Keywords -> {"none"} \cup Verdicts]]
         /\ asked' \in [SlotEnds -> [Keywords -> SUBSET Articles]]
<1>1. Attempt(w) /\ Keyword(w) \in Keywords
  BY AskingHasKeyword
<1>2. work[w].slot \in SlotEnds /\ work[w].query.due \in SUBSET Articles
  BY <1>1 DEF Attempt, Attempts, Queries
<1>3. QED
  BY <1>1, <1>2 DEF Diagnose, TypeOK

LEMMA ReleaseType ==
  ASSUME TypeOK, NEW w \in Workers, work[w] # Idle,
         NEW to \in {"PENDING"} \cup Ended, Release(w, to)
  PROVE  /\ status' \in [SlotEnds -> {"PENDING", "RUNNING"} \cup Ended]
         /\ holder' \in [SlotEnds -> Workers \cup {NoWorker}]
         /\ attempts' \in [SlotEnds -> Nat]
         /\ work' \in [Workers -> {Idle} \cup Attempts]
<1>1. work[w].slot \in SlotEnds
  BY BusyHasAttempt DEF Attempt, Attempts
<1>2. QED
  BY <1>1 DEF Release, TypeOK

LEMMA TypeStep ==
  TypeOK /\ [Next]_vars => TypeOK'
<1> SUFFICES ASSUME TypeOK, [Next]_vars PROVE TypeOK'
  OBVIOUS
<1> USE DEF slotJob, Ended, Verdicts
<1>1. ASSUME NEW a \in Articles, Index(a) PROVE TypeOK'
  BY <1>1 DEF Index, TypeOK
<1>2. ASSUME NEW w \in Workers, NEW e \in SlotEnds, Claim(w, e) PROVE TypeOK'
  <2>1. Query(e, 1) \in Queries
    BY QueryType
  <2>2. work' \in [Workers -> {Idle} \cup Attempts]
    BY <1>2, <2>1 DEF Claim, Attempts, TypeOK
  <2>3. QED
    BY <1>2, <2>2 DEF Claim, TypeOK
<1>3. ASSUME NEW w \in Workers, FetchPage(w) PROVE TypeOK'
  <2> DEFINE q == work[w].query
             page == Page(Keyword(w), q.start)
  <2>1. Attempt(w) /\ q.start + PageSize \in Nat \ {0}
    BY <1>3, AskingHasKeyword, KeywordCollectionAssumption DEF FetchPage, Attempt, Queries
  <2>2. /\ Extracted(work[w].slot, page) \subseteq Articles
        /\ ResultOf(work[w].slot, page, NextStart(q.start)) \in {"open", "capped", "complete"}
    BY DEF Extracted, Page, Hits, ResultOf, TypeOK
  <2>3. work' \in [Workers -> {Idle} \cup Attempts]
    BY <1>3, <2>1, <2>2 DEF FetchPage, NextStart, Attempt, Attempts, Queries, TypeOK
  <2>4. QED
    BY <1>3, <2>3 DEF FetchPage, TypeOK
<1>4. ASSUME NEW w \in Workers, SaveKeyword(w) PROVE TypeOK'
  <2>1. Asking(w) /\ Attempt(w) /\ Keyword(w) \in Keywords
    BY <1>4, AskingHasKeyword DEF SaveKeyword
  <2>2. work[w].query.result \in Verdicts /\ work[w].query.found \in SUBSET Articles
    BY <1>4, <2>1 DEF SaveKeyword, Attempt, Queries
  <2>3. work' \in [Workers -> {Idle} \cup Attempts]
    BY <1>4, <2>1, NextKeywordType DEF SaveKeyword
  <2>4. rowMarket' \in [Articles -> Markets \cup {"none"}]
    BY <1>4, <2>1 DEF SaveKeyword, Inserted, Markets, TypeOK
  <2>5. matches' \subseteq Articles \X Keywords
    BY <1>4, <2>1, <2>2 DEF SaveKeyword, Matched, TypeOK
  <2>6. QED
    BY <1>4, <2>1, <2>2, <2>3, <2>4, <2>5, DiagnoseType DEF SaveKeyword, TypeOK
<1>5. ASSUME NEW w \in Workers, KeywordFails(w) PROVE TypeOK'
  BY <1>5, NextKeywordType, DiagnoseType DEF KeywordFails, TypeOK
<1>6. ASSUME NEW w \in Workers, Rejected(w) PROVE TypeOK'
  <2>1. Attempt(w) /\ Query(work[w].slot, work[w].query.keyword + 1) \in Queries
    BY <1>6, AskingHasKeyword, QueryType DEF Rejected, Attempt, Attempts, Queries
  <2>2. work' \in [Workers -> {Idle} \cup Attempts]
    BY <1>6, <2>1 DEF Rejected, Attempt, Attempts, TypeOK
  <2>3. QED
    BY <1>6, <2>2, DiagnoseType DEF Rejected, TypeOK
<1>7. ASSUME NEW w \in Workers, Throttled(w) PROVE TypeOK'
  BY <1>7, DiagnoseType, ReleaseType DEF Throttled, Asking, AfterFailure, TypeOK
<1>8. ASSUME NEW w \in Workers, AttemptFails(w) \/ NotConfigured(w) PROVE TypeOK'
  BY <1>8, ReleaseType DEF AttemptFails, NotConfigured, Holds, AfterFailure, TypeOK
<1>9. ASSUME NEW w \in Workers, Finish(w) PROVE TypeOK'
  <2>1. work[w] # Idle /\ work[w].slot \in SlotEnds
    BY <1>9, BusyHasAttempt DEF Finish, Holds, Attempt, Attempts
  <2>2. diagnostic' \in [SlotEnds -> [Keywords -> {"none"} \cup Verdicts]]
    BY <1>9, <2>1 DEF Finish, TypeOK
  <2>3. QED
    BY <1>9, <2>1, <2>2, ReleaseType DEF Finish, TypeOK
<1>10. ASSUME NEW e \in SlotEnds, LeaseExpires(e) PROVE TypeOK'
  BY <1>10 DEF LeaseExpires, AfterFailure, TypeOK
<1>11. ASSUME NEW w \in Workers, FinishRefused(w) \/ Die(w) PROVE TypeOK'
  BY <1>11 DEF FinishRefused, Die, TypeOK
<1>12. CASE UNCHANGED vars
  BY <1>12 DEF vars, TypeOK
<1>13. QED
  BY <1>1, <1>2, <1>3, <1>4, <1>5, <1>6, <1>7, <1>8, <1>9, <1>10, <1>11, <1>12
     DEF Next, Work, Collect, Collect

\* Every variable stays in its type.
THEOREM TypeCorrect == Spec => []TypeOK
<1>1. Init => TypeOK
  BY DEF Init, TypeOK, Ended, Verdicts
<1>2. QED
  BY <1>1, TypeStep, PTL DEF Spec
-----------------------------------------------------------------------------
(***************************************************************************)
(* The inductive invariant.                                                *)
(***************************************************************************)
Searching(w) == work[w] # Idle /\ work[w].query.keyword <= Len(KeywordOrder)

\* What a query has to find is listed and in its window.
DueIsListed ==
  \A w \in Workers : Searching(w) =>
    work[w].query.due \subseteq Due(work[w].slot, Keyword(w))

\* Nothing a query has to find stands before the page it is about to ask for unless
\* it has been found.
NothingPassed ==
  \A w \in Workers : Searching(w) =>
    LET q == work[w].query IN
    /\ q.result = "open" =>
         \A a \in q.due : a \in q.found \/ q.start <= Position(Keyword(w), a)
    /\ q.result = "complete" => q.due \subseteq q.found

\* What complete queries had to find can be read for the market of their keyword.
AskedIsReadable ==
  \A e \in SlotEnds, k \in Keywords : \A a \in asked[e][k] : Readable(a, Market[k])

\* The keywords before the one a worker is at have their diagnostic.
EarlierDiagnosed ==
  \A w \in Workers : work[w] # Idle =>
    \A i \in 1 .. Len(KeywordOrder) :
      i < work[w].query.keyword => diagnostic[work[w].slot][KeywordOrder[i]] # "none"

\* A collection that ended well has asked every keyword.
EndedDiagnosed ==
  \A e \in SlotEnds : status[e] \in {"SUCCESS", "PARTIAL"} =>
    \A k \in Keywords : diagnostic[e][k] # "none"

Paging == TypeOK /\ DueIsListed /\ NothingPassed
Inv == Paging /\ AskedIsReadable /\ EarlierDiagnosed /\ EndedDiagnosed

(***************************************************************************)
(* Paging: what is due is found or still ahead.                            *)
(***************************************************************************)
\* A page finds what is due on it.
LEMMA DueOnThePageIsFound ==
  ASSUME TypeOK, NEW e \in SlotEnds, NEW k \in Keywords, NEW s \in Nat \ {0},
         NEW a \in Due(e, k), a \in Page(k, s)
  PROVE  a \in Extracted(e, Page(k, s))
<1>1. /\ e \in Nat /\ SlotLength \in Nat /\ Overlap \in Nat
      /\ \A b \in Articles : Published[b] \in Nat
  BY KeywordCollectionAssumption
<1>2. a \in Articles /\ Page(k, s) \subseteq Articles
  BY DEF Page, Hits, TypeOK
<1>3. InQuery(e, a)
  BY <1>1, <1>2 DEF Due, InQuery, TooOld
<1>4. \A b \in Page(k, s) : Newer(b, a) => ~TooOld(e, b)
  BY <1>1, <1>2 DEF Due, Newer, TooOld
<1>5. QED
  BY <1>3, <1>4 DEF Extracted

\* When the listing ends, nothing that is due stands behind the page.
LEMMA NothingDueBehind ==
  ASSUME TypeOK, NEW e \in SlotEnds, NEW k \in Keywords, NEW s \in Nat \ {0},
         NEW a \in Due(e, k),
         \/ Cardinality(Page(k, s)) < PageSize
         \/ \E b \in Page(k, s) : TooOld(e, b)
  PROVE  Position(k, a) < s + PageSize
<1>1. listed \subseteq Articles /\ a \in Hits(k) /\ a \in Articles
  BY DEF TypeOK, Due, Hits
<1>2. CASE Cardinality(Page(k, s)) < PageSize
  BY <1>1, <1>2, ShortPageIsTheLast
<1>3. CASE \E b \in Page(k, s) : TooOld(e, b)
  <2>1. PICK b \in Page(k, s) : TooOld(e, b)
    BY <1>3
  <2>2. /\ b \in Articles /\ Position(k, b) < s + PageSize
        /\ Published[a] \in Nat /\ Published[b] \in Nat
        /\ e \in Nat /\ SlotLength \in Nat /\ Overlap \in Nat
    BY <1>1, KeywordCollectionAssumption DEF Page, Hits
  <2>3. Newer(a, b)
    BY <2>1, <2>2 DEF TooOld, Due, Newer
  <2>4. Position(k, a) < Position(k, b)
    BY <1>1, <2>2, <2>3, NewerStandsBefore
  <2>5. /\ Position(k, a) \in Nat /\ Position(k, b) \in Nat
        /\ s + PageSize \in Nat
    BY <1>1, <2>2, AheadIsFinite, KeywordCollectionAssumption
  <2>6. QED
    BY <2>2, <2>4, <2>5
<1>4. QED
  BY <1>2, <1>3

\* The listing only grows: an article never moves towards the front.
LEMMA PositionsGrow ==
  ASSUME TypeOK, TypeOK', listed \subseteq listed', NEW k, NEW a \in Articles
  PROVE  Position(k, a) <= Position(k, a)'
<1>1. {b \in Hits(k) : Newer(b, a)} \subseteq {b \in Hits(k)' : Newer(b, a)}
  BY DEF Hits
<1>2. IsFiniteSet({b \in Hits(k)' : Newer(b, a)})
  BY KeywordCollectionAssumption, FS_Subset DEF Hits, TypeOK
<1>3. /\ IsFiniteSet({b \in Hits(k) : Newer(b, a)})
      /\ Cardinality({b \in Hits(k) : Newer(b, a)})
           <= Cardinality({b \in Hits(k)' : Newer(b, a)})
  BY <1>1, <1>2, FS_Subset
<1>4. /\ Cardinality({b \in Hits(k) : Newer(b, a)}) \in Nat
      /\ Cardinality({b \in Hits(k)' : Newer(b, a)}) \in Nat
  BY <1>2, <1>3, FS_CardinalityType
<1>5. QED
  BY <1>3, <1>4 DEF Position, Newer

\* A fresh query has passed nothing.
LEMMA FreshQuery ==
  ASSUME TypeOK, NEW e \in SlotEnds, NEW n \in Nat \ {0}, n <= Len(KeywordOrder)
  PROVE  LET q == Query(e, n) IN
         /\ q.keyword = n /\ q.result = "open"
         /\ q.due = Due(e, KeywordOrder[n])
         /\ \A a \in q.due : q.start <= Position(KeywordOrder[n], a)
<1>1. \A a \in Due(e, KeywordOrder[n]) : 1 <= Position(KeywordOrder[n], a)
  BY AheadIsFinite DEF Due, TypeOK
<1>2. QED
  BY <1>1 DEF Query

\* What Paging says of one worker.
PagingOf(w) ==
  Searching(w) =>
    LET q == work[w].query IN
    /\ q.due \subseteq Due(work[w].slot, Keyword(w))
    /\ q.result = "open" =>
         \A a \in q.due : a \in q.found \/ q.start <= Position(Keyword(w), a)
    /\ q.result = "complete" => q.due \subseteq q.found

\* A worker that keeps its attempt loses nothing while the listing grows.
LEMMA PagingKept ==
  ASSUME TypeOK, TypeOK', listed \subseteq listed', NEW w \in Workers, PagingOf(w),
         work'[w] = work[w]
  PROVE  PagingOf(w)'
<1>1. SUFFICES ASSUME Searching(w) PROVE PagingOf(w)'
  BY DEF PagingOf, Searching
<1> PICK k, e : k = Keyword(w) /\ e = work[w].slot
  OBVIOUS
<1>2. Due(e, k) \subseteq Due(e, k)' /\ Keyword(w)' = k /\ work'[w].slot = e
  BY DEF Due, Keyword
<1>3. \A a \in work[w].query.due : Position(k, a) <= Position(k, a)'
  <2>1. work[w].query.due \subseteq Articles
    BY <1>1, BusyHasAttempt DEF Searching, Attempt, Queries
  <2>2. QED
    BY <2>1, PositionsGrow
<1>4. \A a \in work[w].query.due :
        /\ Position(k, a) \in Nat /\ Position(k, a)' \in Nat
        /\ work[w].query.start \in Nat
  <2>1. Attempt(w) /\ work[w].query.due \subseteq Articles
    BY <1>1, BusyHasAttempt DEF Searching, Attempt, Queries
  <2>2. listed \subseteq Articles /\ listed' \subseteq Articles
    BY DEF TypeOK
  <2>3. \A a \in Articles : Position(k, a) \in Nat
    BY <2>2, AheadIsFinite
  <2>4. \A a \in Articles : Position(k, a)' \in Nat
    <3>1. TAKE a \in Articles
    <3>2. IsFiniteSet({b \in Hits(k)' : Newer(b, a)})
      BY <2>2, KeywordCollectionAssumption, FS_Subset DEF Hits
    <3>3. QED
      BY <3>2, FS_CardinalityType DEF Position, Newer
  <2>5. QED
    BY <2>1, <2>3, <2>4 DEF Attempt, Queries
<1>5. QED
  BY <1>1, <1>2, <1>3, <1>4 DEF PagingOf, Searching

LEMMA PagingOfFetch ==
  ASSUME TypeOK, TypeOK', NEW w \in Workers, PagingOf(w), FetchPage(w)
  PROVE  PagingOf(w)'
<1> DEFINE q == work[w].query
           e == work[w].slot
           k == Keyword(w)
           page == Page(k, q.start)
<1>1. /\ Asking(w) /\ Attempt(w) /\ k \in Keywords /\ Searching(w)
      /\ e \in SlotEnds /\ q.start \in Nat \ {0} /\ q.due \subseteq Due(e, k)
  BY AskingHasKeyword DEF FetchPage, Asking, Attempt, Attempts, Queries, PagingOf, Searching
<1>2. /\ work'[w].slot = e /\ work'[w].query.keyword = q.keyword
      /\ work'[w].query.due = q.due
      /\ work'[w].query.start = q.start + PageSize
      /\ work'[w].query.found = q.found \cup Extracted(e, page)
      /\ work'[w].query.result = ResultOf(e, page, q.start + PageSize)
      /\ listed' = listed
  BY <1>1 DEF FetchPage, NextStart, TypeOK, Attempt, Attempts, Queries
<1>3. ASSUME NEW a \in q.due PROVE a \in q.found \/ q.start <= Position(k, a)
  BY <1>1, <1>3 DEF PagingOf, FetchPage
<1>4. ASSUME NEW a \in q.due, Position(k, a) < q.start + PageSize
      PROVE  a \in q.found \cup Extracted(e, page)
  <2>1. CASE q.start <= Position(k, a)
    <3>1. a \in Due(e, k) /\ a \in page
      BY <1>1, <1>4, <2>1 DEF Page, Hits, Due
    <3>2. QED
      BY <1>1, <3>1, DueOnThePageIsFound
  <2>2. QED
    BY <1>3, <2>1
<1>5. \A a \in q.due : Position(k, a) \in Nat
  BY <1>1, AheadIsFinite DEF Due, TypeOK
<1>6. \A a \in q.due : a \in q.found \cup Extracted(e, page) \/ q.start + PageSize <= Position(k, a)
  BY <1>1, <1>4, <1>5, KeywordCollectionAssumption
<1>7. ASSUME ResultOf(e, page, q.start + PageSize) = "complete", NEW a \in q.due
      PROVE  a \in q.found \cup Extracted(e, page)
  <2>1. Cardinality(page) < PageSize \/ \E b \in page : TooOld(e, b)
    BY <1>7 DEF ResultOf
  <2>2. Position(k, a) < q.start + PageSize
    BY <1>1, <2>1, NothingDueBehind
  <2>3. QED
    BY <1>4, <2>2
<1>8. /\ Keyword(w)' = k /\ \A a \in q.due : Position(k, a)' = Position(k, a)
      /\ Due(e, k)' = Due(e, k)
  BY <1>2 DEF Keyword, Position, Hits, Newer, Due
<1>9. QED
  BY <1>1, <1>2, <1>6, <1>7, <1>8 DEF PagingOf

LEMMA PagingOfNext ==
  ASSUME TypeOK, NEW w \in Workers, NEW e \in SlotEnds, NEW n \in Nat \ {0},
         listed' = listed, work'[w] # Idle, work'[w].slot = e, work'[w].query = Query(e, n)
  PROVE  PagingOf(w)'
<1>1. SUFFICES ASSUME Searching(w)' PROVE PagingOf(w)'
  BY DEF PagingOf
<1>2. n <= Len(KeywordOrder)
  BY <1>1 DEF Searching, Query
<1>3. /\ work'[w].query.keyword = n /\ work'[w].query.result = "open"
      /\ work'[w].query.due = Due(e, KeywordOrder[n])
      /\ \A a \in work'[w].query.due : work'[w].query.start <= Position(KeywordOrder[n], a)
  BY <1>2, FreshQuery
<1>4. /\ Keyword(w)' = KeywordOrder[n] /\ Due(e, KeywordOrder[n])' = Due(e, KeywordOrder[n])
      /\ \A a : Position(KeywordOrder[n], a)' = Position(KeywordOrder[n], a)
  BY <1>3 DEF Keyword, Due, Position, Hits, Newer
<1>5. QED
  BY <1>3, <1>4 DEF PagingOf

LEMMA PagingStep ==
  Paging /\ [Next]_vars => Paging'
<1> SUFFICES ASSUME TypeOK, \A w \in Workers : PagingOf(w), [Next]_vars,
                    TypeOK', NEW v \in Workers
             PROVE  PagingOf(v)'
  BY TypeStep DEF Paging, PagingOf, DueIsListed, NothingPassed
<1>1. ASSUME NEW w \in Workers, w # v, Work(w) \/ Die(w) PROVE PagingOf(v)'
  <2>1. listed' = listed /\ work'[v] = work[v]
    BY <1>1 DEF Work, Collect, Claim, FetchPage, SaveKeyword, KeywordFails, Rejected, Throttled,
                AttemptFails, NotConfigured, Finish, FinishRefused, Die, NextKeyword, Release, TypeOK
  <2>2. QED
    BY <2>1, PagingKept
<1>2. CASE \/ \E a \in Articles : Index(a)
           \/ \E e \in SlotEnds : LeaseExpires(e)
           \/ UNCHANGED vars
  <2>1. listed \subseteq listed' /\ work' = work
    BY <1>2 DEF Index, LeaseExpires, vars
  <2>2. QED
    BY <2>1, PagingKept
<1>3. ASSUME NEW e \in SlotEnds, Claim(v, e) PROVE PagingOf(v)'
  <2>1. /\ listed' = listed /\ work'[v].slot = e /\ work'[v].query = Query(e, 1)
        /\ work'[v] # Idle
    BY <1>3, QueryType DEF Claim, TypeOK, Idle
  <2>2. QED
    BY <2>1, PagingOfNext
<1>4. CASE FetchPage(v)
  BY <1>4, PagingOfFetch
<1>5. CASE SaveKeyword(v) \/ KeywordFails(v) \/ Rejected(v)
  <2> DEFINE n == work[v].query.keyword + 1
             e == work[v].slot
  <2>0. Asking(v)
    BY <1>5 DEF SaveKeyword, KeywordFails, Rejected
  <2>1. Attempt(v) /\ e \in SlotEnds /\ n \in Nat \ {0} /\ work[v] # Idle
    BY <2>0, AskingHasKeyword DEF Asking, Attempt, Attempts, Queries
  <2>2. /\ listed' = listed /\ work'[v].slot = e /\ work'[v].query = Query(e, n)
        /\ work'[v] # Idle
    BY <1>5, <2>1
       DEF SaveKeyword, KeywordFails, Rejected, NextKeyword, Attempt, Attempts, TypeOK, Idle
  <2>3. QED
    BY <2>1, <2>2, PagingOfNext
<1>6. CASE Throttled(v) \/ AttemptFails(v) \/ NotConfigured(v) \/ Finish(v) \/ FinishRefused(v) \/ Die(v)
  <2>1. work'[v] = Idle
    BY <1>6 DEF Throttled, AttemptFails, NotConfigured, Finish, FinishRefused, Die, Release, TypeOK
  <2>2. QED
    BY <2>1 DEF PagingOf, Searching
<1>7. CASE \E w \in Workers : Work(w) \/ Die(w)
  <2>1. PICK w \in Workers : Work(w) \/ Die(w)
    BY <1>7
  <2>2. CASE w = v
    BY <1>3, <1>4, <1>5, <1>6, <2>1, <2>2 DEF Work, Collect
  <2>3. QED
    BY <1>1, <2>1, <2>2
<1>8. QED
  BY <1>2, <1>7 DEF Next

(***************************************************************************)
(* What was due can be read.                                               *)
(***************************************************************************)
LEMMA ReadableStays ==
  ASSUME NEW a \in Articles, NEW m, m # "none", Readable(a, m),
         matches \subseteq matches', rowMarket[a] # "none" => rowMarket'[a] = rowMarket[a]
  PROVE  Readable(a, m)'
  BY DEF Readable

LEMMA SavedIsReadable ==
  ASSUME TypeOK, NEW w \in Workers, SaveKeyword(w), NEW a \in work[w].query.found,
         NEW k \in Keywords, k = Keyword(w)
  PROVE  Readable(a, Market[k])'
<1>1. Attempt(w) /\ a \in Articles
  BY AskingHasKeyword DEF SaveKeyword, Attempt, Queries
<1>2. Market[k] # "none"
  BY KeywordCollectionAssumption DEF Markets
<1>3. <<a, k>> \in matches' /\ rowMarket'[a] # "none"
  BY <1>1, <1>2 DEF SaveKeyword, Matched, Inserted
<1>4. QED
  BY <1>3 DEF Readable

LEMMA ReadableStep ==
  Paging /\ AskedIsReadable /\ [Next]_vars => AskedIsReadable'
<1> SUFFICES ASSUME Paging, AskedIsReadable, [Next]_vars, TypeOK, TypeOK',
                    NEW d \in SlotEnds, NEW k \in Keywords, NEW a \in asked'[d][k]
             PROVE  Readable(a, Market[k])'
  BY TypeStep DEF AskedIsReadable, Paging
<1>0. a \in Articles /\ Market[k] # "none"
  BY KeywordCollectionAssumption DEF Markets, TypeOK
<1>1. CASE UNCHANGED <<rowMarket, matches, asked>>
  BY <1>1 DEF AskedIsReadable, Readable
<1>2. ASSUME NEW w \in Workers, SaveKeyword(w) PROVE Readable(a, Market[k])'
  <2>1. Attempt(w) /\ Asking(w) /\ Keyword(w) \in Keywords /\ work[w].slot \in SlotEnds
    BY <1>2, AskingHasKeyword DEF SaveKeyword, Attempt, Attempts
  <2>2. CASE a \in asked[d][k]
    <3>1. matches \subseteq matches'
      BY <1>2 DEF SaveKeyword, Matched
    <3>2. rowMarket[a] # "none" => rowMarket'[a] = rowMarket[a]
      BY <1>0, <1>2 DEF SaveKeyword, Inserted
    <3>3. Readable(a, Market[k])
      BY <2>2 DEF AskedIsReadable
    <3>4. QED
      BY <1>0, <3>1, <3>2, <3>3, ReadableStays
  <2>3. CASE a \notin asked[d][k]
    <3>1. /\ d = work[w].slot /\ k = Keyword(w)
          /\ work[w].query.result = "complete" /\ a \in work[w].query.due
      BY <1>2, <2>1, <2>3 DEF SaveKeyword, Diagnose, TypeOK
    <3>2. Searching(w)
      BY <2>1 DEF Asking, Searching
    <3>3. a \in work[w].query.found
      BY <3>1, <3>2 DEF Paging, NothingPassed
    <3>4. QED
      BY <1>2, <3>1, <3>3, SavedIsReadable
  <2>4. QED
    BY <2>2, <2>3
<1>3. ASSUME NEW w \in Workers, KeywordFails(w) \/ Rejected(w) \/ Throttled(w)
      PROVE  Readable(a, Market[k])'
  <2>1. Asking(w) /\ Keyword(w) \in Keywords /\ work[w].slot \in SlotEnds
    BY <1>3, AskingHasKeyword DEF KeywordFails, Rejected, Throttled, Attempt, Attempts
  <2>2. Diagnose(w, "failed") /\ UNCHANGED <<rowMarket, matches>>
    BY <1>3 DEF KeywordFails, Rejected, Throttled
  <2>3. a \in asked[d][k]
    BY <2>1, <2>2 DEF Diagnose, TypeOK
  <2>4. QED
    BY <2>2, <2>3 DEF AskedIsReadable, Readable
<1>4. QED
  BY <1>1, <1>2, <1>3
     DEF Next, Work, Collect, Index, Claim, FetchPage, AttemptFails, NotConfigured, Finish,
         FinishRefused, LeaseExpires, Die, vars

(***************************************************************************)
(* Every keyword was asked.                                                *)
(***************************************************************************)
\* A diagnostic is replaced, never removed.
LEMMA DiagnosticsStay ==
  ASSUME TypeOK, [Next]_vars, NEW e \in SlotEnds, NEW k \in Keywords,
         diagnostic[e][k] # "none"
  PROVE  diagnostic'[e][k] # "none"
<1>1. ASSUME NEW w \in Workers, NEW v \in Verdicts, Asking(w), Diagnose(w, v)
      PROVE  diagnostic'[e][k] # "none"
  <2>1. Keyword(w) \in Keywords /\ work[w].slot \in SlotEnds
    BY <1>1, AskingHasKeyword DEF Attempt, Attempts
  <2>2. QED
    BY <1>1, <2>1 DEF Diagnose, Verdicts, TypeOK
<1>2. ASSUME NEW w \in Workers, SaveKeyword(w) PROVE diagnostic'[e][k] # "none"
  <2>1. Asking(w) /\ work[w].query.result \in Verdicts
    BY <1>2, AskingHasKeyword DEF SaveKeyword, Attempt, Queries, Verdicts
  <2>2. QED
    BY <1>1, <1>2, <2>1 DEF SaveKeyword
<1>3. ASSUME NEW w \in Workers, KeywordFails(w) \/ Rejected(w) \/ Throttled(w)
      PROVE  diagnostic'[e][k] # "none"
  BY <1>1, <1>3 DEF KeywordFails, Rejected, Throttled, Verdicts
<1>4. ASSUME NEW w \in Workers, Finish(w) PROVE diagnostic'[e][k] # "none"
  <2>1. work[w].slot \in SlotEnds
    BY <1>4, BusyHasAttempt DEF Finish, Holds, Attempt, Attempts
  <2>2. QED
    BY <1>4, <2>1 DEF Finish, TypeOK
<1>5. CASE diagnostic' = diagnostic
  BY <1>5
<1>6. QED
  BY <1>2, <1>3, <1>4, <1>5
     DEF Next, Work, Collect, Index, Claim, FetchPage, AttemptFails, NotConfigured,
         FinishRefused, LeaseExpires, Die, vars

LEMMA EarlierStep ==
  TypeOK /\ EarlierDiagnosed /\ [Next]_vars => EarlierDiagnosed'
<1> SUFFICES ASSUME TypeOK, EarlierDiagnosed, [Next]_vars, TypeOK', NEW v \in Workers,
                    work'[v] # Idle, NEW i \in 1 .. Len(KeywordOrder),
                    i < work'[v].query.keyword
             PROVE  diagnostic'[work'[v].slot][KeywordOrder[i]] # "none"
  BY TypeStep DEF EarlierDiagnosed
<1>0. KeywordOrder[i] \in Keywords /\ i \in Nat
  BY Orders
<1>1. CASE work[v] # Idle /\ work'[v].slot = work[v].slot /\ i < work[v].query.keyword
  <2>1. work[v].slot \in SlotEnds
    BY <1>1, BusyHasAttempt DEF Attempt, Attempts
  <2>2. QED
    BY <1>0, <1>1, <2>1, DiagnosticsStay DEF EarlierDiagnosed
<1>2. ASSUME NEW e \in SlotEnds, Claim(v, e) PROVE FALSE
  <2>1. work'[v].query.keyword = 1
    BY <1>2 DEF Claim, Query, TypeOK
  <2>2. QED
    BY <1>0, <2>1
<1>3. CASE FetchPage(v)
  <2>1. work[v] # Idle /\ Attempt(v)
    BY <1>3, AskingHasKeyword DEF FetchPage, Asking
  <2>2. work'[v].slot = work[v].slot /\ work'[v].query.keyword = work[v].query.keyword
    BY <1>3, <2>1 DEF FetchPage, TypeOK, Attempt, Attempts, Queries
  <2>3. QED
    BY <1>1, <2>1, <2>2
<1>4. CASE SaveKeyword(v) \/ KeywordFails(v) \/ Rejected(v)
  <2>0. Asking(v) /\ (\E verdict \in Verdicts : Diagnose(v, verdict))
    <3>1. Asking(v)
      BY <1>4 DEF SaveKeyword, KeywordFails, Rejected
    <3>2. work[v].query.result # "open" => work[v].query.result \in Verdicts
      BY <3>1, AskingHasKeyword DEF Attempt, Queries, Verdicts
    <3>3. QED
      BY <1>4, <3>1, <3>2 DEF SaveKeyword, KeywordFails, Rejected, Verdicts
  <2>1. /\ Attempt(v) /\ work[v] # Idle /\ work[v].slot \in SlotEnds
        /\ work[v].query.keyword \in Nat \ {0} /\ Keyword(v) \in Keywords
    BY <2>0, AskingHasKeyword DEF Asking, Attempt, Attempts, Queries
  <2>2. work'[v].slot = work[v].slot /\ work'[v].query.keyword = work[v].query.keyword + 1
    BY <1>4, <2>1
       DEF SaveKeyword, KeywordFails, Rejected, NextKeyword, Query, Attempt, Attempts, TypeOK
  <2>3. CASE i < work[v].query.keyword
    BY <1>1, <2>1, <2>2, <2>3
  <2>4. CASE i = work[v].query.keyword
    BY <2>0, <2>1, <2>2, <2>4 DEF Diagnose, Keyword, Verdicts, TypeOK
  <2>5. QED
    BY <1>0, <2>1, <2>2, <2>3, <2>4
<1>5. CASE Throttled(v) \/ AttemptFails(v) \/ NotConfigured(v) \/ Finish(v) \/ FinishRefused(v) \/ Die(v)
  BY <1>5 DEF Throttled, AttemptFails, NotConfigured, Finish, FinishRefused, Die, Release, TypeOK
<1>6. CASE work'[v] = work[v]
  BY <1>1, <1>6
<1>7. ASSUME NEW w \in Workers, w # v, Work(w) \/ Die(w) PROVE work'[v] = work[v]
  BY <1>7 DEF Work, Collect, Claim, FetchPage, SaveKeyword, KeywordFails, Rejected, Throttled,
              AttemptFails, NotConfigured, Finish, FinishRefused, Die, NextKeyword, Release, TypeOK
<1>8. CASE \E w \in Workers : Work(w) \/ Die(w)
  <2>1. PICK w \in Workers : Work(w) \/ Die(w)
    BY <1>8
  <2>2. CASE w = v
    BY <1>2, <1>3, <1>4, <1>5, <2>1, <2>2 DEF Work, Collect
  <2>3. QED
    BY <1>6, <1>7, <2>1, <2>2
<1>9. QED
  BY <1>6, <1>8 DEF Next, Index, LeaseExpires, vars

LEMMA EndedStep ==
  TypeOK /\ EarlierDiagnosed /\ EndedDiagnosed /\ [Next]_vars => EndedDiagnosed'
<1> SUFFICES ASSUME TypeOK, EarlierDiagnosed, EndedDiagnosed, [Next]_vars,
                    NEW e \in SlotEnds, status'[e] \in {"SUCCESS", "PARTIAL"},
                    NEW k \in Keywords
             PROVE  diagnostic'[e][k] # "none"
  BY DEF EndedDiagnosed
<1>1. CASE status[e] \in {"SUCCESS", "PARTIAL"}
  BY <1>1, DiagnosticsStay DEF EndedDiagnosed
<1>2. ASSUME NEW w \in Workers, Finish(w), status[e] \notin {"SUCCESS", "PARTIAL"}
      PROVE  diagnostic'[e][k] # "none"
  <2>1. /\ Attempt(w) /\ work[w] # Idle /\ work[w].slot = e /\ ~work[w].rejected
        /\ work[w].query.keyword \in Nat
    BY <1>2, BusyHasAttempt DEF Finish, Holds, Release, TypeOK, Attempt, Attempts, Queries
  <2>2. Len(KeywordOrder) < work[w].query.keyword
    BY <1>2, <2>1, Orders DEF Finish, Done
  <2>3. PICK i \in 1 .. Len(KeywordOrder) : KeywordOrder[i] = k
    BY Orders
  <2>4. diagnostic[e][k] # "none"
    BY <2>1, <2>2, <2>3, Orders DEF EarlierDiagnosed
  <2>5. QED
    BY <2>4, DiagnosticsStay
<1>3. ASSUME status[e] \notin {"SUCCESS", "PARTIAL"}, ~(\E w \in Workers : Finish(w))
      PROVE  FALSE
  BY <1>3
     DEF Next, Work, Collect, Index, Claim, FetchPage, SaveKeyword, KeywordFails, Rejected, Throttled,
         AttemptFails, NotConfigured, FinishRefused, LeaseExpires, Die, Release, AfterFailure, slotJob, vars,
         TypeOK
<1>4. QED
  BY <1>1, <1>2, <1>3
-----------------------------------------------------------------------------
\* The inductive invariant: what a keyword's query has read, what its page left out,
\* what a slot's status claims.
THEOREM Inductive == Spec => []Inv
<1>1. Init => Inv
  BY DEF Init, Inv, Paging, TypeOK, Ended, Verdicts, DueIsListed, NothingPassed, Searching,
         AskedIsReadable, EarlierDiagnosed, EndedDiagnosed
<1>2. Inv /\ [Next]_vars => Inv'
  BY PagingStep, ReadableStep, EarlierStep, EndedStep DEF Inv, Paging
<1>3. QED
  BY <1>1, <1>2, PTL DEF Spec

\* A slot that counts as covered for a market can be read for it: every article that was
\* due when the queries of its keywords began, however the listing grew while they paged.
THEOREM CoveredIsReadable == Spec => []CoveredMeansReadable
<1>1. Inv => CoveredMeansReadable
  <2> SUFFICES ASSUME Inv, NEW e \in SlotEnds, NEW m \in Markets, Covered(e, m),
                      NEW k \in Keywords, Market[k] = m
               PROVE  /\ diagnostic[e][k] = "complete"
                      /\ \A a \in asked[e][k] : Readable(a, m)
    BY DEF CoveredMeansReadable
  <2>1. diagnostic[e][k] # "none"
    BY DEF Inv, EndedDiagnosed, Covered
  <2>2. diagnostic[e][k] = "complete"
    BY <2>1 DEF Covered
  <2>3. QED
    BY <2>2 DEF Inv, AskedIsReadable
<1>2. QED
  BY <1>1, Inductive, PTL
-----------------------------------------------------------------------------
(***************************************************************************)
(* DailyClusters.                                                          *)
(***************************************************************************)
(***************************************************************************)
(* Putting a set in order.                                                 *)
(***************************************************************************)
StrictOrder(before, S) ==
  /\ \A x \in S : <<x, x>> \notin before
  /\ \A x, y \in S : x # y => <<x, y>> \in before \/ <<y, x>> \in before
  /\ \A x, y, z \in S : <<x, y>> \in before /\ <<y, z>> \in before => <<x, z>> \in before

\* s tells of every member of S once, in the order of `before`.
Lists(s, S, before) ==
  /\ s \in [1 .. Cardinality(S) -> S]
  /\ s \in Seq(S) /\ Len(s) = Cardinality(S)
  /\ ToSet(s) = S /\ IsInjective(s)
  /\ \A i, l \in DOMAIN s : i < l => <<s[i], s[l]>> \in before

Before(x, S, before) == {y \in S : <<y, x>> \in before}
Standing(x, S, before) == Cardinality(Before(x, S, before))

LEMMA StandingInOrder ==
  ASSUME NEW S, IsFiniteSet(S), NEW before, StrictOrder(before, S), NEW x \in S
  PROVE  /\ Standing(x, S, before) \in 0 .. Cardinality(S) - 1
         /\ \A y \in S : <<y, x>> \in before => Standing(y, S, before) < Standing(x, S, before)
<1>1. ASSUME NEW z \in S
      PROVE  IsFiniteSet(Before(z, S, before)) /\ Standing(z, S, before) \in 0 .. Cardinality(S) - 1
  <2>1. Before(z, S, before) \in SUBSET (S \ {z})
    BY DEF StrictOrder, Before
  <2>2. IsFiniteSet(S \ {z}) /\ Cardinality(S \ {z}) = Cardinality(S) - 1 /\ Cardinality(S) \in Nat
    BY FS_RemoveElement, FS_CardinalityType
  <2>3. /\ IsFiniteSet(Before(z, S, before))
        /\ Cardinality(Before(z, S, before)) <= Cardinality(S) - 1
    BY <2>1, <2>2, FS_Subset
  <2>4. Cardinality(Before(z, S, before)) \in Nat
    BY <2>3, FS_CardinalityType
  <2>. QED  BY <2>2, <2>3, <2>4 DEF Standing
<1>2. ASSUME NEW y \in S, <<y, x>> \in before
      PROVE  Standing(y, S, before) < Standing(x, S, before)
  <2>1. Before(y, S, before) \in SUBSET (Before(x, S, before) \ {y}) /\ y \in Before(x, S, before)
    BY <1>2 DEF StrictOrder, Before
  <2>2. /\ IsFiniteSet(Before(x, S, before) \ {y})
        /\ Cardinality(Before(x, S, before) \ {y}) = Cardinality(Before(x, S, before)) - 1
    BY <2>1, <1>1, FS_RemoveElement
  <2>3. Cardinality(Before(y, S, before)) <= Cardinality(Before(x, S, before)) - 1
    BY <2>1, <2>2, FS_Subset
  <2>. QED  BY <2>3, <1>1 DEF Standing
<1>. QED  BY <1>1, <1>2

\* Every member stands where the number of those before it says.
LEMMA InOrderLists ==
  ASSUME NEW S, IsFiniteSet(S), NEW before, StrictOrder(before, S)
  PROVE  Lists(InOrder(S, before), S, before)
<1>. DEFINE n == Cardinality(S)
            at(x) == Standing(x, S, before)
            f == [x \in S |-> at(x) + 1]
            s == InOrder(S, before)
<1>0. n \in Nat
  BY FS_CardinalityType
<1>1. ASSUME NEW x \in S  PROVE at(x) \in 0 .. n - 1
  BY StandingInOrder
<1>2. ASSUME NEW x \in S, NEW y \in S, <<x, y>> \in before  PROVE at(x) < at(y)
  BY StandingInOrder, <1>2
<1>3. ASSUME NEW x \in S, NEW y \in S, x # y  PROVE at(x) # at(y)
  <2>1. at(x) < at(y) \/ at(y) < at(x)
    BY <1>2, <1>3 DEF StrictOrder
  <2>. QED  BY <2>1, <1>0, <1>1
<1>4. f \in Surjection(S, 1 .. n)
  <2>1. f \in [S -> 1 .. n]
    BY <1>0, <1>1
  <2>2. ASSUME NEW x \in S, NEW y \in S, x # y  PROVE f[x] # f[y]
    BY <1>3, <2>2, <1>0, <1>1
  <2>3. f \in Injection(S, 1 .. n)
    BY <2>1, <2>2 DEF Injection, IsInjective
  <2>4. IsFiniteSet(1 .. n) /\ Cardinality(1 .. n) = n
    BY <1>0, FS_Interval
  <2>. HIDE DEF f
  <2>. QED  BY <2>3, <2>4, FS_Injection
<1>5. ASSUME NEW i \in 1 .. n  PROVE \E x \in S : at(x) = i - 1
  <2>1. PICK x \in S : f[x] = i
    BY <1>4 DEF Surjection
  <2>. QED  BY <2>1, <1>0, <1>1
<1>6. s = [i \in 1 .. n |-> CHOOSE x \in S : at(x) = i - 1]
  BY DEF InOrder, Standing, Before
<1>. HIDE DEF s, f, n
<1>7. ASSUME NEW i \in 1 .. n  PROVE s[i] \in S /\ at(s[i]) = i - 1
  BY <1>5, <1>6
<1>8. s \in [1 .. n -> S]
  BY <1>6, <1>7
<1>9. ASSUME NEW x \in S  PROVE \E i \in 1 .. n : s[i] = x
  <2>1. at(x) + 1 \in 1 .. n
    BY <1>0, <1>1
  <2>2. s[at(x) + 1] \in S /\ at(s[at(x) + 1]) = at(x)
    BY <2>1, <1>0, <1>1, <1>7
  <2>3. s[at(x) + 1] = x
    BY <2>2, <1>3
  <2>. QED  BY <2>1, <2>3
<1>10. ASSUME NEW i \in 1 .. n, NEW l \in 1 .. n, i < l  PROVE <<s[i], s[l]>> \in before
  <2>1. s[i] \in S /\ s[l] \in S /\ at(s[i]) = i - 1 /\ at(s[l]) = l - 1
    BY <1>7
  <2>2. s[i] # s[l] /\ ~(at(s[l]) < at(s[i]))
    BY <2>1, <1>10, <1>0
  <2>. QED  BY <2>1, <2>2, <1>2 DEF StrictOrder
<1>11. DOMAIN s = 1 .. n /\ s \in Seq(S) /\ Len(s) = n
  BY <1>8, <1>0
<1>12. ToSet(s) = S
  BY <1>8, <1>9, <1>11 DEF ToSet
<1>13. IsInjective(s)
  <2>1. ASSUME NEW i \in 1 .. n, NEW l \in 1 .. n, s[i] = s[l]  PROVE i = l
    BY <1>7, <2>1, <1>0
  <2>. QED  BY <2>1, <1>11 DEF IsInjective
<1>. QED  BY <1>8, <1>10, <1>11, <1>12, <1>13 DEF Lists, n, s

LEMMA SmallestSubset ==
  ASSUME NEW S, IsFiniteSet(S), NEW T, T \subseteq SUBSET S, T # {}
  PROVE  \E s \in T : \A t \in T : t \subseteq s => t = s
<1>1. IsWellFoundedOn(StrictSubsetOrdering(S), SUBSET S)
  BY FS_StrictSubsetOrderingWellFounded, FS_FiniteSubsetsOfFinite
<1>2. \E s \in T : \A t \in T : ~ (<<t, s>> \in StrictSubsetOrdering(S))
  BY <1>1, WFMin
<1>. QED  BY <1>2 DEF StrictSubsetOrdering

\* The least-number principle, for a set of numbers up to n.
LEMMA LeastNumber ==
  ASSUME NEW n \in Nat, NEW T, T \subseteq 0 .. n, T # {}
  PROVE  \E m \in T : \A l \in T : m <= l
<1>. DEFINE all == 0 .. n
            below == {0 .. m : m \in T}
<1>1. IsFiniteSet(all)
  BY FS_Interval
<1>2. below \subseteq SUBSET all /\ below # {}
  <2>1. ASSUME NEW m \in T  PROVE 0 .. m \subseteq 0 .. n
    OBVIOUS
  <2>. QED  BY <2>1
<1>3. PICK s \in below : \A t \in below : t \subseteq s => t = s
  <2>. HIDE DEF below, all
  <2>. QED  BY <1>1, <1>2, SmallestSubset
<1>4. PICK m \in T : s = 0 .. m
  BY <1>3
<1>5. ASSUME NEW l \in T, l < m  PROVE FALSE
  <2>1. 0 .. l \in below /\ 0 .. l \subseteq s
    BY <1>4, <1>5
  <2>2. 0 .. l = s
    BY <2>1, <1>3
  <2>3. m \in 0 .. l
    BY <2>2, <1>4
  <2>. QED  BY <2>3, <1>5
<1>. QED  BY <1>4, <1>5

(***************************************************************************)
(* Placing an article.                                                     *)
(***************************************************************************)
\* new is groups with article a added, as member pos of group at.
Seated(new, groups, a, at, pos) ==
  /\ DOMAIN new = DOMAIN groups \cup {at} /\ pos \in DOMAIN new[at] /\ new[at][pos] = a
  /\ at \in DOMAIN groups => pos \notin DOMAIN groups[at] /\ pos # 1
  /\ at \notin DOMAIN groups => pos = 1
  /\ \A g \in DOMAIN groups :
       \A i \in DOMAIN groups[g] : i \in DOMAIN new[g] /\ new[g][i] = groups[g][i]
  /\ \A g \in DOMAIN new : \A i \in DOMAIN new[g] :
       \/ g = at /\ i = pos
       \/ g \in DOMAIN groups /\ i \in DOMAIN groups[g]

LEMMA PlaceSeats ==
  ASSUME NEW T, NEW groups \in Seq(Seq(T)), NEW fit \in 0 .. Len(groups), NEW a,
         \A g \in DOMAIN groups : groups[g] # <<>>
  PROVE  LET new == Place(groups, fit, a)
             at == IF fit = 0 THEN Len(groups) + 1 ELSE fit
         IN  /\ new \in Seq(Seq(T \cup {a}))
             /\ DOMAIN new = 1 .. Len(new) /\ DOMAIN groups = 1 .. Len(groups)
             /\ Len(new) = IF fit = 0 THEN Len(groups) + 1 ELSE Len(groups)
             /\ \E pos : Seated(new, groups, a, at, pos)
<1>. DEFINE new == Place(groups, fit, a)
            U == T \cup {a}
<1>1. Seq(T) \subseteq Seq(U) /\ a \in U
  BY SeqMonotonic
<1>2. groups \in Seq(Seq(U))
  BY <1>1, SeqMonotonic
<1>3. \A g \in 1 .. Len(groups) : groups[g] \in Seq(U) /\ DOMAIN groups[g] = 1 .. Len(groups[g])
                                   /\ Len(groups[g]) \in Nat /\ Len(groups[g]) # 0
  <2>1. ASSUME NEW g \in 1 .. Len(groups)
        PROVE groups[g] \in Seq(U) /\ groups[g] # <<>>
    BY <1>2
  <2>2. ASSUME NEW g \in 1 .. Len(groups)
        PROVE DOMAIN groups[g] = 1 .. Len(groups[g]) /\ Len(groups[g]) \in Nat /\ Len(groups[g]) # 0
    <3>. DEFINE s == groups[g]
    <3>1. s \in Seq(U) /\ s # <<>>
      BY <2>1
    <3>. HIDE DEF s
    <3>2. DOMAIN s = 1 .. Len(s) /\ Len(s) \in Nat /\ Len(s) # 0
      BY <3>1, EmptySeq
    <3>. QED  BY <3>2 DEF s
  <2>. QED  BY <2>1, <2>2
<1>4. CASE fit = 0
  <2>1. new = Append(groups, <<a>>)
    BY <1>4 DEF Place
  <2>2. <<a>> \in Seq(U)
    BY <1>1
  <2>. HIDE DEF new, U
  <2>3. /\ new \in Seq(Seq(U)) /\ Len(new) = Len(groups) + 1
        /\ \A g \in 1 .. Len(groups) : new[g] = groups[g]
        /\ new[Len(groups) + 1] = <<a>>
    BY <2>1, <2>2, <1>2, AppendProperties
  <2>4. DOMAIN new = 1 .. Len(groups) + 1 /\ DOMAIN groups = 1 .. Len(groups) /\ Len(groups) \in Nat
    BY <2>3, <1>2
  <2>5. Seated(new, groups, a, Len(groups) + 1, 1)
    BY <2>3, <2>4 DEF Seated
  <2>. QED  BY <2>3, <2>4, <2>5, <1>4 DEF new, U
<1>5. CASE fit # 0
  <2>. DEFINE s == groups[fit]
              t == Append(s, a)
  <2>1. new = [groups EXCEPT ![fit] = t]
    BY <1>5 DEF Place
  <2>2. s \in Seq(U) /\ Len(s) \in Nat /\ DOMAIN s = 1 .. Len(s) /\ Len(s) # 0
    BY <1>3, <1>5
  <2>. HIDE DEF new, U
  <2>3. /\ t \in Seq(U) /\ Len(t) = Len(s) + 1 /\ t[Len(s) + 1] = a
        /\ \A i \in 1 .. Len(s) : t[i] = s[i]
    <3>. HIDE DEF s
    <3>. QED  BY <2>2, <1>1, AppendProperties
  <2>4. DOMAIN t = 1 .. Len(s) + 1
    BY <2>3
  <2>. HIDE DEF t
  <2>5. /\ new \in Seq(Seq(U)) /\ Len(new) = Len(groups)
        /\ \A g \in 1 .. Len(groups) : new[g] = IF g = fit THEN t ELSE groups[g]
    BY <2>1, <2>3, <1>2, <1>5, ExceptSeq
  <2>6. DOMAIN new = 1 .. Len(groups) /\ DOMAIN groups = 1 .. Len(groups)
    BY <2>5, <1>2
  <2>7. ASSUME NEW g \in DOMAIN groups, NEW i \in DOMAIN groups[g]
        PROVE  i \in DOMAIN new[g] /\ new[g][i] = groups[g][i]
    <3>1. CASE g = fit
      <4>1. new[g] = t /\ groups[g] = s /\ i \in 1 .. Len(s)
        BY <3>1, <2>2, <2>5, <2>6, <1>5
      <4>. HIDE DEF s
      <4>. QED  BY <4>1, <2>2, <2>3, <2>4
    <3>2. CASE g # fit
      BY <3>2, <2>5, <2>6
    <3>. QED  BY <3>1, <3>2
  <2>8. ASSUME NEW g \in DOMAIN new, NEW i \in DOMAIN new[g]
        PROVE  \/ g = fit /\ i = Len(s) + 1
               \/ g \in DOMAIN groups /\ i \in DOMAIN groups[g]
    BY <2>2, <2>3, <2>4, <2>5, <2>6
  <2>9. fit \in DOMAIN groups /\ new[fit] = t /\ DOMAIN groups[fit] = 1 .. Len(s)
    BY <2>2, <2>5, <2>6, <1>5
  <2>10. Seated(new, groups, a, fit, Len(s) + 1)
    <3>1. /\ DOMAIN new = DOMAIN groups \cup {fit} /\ Len(s) + 1 \in DOMAIN new[fit]
          /\ new[fit][Len(s) + 1] = a
          /\ Len(s) + 1 \notin DOMAIN groups[fit] /\ Len(s) + 1 # 1
      BY <2>2, <2>3, <2>4, <2>6, <2>9
    <3>. QED  BY <3>1, <2>7, <2>8, <2>9 DEF Seated
  <2>. QED  BY <2>5, <2>6, <2>10, <1>5 DEF new, U
<1>. QED  BY <1>4, <1>5

\* groups holds every member of T once, in groups none of which is empty.
IsPartition(groups, T) ==
  /\ groups \in Seq(Seq(T))
  /\ \A g \in DOMAIN groups : groups[g] # <<>>
  /\ NoneTwice(groups)
  /\ \A x \in T : \E g \in DOMAIN groups : \E i \in DOMAIN groups[g] : groups[g][i] = x

LEMMA PlacePartitions ==
  ASSUME NEW T, NEW groups, IsPartition(groups, T), NEW fit \in 0 .. Len(groups),
         NEW a, a \notin T
  PROVE  IsPartition(Place(groups, fit, a), T \cup {a})
<1>. DEFINE new == Place(groups, fit, a)
            at == IF fit = 0 THEN Len(groups) + 1 ELSE fit
<1>1. groups \in Seq(Seq(T))
  BY DEF IsPartition
<1>2. /\ new \in Seq(Seq(T \cup {a}))
      /\ \E pos : Seated(new, groups, a, at, pos)
  BY <1>1, PlaceSeats DEF IsPartition
<1>. HIDE DEF new, at
<1>3. PICK pos : Seated(new, groups, a, at, pos)
  BY <1>2
<1>4. ASSUME NEW g \in DOMAIN groups, NEW i \in DOMAIN groups[g]
      PROVE  groups[g][i] \in T
  BY <1>1
<1>5. ASSUME NEW g \in DOMAIN new  PROVE new[g] # <<>>
  <2>1. \E i : i \in DOMAIN new[g]
    <3>1. CASE g \in DOMAIN groups
      <4>1. groups[g] \in Seq(T) /\ groups[g] # <<>>
        BY <1>1, <3>1 DEF IsPartition
      <4>2. 1 \in DOMAIN groups[g]
        BY <4>1
      <4>. QED  BY <4>2, <3>1, <1>3 DEF Seated
    <3>2. CASE g \notin DOMAIN groups
      BY <3>2, <1>3 DEF Seated
    <3>. QED  BY <3>1, <3>2
  <2>. QED  BY <2>1
<1>6. NoneTwice(new)
  <2>1. SUFFICES ASSUME NEW g \in DOMAIN new, NEW h \in DOMAIN new,
                        NEW i \in DOMAIN new[g], NEW l \in DOMAIN new[h], new[g][i] = new[h][l]
                 PROVE  g = h /\ i = l
    BY DEF NoneTwice
  <2>2. CASE g = at /\ i = pos /\ h = at /\ l = pos
    BY <2>2
  <2>3. CASE g = at /\ i = pos /\ ~(h = at /\ l = pos)
    <3>1. h \in DOMAIN groups /\ l \in DOMAIN groups[h] /\ new[h][l] = groups[h][l] /\ new[g][i] = a
      BY <2>3, <1>3 DEF Seated
    <3>. QED  BY <3>1, <2>1, <1>4
  <2>4. CASE ~(g = at /\ i = pos) /\ h = at /\ l = pos
    <3>1. g \in DOMAIN groups /\ i \in DOMAIN groups[g] /\ new[g][i] = groups[g][i] /\ new[h][l] = a
      BY <2>4, <1>3 DEF Seated
    <3>. QED  BY <3>1, <2>1, <1>4
  <2>5. CASE ~(g = at /\ i = pos) /\ ~(h = at /\ l = pos)
    <3>1. /\ g \in DOMAIN groups /\ i \in DOMAIN groups[g] /\ new[g][i] = groups[g][i]
          /\ h \in DOMAIN groups /\ l \in DOMAIN groups[h] /\ new[h][l] = groups[h][l]
      BY <2>5, <1>3 DEF Seated
    <3>2. groups[g][i] = groups[h][l] => g = h /\ i = l
      BY <3>1 DEF IsPartition, NoneTwice
    <3>. QED  BY <3>1, <3>2, <2>1
  <2>. QED  BY <2>2, <2>3, <2>4, <2>5
<1>7. ASSUME NEW x \in T \cup {a}
      PROVE  \E g \in DOMAIN new : \E i \in DOMAIN new[g] : new[g][i] = x
  BY <1>3 DEF Seated, IsPartition
<1>. QED  BY <1>2, <1>5, <1>6, <1>7 DEF IsPartition, new

(***************************************************************************)
(* Both first fits at once: the group chosen by complete links or by the   *)
(* article that opened it.                                                 *)
(***************************************************************************)
Fit(rule, groups, a, cap, pairs) ==
  IF rule = "links" THEN LinkFit(groups, a, pairs) ELSE SeedFit(groups, a, cap, pairs)

\* f[i] is the groups of the first i articles.
Seating(f, n, rule, articles, cap, pairs) ==
  f = [i \in 0 .. n |->
         IF i = 0 THEN <<>>
         ELSE Place(f[i - 1], Fit(rule, f[i - 1], articles[i], cap, pairs), articles[i])]

\* The recursive function of the first fit exists for every number of
\* articles: a smallest number without one would be one more than a number
\* that has one.
LEMMA SeatingExists ==
  ASSUME NEW n \in Nat, NEW rule, NEW articles, NEW cap, NEW pairs
  PROVE  \E f : Seating(f, n, rule, articles, cap, pairs)
<1>. DEFINE Seats(f, m) == Seating(f, m, rule, articles, cap, pairs)
            next(groups, i) == Place(groups, Fit(rule, groups, articles[i], cap, pairs), articles[i])
            bad == {m \in 0 .. n : ~ \E f : Seats(f, m)}
<1>1. SUFFICES ASSUME bad # {}  PROVE FALSE
  OBVIOUS
<1>2. PICK m \in bad : \A l \in bad : m <= l
  <2>1. bad \subseteq 0 .. n
    OBVIOUS
  <2>. HIDE DEF bad
  <2>. QED  BY <2>1, <1>1, LeastNumber
<1>3. CASE m = 0
  <2>1. Seats([i \in 0 .. 0 |-> <<>>], 0)
    BY DEF Seating
  <2>. QED  BY <2>1, <1>3
<1>4. CASE m # 0
  <2>1. m - 1 \in 0 .. n /\ m - 1 \notin bad
    BY <1>2, <1>4
  <2>2. PICK f : Seats(f, m - 1)
    BY <2>1
  <2>. DEFINE g == [i \in 0 .. m |-> IF i = m THEN next(f[m - 1], m) ELSE f[i]]
  <2>3. ASSUME NEW i \in 0 .. m
        PROVE  g[i] = IF i = 0 THEN <<>> ELSE next(g[i - 1], i)
    <3>1. CASE i = m
      <4>1. g[i] = next(f[m - 1], m) /\ g[m - 1] = f[m - 1]
        BY <3>1, <1>4
      <4>. QED  BY <4>1, <3>1, <1>4
    <3>2. CASE i # m
      <4>1. i \in 0 .. m - 1
        BY <3>2
      <4>2. f[i] = IF i = 0 THEN <<>> ELSE next(f[i - 1], i)
        BY <4>1, <2>2 DEF Seating
      <4>3. g[i] = f[i] /\ (i # 0 => g[i - 1] = f[i - 1])
        BY <3>2
      <4>. QED  BY <4>2, <4>3
    <3>. QED  BY <3>1, <3>2
  <2>4. g = [i \in 0 .. m |-> g[i]]
    OBVIOUS
  <2>. HIDE DEF g
  <2>5. g = [i \in 0 .. m |-> IF i = 0 THEN <<>> ELSE next(g[i - 1], i)]
    BY <2>3, <2>4
  <2>6. Seats(g, m)
    BY <2>5 DEF Seating
  <2>. QED  BY <2>6
<1>. QED  BY <1>3, <1>4

\* What the choice of a group tells of it.
LEMMA FitIs ==
  ASSUME NEW groups, Len(groups) \in Nat, NEW a, NEW cap, NEW pairs, NEW rule
  PROVE  LET fit == Fit(rule, groups, a, cap, pairs)
         IN  /\ fit \in 0 .. Len(groups)
             /\ rule = "links" /\ fit # 0 => \A i \in DOMAIN groups[fit] : <<groups[fit][i], a>> \in pairs
             /\ rule = "links" /\ fit = 0 =>
                  \A g \in 1 .. Len(groups) : \E i \in DOMAIN groups[g] : <<groups[g][i], a>> \notin pairs
             /\ rule # "links" /\ fit # 0 => <<Head(groups[fit]), a>> \in pairs
<1>. DEFINE Takes(g) == IF rule = "links" THEN \A i \in DOMAIN groups[g] : <<groups[g][i], a>> \in pairs
                        ELSE Len(groups[g]) < cap /\ <<Head(groups[g]), a>> \in pairs
            takers == {g \in 1 .. Len(groups) : Takes(g)}
            fit == Fit(rule, groups, a, cap, pairs)
<1>1. fit = IF takers # {} THEN Min(takers) ELSE 0
  <2>1. CASE rule = "links"
    BY <2>1 DEF Fit, LinkFit, SelectInSeq
  <2>2. CASE rule # "links"
    BY <2>2 DEF Fit, SeedFit, SelectInSeq
  <2>. QED  BY <2>1, <2>2
<1>2. takers # {} => Min(takers) \in takers
  <2>1. SUFFICES ASSUME takers # {}  PROVE Min(takers) \in takers
    OBVIOUS
  <2>2. takers \subseteq 0 .. Len(groups)
    OBVIOUS
  <2>. HIDE DEF takers
  <2>3. \E m \in takers : \A l \in takers : m <= l
    BY <2>1, <2>2, LeastNumber
  <2>. QED  BY <2>3 DEF Min
<1>. HIDE DEF fit
<1>3. \A g \in 1 .. Len(groups) : g \in takers <=> Takes(g)
  OBVIOUS
<1>4. \/ fit \in takers /\ fit \in 1 .. Len(groups)
      \/ fit = 0 /\ takers = {}
  BY <1>1, <1>2
<1>. HIDE DEF takers
<1>5. fit # 0 => Takes(fit)
  BY <1>3, <1>4
<1>6. ASSUME fit = 0, NEW g \in 1 .. Len(groups)  PROVE ~Takes(g)
  BY <1>3, <1>4, <1>6
<1>7. CASE rule = "links"
  <2>1. ASSUME fit = 0, NEW g \in 1 .. Len(groups)
        PROVE  \E i \in DOMAIN groups[g] : <<groups[g][i], a>> \notin pairs
    BY <1>6, <1>7, <2>1
  <2>2. ASSUME fit # 0, NEW i \in DOMAIN groups[fit]
        PROVE  <<groups[fit][i], a>> \in pairs
    BY <1>5, <1>7, <2>2
  <2>3. fit \in 0 .. Len(groups)
    BY <1>4
  <2>. HIDE DEF Takes
  <2>. QED  BY <1>7, <2>1, <2>2, <2>3 DEF fit
<1>8. CASE rule # "links"
  BY <1>4, <1>5, <1>8 DEF fit
<1>. QED  BY <1>7, <1>8

LEMMA NothingFits ==
  ASSUME NEW groups, Len(groups) \in Nat, NEW a, NEW cap, NEW pairs,
         Fit("links", groups, a, cap, pairs) = 0, NEW g \in 1 .. Len(groups)
  PROVE  \E i \in DOMAIN groups[g] : <<groups[g][i], a>> \notin pairs
BY FitIs, Zenon

FirstOf(articles, n) == {articles[i] : i \in 1 .. n}

LEMMA SeatingStep ==
  ASSUME NEW n \in Nat, NEW rule, NEW articles, NEW cap, NEW pairs,
         NEW f, Seating(f, n, rule, articles, cap, pairs), NEW i \in 0 .. n
  PROVE  f[i] = IF i = 0 THEN <<>>
                ELSE Place(f[i - 1], Fit(rule, f[i - 1], articles[i], cap, pairs), articles[i])
BY DEF Seating

LEMMA SeatingPartitions ==
  ASSUME NEW S, NEW articles \in Seq(S), IsInjective(articles), NEW rule, NEW cap, NEW pairs,
         NEW f, Seating(f, Len(articles), rule, articles, cap, pairs), NEW n \in 0 .. Len(articles)
  PROVE  IsPartition(f[n], FirstOf(articles, n))
<1>. DEFINE top == Len(articles)
            bad == {m \in 0 .. top : ~IsPartition(f[m], FirstOf(articles, m))}
<1>1. SUFFICES ASSUME bad # {}  PROVE FALSE
  OBVIOUS
<1>2. PICK m \in bad : \A l \in bad : m <= l
  <2>1. bad \subseteq 0 .. top /\ top \in Nat
    OBVIOUS
  <2>. HIDE DEF bad, top
  <2>. QED  BY <2>1, <1>1, LeastNumber
<1>3. CASE m = 0
  <2>1. f[m] = <<>> /\ FirstOf(articles, m) = {}
    BY <1>3, SeatingStep DEF FirstOf
  <2>2. IsPartition(<<>>, {})
    BY DEF IsPartition, NoneTwice
  <2>. QED  BY <2>1, <2>2
<1>4. CASE m # 0
  <2>. DEFINE a == articles[m]
              T == FirstOf(articles, m - 1)
              groups == f[m - 1]
              fit == Fit(rule, groups, a, cap, pairs)
  <2>1. m - 1 \in 0 .. top /\ m - 1 \notin bad
    BY <1>2, <1>4
  <2>2. IsPartition(groups, T)
    BY <2>1
  <2>3. a \notin T /\ FirstOf(articles, m) = T \cup {a}
    BY <1>4 DEF FirstOf, IsInjective
  <2>4. f[m] = Place(groups, fit, a)
    BY <1>4, SeatingStep
  <2>. HIDE DEF groups, T, a
  <2>5. groups \in Seq(Seq(T))
    BY <2>2 DEF IsPartition
  <2>6. fit \in 0 .. Len(groups)
    <3>1. Len(groups) \in Nat
      BY <2>5
    <3>. QED  BY <3>1, FitIs
  <2>. HIDE DEF fit
  <2>7. IsPartition(f[m], FirstOf(articles, m))
    BY <2>2, <2>3, <2>4, <2>6, PlacePartitions
  <2>. QED  BY <2>7
<1>. QED  BY <1>3, <1>4

\* One step of a first fit.
LEMMA SeatingSeats ==
  ASSUME NEW S, NEW articles \in Seq(S), IsInjective(articles), NEW rule, NEW cap, NEW pairs,
         NEW f, Seating(f, Len(articles), rule, articles, cap, pairs), NEW n \in 1 .. Len(articles)
  PROVE  LET groups == f[n - 1]
             fit == Fit(rule, groups, articles[n], cap, pairs)
         IN  /\ IsPartition(groups, FirstOf(articles, n - 1))
             /\ Len(groups) \in Nat /\ DOMAIN groups = 1 .. Len(groups) /\ fit \in 0 .. Len(groups)
             /\ \E pos : Seated(f[n], groups, articles[n], IF fit = 0 THEN Len(groups) + 1 ELSE fit, pos)
<1>. DEFINE groups == f[n - 1]
            T == FirstOf(articles, n - 1)
            fit == Fit(rule, groups, articles[n], cap, pairs)
<1>1. IsPartition(groups, T)
  BY SeatingPartitions
<1>2. f[n] = Place(groups, fit, articles[n])
  <2>1. n \in 0 .. Len(articles) /\ n # 0 /\ Len(articles) \in Nat
    OBVIOUS
  <2>. QED  BY <2>1, SeatingStep
<1>. HIDE DEF groups, T
<1>3. groups \in Seq(Seq(T)) /\ Len(groups) \in Nat
  BY <1>1 DEF IsPartition
<1>4. fit \in 0 .. Len(groups)
  BY <1>3, FitIs
<1>. HIDE DEF fit
<1>5. \A g \in DOMAIN groups : groups[g] # <<>>
  BY <1>1 DEF IsPartition
<1>6. \E pos : Seated(f[n], groups, articles[n], IF fit = 0 THEN Len(groups) + 1 ELSE fit, pos)
  <2>1. \E pos : Seated(Place(groups, fit, articles[n]), groups, articles[n],
                        IF fit = 0 THEN Len(groups) + 1 ELSE fit, pos)
    BY <1>3, <1>4, <1>5, PlaceSeats
  <2>. QED  BY <2>1, <1>2
<1>7. DOMAIN groups = 1 .. Len(groups)
  BY <1>3
<1>. QED  BY <1>1, <1>3, <1>4, <1>6, <1>7 DEF groups, T, fit

(***************************************************************************)
(* Complete links.                                                         *)
(***************************************************************************)
Symmetric(pairs) == \A x, y : <<x, y>> \in pairs => <<y, x>> \in pairs

\* The members of a group are linked with each other; of two groups some
\* members are not.
AreLinks(groups, pairs) ==
  /\ \A g \in DOMAIN groups : \A i, l \in DOMAIN groups[g] :
       i # l => <<groups[g][i], groups[g][l]>> \in pairs
  /\ \A g, h \in DOMAIN groups : g # h =>
       \E i \in DOMAIN groups[g], l \in DOMAIN groups[h] : <<groups[g][i], groups[h][l]>> \notin pairs

LEMMA LinksKept ==
  ASSUME NEW groups, NEW new, NEW a, NEW at, NEW pos, NEW pairs,
         Seated(new, groups, a, at, pos), AreLinks(groups, pairs), Symmetric(pairs),
         at \in DOMAIN groups => \A i \in DOMAIN groups[at] : <<groups[at][i], a>> \in pairs,
         at \notin DOMAIN groups =>
           \A g \in DOMAIN groups : \E i \in DOMAIN groups[g] : <<groups[g][i], a>> \notin pairs
  PROVE  AreLinks(new, pairs)
<1>1. ASSUME NEW g \in DOMAIN new, NEW i \in DOMAIN new[g], NEW l \in DOMAIN new[g], i # l
      PROVE  <<new[g][i], new[g][l]>> \in pairs
  <2>1. CASE g = at /\ i = pos
    <3>1. g \in DOMAIN groups /\ l \in DOMAIN groups[g] /\ new[g][l] = groups[g][l] /\ new[g][i] = a
      BY <1>1, <2>1 DEF Seated
    <3>2. <<new[g][l], a>> \in pairs
      BY <3>1, <2>1
    <3>. QED  BY <3>1, <3>2 DEF Symmetric
  <2>2. CASE g = at /\ l = pos
    <3>1. g \in DOMAIN groups /\ i \in DOMAIN groups[g] /\ new[g][i] = groups[g][i] /\ new[g][l] = a
      BY <1>1, <2>2 DEF Seated
    <3>. QED  BY <3>1, <2>2
  <2>3. CASE ~(g = at /\ i = pos) /\ ~(g = at /\ l = pos)
    <3>1. /\ g \in DOMAIN groups /\ i \in DOMAIN groups[g] /\ new[g][i] = groups[g][i]
          /\ l \in DOMAIN groups[g] /\ new[g][l] = groups[g][l]
      BY <2>3 DEF Seated
    <3>. QED  BY <3>1, <1>1 DEF AreLinks
  <2>. QED  BY <2>1, <2>2, <2>3
<1>2. ASSUME NEW g \in DOMAIN new, NEW h \in DOMAIN new, g # h
      PROVE  \E i \in DOMAIN new[g], l \in DOMAIN new[h] : <<new[g][i], new[h][l]>> \notin pairs
  <2>1. CASE g \in DOMAIN groups /\ h \in DOMAIN groups
    <3>1. PICK i \in DOMAIN groups[g], l \in DOMAIN groups[h] : <<groups[g][i], groups[h][l]>> \notin pairs
      BY <1>2, <2>1 DEF AreLinks
    <3>2. /\ i \in DOMAIN new[g] /\ new[g][i] = groups[g][i]
          /\ l \in DOMAIN new[h] /\ new[h][l] = groups[h][l]
      BY <2>1 DEF Seated
    <3>. QED  BY <3>1, <3>2
  <2>2. CASE g \notin DOMAIN groups /\ h \in DOMAIN groups
    <3>1. g = at /\ pos \in DOMAIN new[g] /\ new[g][pos] = a
      BY <2>2 DEF Seated
    <3>2. PICK l \in DOMAIN groups[h] : <<groups[h][l], a>> \notin pairs
      BY <2>2, <3>1
    <3>3. l \in DOMAIN new[h] /\ new[h][l] = groups[h][l]
      BY <2>2 DEF Seated
    <3>4. <<new[g][pos], new[h][l]>> \notin pairs
      BY <3>1, <3>2, <3>3 DEF Symmetric
    <3>. QED  BY <3>1, <3>3, <3>4
  <2>3. CASE g \in DOMAIN groups /\ h \notin DOMAIN groups
    <3>1. h = at /\ pos \in DOMAIN new[h] /\ new[h][pos] = a
      BY <2>3 DEF Seated
    <3>2. PICK i \in DOMAIN groups[g] : <<groups[g][i], a>> \notin pairs
      BY <2>3, <3>1
    <3>3. i \in DOMAIN new[g] /\ new[g][i] = groups[g][i]
      BY <2>3 DEF Seated
    <3>. QED  BY <3>1, <3>2, <3>3
  <2>4. CASE g \notin DOMAIN groups /\ h \notin DOMAIN groups
    BY <1>2, <2>4 DEF Seated
  <2>. QED  BY <2>1, <2>2, <2>3, <2>4
<1>. QED  BY <1>1, <1>2 DEF AreLinks

\* SimilarGroups divides the articles into complete links, and no two groups
\* could be one.
LEMMA SimilarGroupsAreLinks ==
  ASSUME NEW S, NEW articles \in Seq(S), IsInjective(articles), NEW pairs, Symmetric(pairs)
  PROVE  /\ IsPartition(SimilarGroups(articles, pairs), ToSet(articles))
         /\ AreLinks(SimilarGroups(articles, pairs), pairs)
<1>. DEFINE top == Len(articles)
            f == CHOOSE s : Seating(s, top, "links", articles, 0, pairs)
            bad == {m \in 0 .. top : ~AreLinks(f[m], pairs)}
<1>1. SimilarGroups(articles, pairs) = f[top]
  BY DEF SimilarGroups, Seating, Fit
<1>0. top \in Nat
  OBVIOUS
<1>2. Seating(f, top, "links", articles, 0, pairs)
  <2>1. \E s : Seating(s, top, "links", articles, 0, pairs)
    BY <1>0, SeatingExists
  <2>. QED  BY <2>1
<1>. HIDE DEF f
<1>3. IsPartition(f[top], ToSet(articles))
  <2>1. FirstOf(articles, top) = ToSet(articles)
    BY DEF FirstOf, ToSet
  <2>2. IsPartition(f[top], FirstOf(articles, top))
    BY <1>0, <1>2, SeatingPartitions
  <2>. QED  BY <2>1, <2>2
<1>4. bad = {}
  <2>1. SUFFICES ASSUME bad # {}  PROVE FALSE
    OBVIOUS
  <2>2. PICK m \in bad : \A l \in bad : m <= l
    <3>1. bad \subseteq 0 .. top /\ top \in Nat
      OBVIOUS
    <3>. HIDE DEF bad, top
    <3>. QED  BY <3>1, <2>1, LeastNumber
  <2>3. CASE m = 0
    <3>1. f[m] = <<>>
      BY <1>0, <1>2, <2>3, SeatingStep
    <3>. QED  BY <3>1 DEF AreLinks
  <2>4. CASE m # 0
    <3>. DEFINE groups == f[m - 1]
                a == articles[m]
                fit == Fit("links", groups, a, 0, pairs)
                at == IF fit = 0 THEN Len(groups) + 1 ELSE fit
    <3>1. m - 1 \in 0 .. top /\ m - 1 \notin bad /\ m \in 1 .. top
      BY <2>2, <2>4
    <3>2. AreLinks(groups, pairs)
      BY <3>1
    <3>3. /\ Len(groups) \in Nat /\ DOMAIN groups = 1 .. Len(groups) /\ fit \in 0 .. Len(groups)
          /\ \E pos : Seated(f[m], groups, a, at, pos)
      BY <1>0, <1>2, <3>1, SeatingSeats
    <3>4. PICK pos : Seated(f[m], groups, a, at, pos)
      BY <3>3
    <3>5. /\ fit # 0 => \A i \in DOMAIN groups[fit] : <<groups[fit][i], a>> \in pairs
          /\ fit = 0 => \A g \in 1 .. Len(groups) : \E i \in DOMAIN groups[g] : <<groups[g][i], a>> \notin pairs
      <4>1. Len(groups) \in Nat
        BY <3>3
      <4>. HIDE DEF groups, a
      <4>2. fit # 0 => \A i \in DOMAIN groups[fit] : <<groups[fit][i], a>> \in pairs
        BY <4>1, FitIs
      <4>3. ASSUME fit = 0, NEW g \in 1 .. Len(groups)
            PROVE  \E i \in DOMAIN groups[g] : <<groups[g][i], a>> \notin pairs
        BY <4>1, <4>3, NothingFits
      <4>. QED  BY <4>2, <4>3
    <3>. HIDE DEF groups, a, fit
    <3>6. at \in DOMAIN groups => \A i \in DOMAIN groups[at] : <<groups[at][i], a>> \in pairs
      BY <3>3, <3>5
    <3>7. at \notin DOMAIN groups =>
            \A g \in DOMAIN groups : \E i \in DOMAIN groups[g] : <<groups[g][i], a>> \notin pairs
      BY <3>3, <3>5
    <3>8. AreLinks(f[m], pairs)
      <4>. HIDE DEF at
      <4>. QED  BY <3>2, <3>4, <3>6, <3>7, LinksKept
    <3>. QED  BY <3>8
  <2>. QED  BY <2>3, <2>4
<1>. QED  BY <1>1, <1>3, <1>4

(***************************************************************************)
(* Groups by the article that opened them.                                 *)
(***************************************************************************)
\* The first member of a group is its oldest and is alike to the others.
AreSeeds(groups, pairs) ==
  \A g \in DOMAIN groups : \A i \in DOMAIN groups[g] :
    /\ groups[g][1] <= groups[g][i]
    /\ i # 1 => <<groups[g][1], groups[g][i]>> \in pairs

LEMMA SeedsKept ==
  ASSUME NEW groups, NEW new, NEW a \in Int, NEW at, NEW pos, NEW pairs,
         Seated(new, groups, a, at, pos), AreSeeds(groups, pairs),
         \A g \in DOMAIN groups : 1 \in DOMAIN groups[g],
         at \in DOMAIN groups => <<groups[at][1], a>> \in pairs /\ groups[at][1] <= a
  PROVE  AreSeeds(new, pairs)
<1>1. SUFFICES ASSUME NEW g \in DOMAIN new, NEW i \in DOMAIN new[g]
               PROVE  /\ new[g][1] <= new[g][i]
                      /\ i # 1 => <<new[g][1], new[g][i]>> \in pairs
  BY DEF AreSeeds
<1>2. CASE g = at /\ i = pos /\ g \in DOMAIN groups
  <2>1. new[g][1] = groups[g][1] /\ new[g][i] = a
    BY <1>2 DEF Seated
  <2>. QED  BY <1>2, <2>1
<1>3. CASE g = at /\ i = pos /\ g \notin DOMAIN groups
  <2>1. i = 1 /\ new[g][i] = a
    BY <1>3 DEF Seated
  <2>. QED  BY <2>1
<1>4. CASE ~(g = at /\ i = pos)
  <2>1. /\ g \in DOMAIN groups /\ i \in DOMAIN groups[g]
        /\ new[g][1] = groups[g][1] /\ new[g][i] = groups[g][i]
    BY <1>4 DEF Seated
  <2>. QED  BY <2>1 DEF AreSeeds
<1>. QED  BY <1>2, <1>3, <1>4

\* SeedGroups divides the articles into groups of this kind.
LEMMA SeedGroupsAreSeeds ==
  ASSUME NEW articles \in Seq(Int), \A i, l \in DOMAIN articles : i < l => articles[i] < articles[l],
         NEW cap, NEW pairs
  PROVE  /\ IsPartition(SeedGroups(articles, cap, pairs), ToSet(articles))
         /\ AreSeeds(SeedGroups(articles, cap, pairs), pairs)
<1>. DEFINE top == Len(articles)
            f == CHOOSE s : Seating(s, top, "opener", articles, cap, pairs)
            bad == {m \in 0 .. top : ~AreSeeds(f[m], pairs)}
<1>1. SeedGroups(articles, cap, pairs) = f[top]
  BY DEF SeedGroups, Seating, Fit
<1>0. top \in Nat /\ IsInjective(articles) /\ DOMAIN articles = 1 .. top
  <2>1. DOMAIN articles = 1 .. top /\ top \in Nat
    OBVIOUS
  <2>2. ASSUME NEW i \in DOMAIN articles, NEW l \in DOMAIN articles, articles[i] = articles[l]
        PROVE  i = l
    <3>1. articles[i] \in Int /\ i \in Int /\ l \in Int
      BY <2>1
    <3>2. ~(i < l) /\ ~(l < i)
      BY <2>2, <3>1
    <3>. QED  BY <3>1, <3>2
  <2>. QED  BY <2>1, <2>2 DEF IsInjective
<1>2. Seating(f, top, "opener", articles, cap, pairs)
  <2>1. \E s : Seating(s, top, "opener", articles, cap, pairs)
    BY <1>0, SeatingExists
  <2>. QED  BY <2>1
<1>. HIDE DEF f
<1>3. IsPartition(f[top], ToSet(articles))
  <2>1. FirstOf(articles, top) = ToSet(articles)
    BY <1>0 DEF FirstOf, ToSet
  <2>2. IsPartition(f[top], FirstOf(articles, top))
    BY <1>0, <1>2, SeatingPartitions
  <2>. QED  BY <2>1, <2>2
<1>4. bad = {}
  <2>1. SUFFICES ASSUME bad # {}  PROVE FALSE
    OBVIOUS
  <2>2. PICK m \in bad : \A l \in bad : m <= l
    <3>1. bad \subseteq 0 .. top /\ top \in Nat
      OBVIOUS
    <3>. HIDE DEF bad, top
    <3>. QED  BY <3>1, <2>1, LeastNumber
  <2>3. CASE m = 0
    <3>1. f[m] = <<>>
      BY <1>0, <1>2, <2>3, SeatingStep
    <3>. QED  BY <3>1 DEF AreSeeds
  <2>4. CASE m # 0
    <3>. DEFINE groups == f[m - 1]
                a == articles[m]
                fit == Fit("opener", groups, a, cap, pairs)
                at == IF fit = 0 THEN Len(groups) + 1 ELSE fit
                T == FirstOf(articles, m - 1)
    <3>1. m - 1 \in 0 .. top /\ m - 1 \notin bad /\ m \in 1 .. top
      BY <2>2, <2>4
    <3>2. AreSeeds(groups, pairs)
      BY <3>1
    <3>3. /\ IsPartition(groups, T)
          /\ Len(groups) \in Nat /\ DOMAIN groups = 1 .. Len(groups) /\ fit \in 0 .. Len(groups)
          /\ \E pos : Seated(f[m], groups, a, at, pos)
      BY <1>0, <1>2, <3>1, SeatingSeats
    <3>4. PICK pos : Seated(f[m], groups, a, at, pos)
      BY <3>3
    <3>5. a \in Int /\ \A x \in T : x \in Int /\ x <= a
      <4>1. ASSUME NEW i \in 1 .. m - 1  PROVE articles[i] \in Int /\ articles[i] < a
        <5>1. i \in DOMAIN articles /\ m \in DOMAIN articles /\ i < m
          BY <1>0, <3>1
        <5>. QED  BY <5>1
      <4>2. a \in Int
        BY <1>0, <3>1
      <4>. QED  BY <4>1, <4>2 DEF FirstOf
    <3>6. fit # 0 => <<Head(groups[fit]), a>> \in pairs
      <4>. HIDE DEF groups, a
      <4>. QED  BY <3>3, FitIs
    <3>. HIDE DEF groups, a, fit, T
    <3>7. ASSUME NEW g \in DOMAIN groups
          PROVE  1 \in DOMAIN groups[g] /\ Head(groups[g]) = groups[g][1] /\ groups[g][1] \in T
      <4>1. groups[g] \in Seq(T) /\ groups[g] # <<>>
        BY <3>3 DEF IsPartition
      <4>2. Len(groups[g]) \in Nat \ {0} /\ DOMAIN groups[g] = 1 .. Len(groups[g])
        BY <4>1, EmptySeq
      <4>. QED  BY <4>1, <4>2
    <3>8. ASSUME at \in DOMAIN groups
          PROVE  <<groups[at][1], a>> \in pairs /\ groups[at][1] <= a
      <4>1. fit # 0 /\ at = fit
        BY <3>3, <3>8
      <4>2. Head(groups[at]) = groups[at][1] /\ groups[at][1] \in T
        BY <3>7, <3>8
      <4>. QED  BY <3>5, <3>6, <4>1, <4>2
    <3>9. AreSeeds(f[m], pairs)
      <4>. HIDE DEF at
      <4>. QED  BY <3>2, <3>4, <3>5, <3>7, <3>8, SeedsKept
    <3>. QED  BY <3>9
  <2>. QED  BY <2>3, <2>4
<1>. QED  BY <1>1, <1>3, <1>4

(***************************************************************************)
(* The selected clusters.                                                  *)
(***************************************************************************)
RowsInv ==
  /\ processed \in Seq(Raws)
  /\ IsInjective(processed)

Rows == DOMAIN processed

LEMMA RowsAreNumbers ==
  ASSUME RowsInv
  PROVE  /\ Rows = 1 .. Len(processed) /\ Len(processed) \in Nat /\ IsFiniteSet(Rows)
         /\ \A x \in Rows : x \in Nat /\ processed[x] \in Raws /\ processed[x] \in Nat
<1>1. Rows = 1 .. Len(processed) /\ Len(processed) \in Nat
  BY DEF RowsInv, Rows
<1>2. IsFiniteSet(Rows)
  BY <1>1, FS_Interval
<1>3. Raws \subseteq Nat
  <2>1. Cardinality(Raws) \in Nat
    BY DailyClustersAssumption, FS_CardinalityType
  <2>. QED  BY <2>1, DailyClustersAssumption
<1>4. \A x \in Rows : processed[x] \in Raws
  BY DEF RowsInv, Rows
<1>5. \A x \in Rows : x \in Nat
  BY <1>1
<1>. QED  BY <1>1, <1>2, <1>3, <1>4, <1>5

NewerRows(rows) == {pair \in rows \X rows : processed[pair[1]] > processed[pair[2]]}

LEMMA NewestFirstLists ==
  ASSUME RowsInv, NEW rows, rows \subseteq Rows
  PROVE  /\ IsFiniteSet(rows)
         /\ Lists(NewestFirst(rows, processed), rows, NewerRows(rows))
<1>1. IsFiniteSet(rows)
  BY RowsAreNumbers, FS_Subset
<1>2. \A x \in rows : processed[x] \in Nat
  BY RowsAreNumbers
<1>3. \A x, y \in rows : x # y => processed[x] # processed[y]
  BY DEF RowsInv, Rows, IsInjective
<1>4. StrictOrder(NewerRows(rows), rows)
  <2>1. \A x, y \in rows : <<x, y>> \in NewerRows(rows) <=> processed[x] > processed[y]
    BY DEF NewerRows
  <2>. QED  BY <1>2, <1>3, <2>1 DEF StrictOrder
<1>5. NewestFirst(rows, processed) = InOrder(rows, NewerRows(rows))
  BY DEF NewestFirst, NewerRows
<1>. QED  BY <1>1, <1>4, <1>5, InOrderLists

LEMMA RecentRows ==
  ASSUME RowsInv
  PROVE  Recent \subseteq Rows
<1>. DEFINE newest == NewestFirst(Rows, processed)
<1>1. newest \in Seq(Rows)
  BY NewestFirstLists DEF Lists
<1>2. ProcessedLimit \in Nat /\ Len(newest) \in Nat
  BY <1>1, DailyClustersAssumption
<1>3. Min({ProcessedLimit, Len(newest)}) <= Len(newest)
  <2>1. \E x \in {ProcessedLimit, Len(newest)} : \A y \in {ProcessedLimit, Len(newest)} : x <= y
    BY <1>2
  <2>. HIDE DEF newest
  <2>. QED  BY <1>2, <2>1 DEF Min
<1>4. Min({ProcessedLimit, Len(newest)}) \in Int
  <2>1. \E x \in {ProcessedLimit, Len(newest)} : \A y \in {ProcessedLimit, Len(newest)} : x <= y
    BY <1>2
  <2>. HIDE DEF newest
  <2>. QED  BY <1>2, <2>1 DEF Min
<1>5. \A i \in 1 .. Min({ProcessedLimit, Len(newest)}) : newest[i] \in Rows
  <2>. DEFINE last == Min({ProcessedLimit, Len(newest)})
  <2>. HIDE DEF newest, last
  <2>1. \A i \in 1 .. last : i \in 1 .. Len(newest)
    BY <1>2, <1>3, <1>4 DEF last
  <2>. QED  BY <1>1, <2>1 DEF last
<1>. QED  BY <1>5 DEF Recent, Rows

LEMMA OldestFirstLists ==
  ASSUME RowsInv, NEW rows, rows \subseteq Rows
  PROVE  /\ OldestFirst(rows) \in Seq(Int) /\ ToSet(OldestFirst(rows)) = rows
         /\ \A i, l \in DOMAIN OldestFirst(rows) : i < l => OldestFirst(rows)[i] < OldestFirst(rows)[l]
<1>. DEFINE older == {pair \in rows \X rows : pair[1] < pair[2]}
            s == OldestFirst(rows)
<1>1. IsFiniteSet(rows) /\ \A x \in rows : x \in Nat
  BY RowsAreNumbers, FS_Subset
<1>2. StrictOrder(older, rows)
  <2>1. \A x, y \in rows : <<x, y>> \in older <=> x < y
    OBVIOUS
  <2>. HIDE DEF older
  <2>. QED  BY <1>1, <2>1 DEF StrictOrder
<1>3. Lists(s, rows, older)
  <2>1. s = InOrder(rows, older)
    BY DEF OldestFirst
  <2>. HIDE DEF s, older
  <2>. QED  BY <1>1, <1>2, <2>1, InOrderLists
<1>. HIDE DEF s
<1>4. s \in Seq(rows) /\ rows \subseteq Int /\ ToSet(s) = rows
  BY <1>1, <1>3 DEF Lists
<1>5. s \in Seq(Int)
  BY <1>4, SeqMonotonic
<1>6. \A i, l \in DOMAIN s : i < l => s[i] < s[l]
  BY <1>3 DEF Lists
<1>. QED  BY <1>4, <1>5, <1>6 DEF s

\* c is one of the groups, its articles newest first.
Clusters(groups) == {NewestFirst(ToSet(groups[g]), processed) : g \in DOMAIN groups}

LEMMA MembersOfGroups ==
  ASSUME NEW T, NEW groups, IsPartition(groups, T), NEW g \in DOMAIN groups
  PROVE  /\ ToSet(groups[g]) \subseteq T /\ ToSet(groups[g]) # {}
         /\ 1 \in DOMAIN groups[g] /\ groups[g] \in Seq(T) /\ DOMAIN groups[g] = 1 .. Len(groups[g])
         /\ \A h \in DOMAIN groups : h # g => ToSet(groups[g]) \cap ToSet(groups[h]) = {}
<1>1. groups[g] \in Seq(T) /\ groups[g] # <<>>
  BY DEF IsPartition
<1>2. 1 \in DOMAIN groups[g] /\ DOMAIN groups[g] = 1 .. Len(groups[g])
  BY <1>1
<1>3. ToSet(groups[g]) \subseteq T /\ ToSet(groups[g]) # {}
  BY <1>1, <1>2 DEF ToSet
<1>4. ASSUME NEW h \in DOMAIN groups, h # g, NEW x \in ToSet(groups[g]) \cap ToSet(groups[h])
      PROVE  FALSE
  <2>1. PICK i \in DOMAIN groups[g] : groups[g][i] = x
    BY DEF ToSet
  <2>2. PICK l \in DOMAIN groups[h] : groups[h][l] = x
    BY DEF ToSet
  <2>3. NoneTwice(groups)
    BY DEF IsPartition
  <2>. QED  BY <2>1, <2>2, <2>3, <1>4 DEF NoneTwice
<1>. QED  BY <1>1, <1>2, <1>3, <1>4

LEMMA ClustersAreLists ==
  ASSUME RowsInv, NEW T, T \subseteq Rows, NEW groups, IsPartition(groups, T), NEW g \in DOMAIN groups
  PROVE  LET c == NewestFirst(ToSet(groups[g]), processed)
         IN  /\ c \in Seq(T) /\ IsInjective(c) /\ ToSet(c) = ToSet(groups[g])
             /\ Len(c) \in Nat \ {0} /\ DOMAIN c = 1 .. Len(c) /\ c[1] \in ToSet(c)
             /\ Cardinality(ToSet(c)) = Len(c)
<1>. DEFINE rows == ToSet(groups[g])
            c == NewestFirst(rows, processed)
<1>1. rows \subseteq T /\ rows # {}
  BY MembersOfGroups
<1>2. IsFiniteSet(rows) /\ Lists(c, rows, NewerRows(rows))
  BY <1>1, NewestFirstLists
<1>. HIDE DEF c, rows
<1>3. c \in Seq(T)
  <2>1. c \in Seq(rows)
    BY <1>2 DEF Lists
  <2>. QED  BY <2>1, <1>1, SeqMonotonic
<1>4. Len(c) \in Nat \ {0} /\ Len(c) = Cardinality(rows)
  <2>1. Len(c) = Cardinality(rows)
    BY <1>2 DEF Lists
  <2>. QED  BY <2>1, <1>1, <1>2, FS_EmptySet, FS_CardinalityType
<1>5. DOMAIN c = 1 .. Len(c) /\ c[1] \in ToSet(c)
  BY <1>3, <1>4 DEF ToSet
<1>6. ToSet(c) = rows /\ IsInjective(c)
  BY <1>2 DEF Lists
<1>. QED  BY <1>3, <1>4, <1>5, <1>6 DEF c, rows

LEMMA LargerFirstIsStrict ==
  ASSUME RowsInv, NEW T, T \subseteq Rows, NEW groups, IsPartition(groups, T)
  PROVE  /\ IsFiniteSet(Clusters(groups))
         /\ StrictOrder(LargerFirst(Clusters(groups), processed), Clusters(groups))
<1>. DEFINE C == Clusters(groups)
            larger == LargerFirst(C, processed)
<1>1. IsFiniteSet(C)
  <2>. DEFINE make == [g \in DOMAIN groups |-> NewestFirst(ToSet(groups[g]), processed)]
  <2>1. make \in Surjection(DOMAIN groups, C)
    BY DEF Surjection, Clusters
  <2>2. IsFiniteSet(DOMAIN groups)
    <3>1. groups \in Seq(Seq(T))
      BY DEF IsPartition
    <3>2. DOMAIN groups = 1 .. Len(groups) /\ Len(groups) \in Nat
      BY <3>1
    <3>. QED  BY <3>2, FS_Interval
  <2>. HIDE DEF make, C
  <2>. QED  BY <2>1, <2>2, FS_Surjection
<1>2. ASSUME NEW c \in C
      PROVE  Len(c) \in Nat /\ c[1] \in ToSet(c) /\ processed[c[1]] \in Nat
  <2>1. PICK g \in DOMAIN groups : c = NewestFirst(ToSet(groups[g]), processed)
    BY DEF Clusters
  <2>2. Len(c) \in Nat /\ c[1] \in ToSet(c) /\ ToSet(c) = ToSet(groups[g])
    BY <2>1, ClustersAreLists
  <2>3. c[1] \in Rows
    BY <2>2, MembersOfGroups
  <2>. QED  BY <2>2, <2>3, RowsAreNumbers
<1>3. ASSUME NEW c \in C, NEW d \in C, c # d  PROVE processed[c[1]] # processed[d[1]]
  <2>1. PICK g \in DOMAIN groups : c = NewestFirst(ToSet(groups[g]), processed)
    BY DEF Clusters
  <2>2. PICK h \in DOMAIN groups : d = NewestFirst(ToSet(groups[h]), processed)
    BY DEF Clusters
  <2>3. g # h
    BY <2>1, <2>2, <1>3
  <2>4. /\ c[1] \in ToSet(c) /\ ToSet(c) = ToSet(groups[g])
        /\ d[1] \in ToSet(d) /\ ToSet(d) = ToSet(groups[h])
    BY <2>1, <2>2, ClustersAreLists
  <2>5. ToSet(groups[g]) \cap ToSet(groups[h]) = {} /\ ToSet(groups[g]) \subseteq T /\ ToSet(groups[h]) \subseteq T
    BY <2>3, MembersOfGroups
  <2>6. c[1] # d[1] /\ c[1] \in Rows /\ d[1] \in Rows
    BY <2>4, <2>5
  <2>. QED  BY <2>6 DEF RowsInv, Rows, IsInjective
<1>4. \A c, d \in C : <<c, d>> \in larger <=>
        \/ Len(c) > Len(d)
        \/ Len(c) = Len(d) /\ processed[c[1]] > processed[d[1]]
  BY DEF LargerFirst
<1>. HIDE DEF C, larger
<1>5. \A c \in C : <<c, c>> \notin larger
  BY <1>2, <1>4
<1>6. \A c, d \in C : c # d => <<c, d>> \in larger \/ <<d, c>> \in larger
  BY <1>2, <1>3, <1>4
<1>7. \A c, d, e \in C : <<c, d>> \in larger /\ <<d, e>> \in larger => <<c, e>> \in larger
  BY <1>2, <1>4
<1>. QED  BY <1>1, <1>5, <1>6, <1>7 DEF StrictOrder, C, larger

\* The clusters by rank: the groups, the largest first.
LEMMA RankClustersRanks ==
  ASSUME RowsInv, NEW T, T \subseteq Rows, NEW groups, IsPartition(groups, T)
  PROVE  LET ranked == RankClusters(groups, processed)
         IN  /\ ranked \in Seq(Seq(T))
             /\ \A k \in DOMAIN ranked :
                  /\ IsInjective(ranked[k]) /\ Len(ranked[k]) \in Nat \ {0}
                  /\ Cardinality(ToSet(ranked[k])) = Len(ranked[k])
                  /\ \E g \in DOMAIN groups : ToSet(ranked[k]) = ToSet(groups[g])
             /\ \A g \in DOMAIN groups : \E k \in DOMAIN ranked : ToSet(ranked[k]) = ToSet(groups[g])
             /\ \A k, l \in DOMAIN ranked : k < l =>
                  /\ Len(ranked[k]) >= Len(ranked[l])
                  /\ ToSet(ranked[k]) \cap ToSet(ranked[l]) = {}
<1>. DEFINE C == Clusters(groups)
            larger == LargerFirst(C, processed)
            ranked == RankClusters(groups, processed)
<1>1. Lists(ranked, C, larger)
  <2>1. ranked = InOrder(C, larger)
    BY DEF RankClusters, Clusters
  <2>2. IsFiniteSet(C) /\ StrictOrder(larger, C)
    BY LargerFirstIsStrict
  <2>. HIDE DEF C, larger, ranked
  <2>. QED  BY <2>1, <2>2, InOrderLists
<1>. HIDE DEF ranked
<1>2. ranked \in Seq(C) /\ DOMAIN ranked = 1 .. Len(ranked) /\ Len(ranked) \in Nat
      /\ ToSet(ranked) = C /\ IsInjective(ranked)
  BY <1>1 DEF Lists
<1>3. ASSUME NEW c \in C
      PROVE  /\ c \in Seq(T) /\ IsInjective(c) /\ Len(c) \in Nat \ {0}
             /\ Cardinality(ToSet(c)) = Len(c)
             /\ \E g \in DOMAIN groups : ToSet(c) = ToSet(groups[g])
  <2>1. PICK g \in DOMAIN groups : c = NewestFirst(ToSet(groups[g]), processed)
    BY DEF Clusters
  <2>. QED  BY <2>1, ClustersAreLists
<1>4. \A k \in DOMAIN ranked : ranked[k] \in C
  BY <1>2
<1>5. ranked \in Seq(Seq(T))
  <2>1. C \subseteq Seq(T)
    BY <1>3
  <2>. HIDE DEF C
  <2>. QED  BY <2>1, <1>2, SeqMonotonic
<1>6. ASSUME NEW g \in DOMAIN groups
      PROVE  \E k \in DOMAIN ranked : ToSet(ranked[k]) = ToSet(groups[g])
  <2>. DEFINE c == NewestFirst(ToSet(groups[g]), processed)
  <2>1. c \in C /\ ToSet(c) = ToSet(groups[g])
    BY ClustersAreLists DEF Clusters
  <2>. HIDE DEF c, C
  <2>2. PICK k \in DOMAIN ranked : ranked[k] = c
    BY <2>1, <1>2 DEF ToSet
  <2>. QED  BY <2>1, <2>2
<1>7. ASSUME NEW k \in DOMAIN ranked, NEW l \in DOMAIN ranked, k < l
      PROVE  /\ Len(ranked[k]) >= Len(ranked[l])
             /\ ToSet(ranked[k]) \cap ToSet(ranked[l]) = {}
  <2>. DEFINE c == ranked[k]
              d == ranked[l]
  <2>1. c \in C /\ d \in C /\ <<c, d>> \in larger /\ c # d
    <3>1. <<c, d>> \in larger
      <4>. HIDE DEF larger, C
      <4>. QED  BY <1>1, <1>7 DEF Lists
    <3>2. c # d
      <4>1. k # l
        BY <1>2, <1>7
      <4>. HIDE DEF C
      <4>. QED  BY <4>1, <1>2, <1>7 DEF IsInjective
    <3>. QED  BY <1>4, <1>7, <3>1, <3>2
  <2>2. Len(c) > Len(d) \/ Len(c) = Len(d)
    BY <2>1 DEF LargerFirst
  <2>. HIDE DEF c, d
  <2>3. Len(c) >= Len(d)
    BY <2>1, <2>2, <1>3
  <2>4. PICK g \in DOMAIN groups : c = NewestFirst(ToSet(groups[g]), processed)
    BY <2>1 DEF Clusters
  <2>5. PICK h \in DOMAIN groups : d = NewestFirst(ToSet(groups[h]), processed)
    BY <2>1 DEF Clusters
  <2>6. g # h
    BY <2>1, <2>4, <2>5
  <2>7. ToSet(c) = ToSet(groups[g]) /\ ToSet(d) = ToSet(groups[h])
    BY <2>4, <2>5, ClustersAreLists
  <2>8. ToSet(groups[g]) \cap ToSet(groups[h]) = {}
    BY <2>6, MembersOfGroups
  <2>. QED  BY <2>3, <2>7, <2>8 DEF c, d
<1>8. ASSUME NEW k \in DOMAIN ranked
      PROVE  /\ IsInjective(ranked[k]) /\ Len(ranked[k]) \in Nat \ {0}
             /\ Cardinality(ToSet(ranked[k])) = Len(ranked[k])
             /\ \E g \in DOMAIN groups : ToSet(ranked[k]) = ToSet(groups[g])
  BY <1>3, <1>4
<1>. QED  BY <1>5, <1>6, <1>7, <1>8 DEF ranked

\* The oldest article of a group opened it.
LEMMA OldestIsAlike ==
  ASSUME RowsInv, NEW T, T \subseteq Rows, NEW groups, IsPartition(groups, T), AreSeeds(groups, Alike),
         NEW g \in DOMAIN groups, NEW row \in ToSet(groups[g])
  PROVE  <<Min(ToSet(groups[g])), row>> \in Alike
<1>. DEFINE rows == ToSet(groups[g])
            first == groups[g][1]
<1>1. rows \subseteq Rows /\ first \in rows
  BY MembersOfGroups DEF ToSet
<1>2. \A x \in rows : first <= x /\ (x # first => <<first, x>> \in Alike)
  BY DEF ToSet, AreSeeds
<1>3. \A x \in rows : x \in Nat
  BY <1>1, RowsAreNumbers
<1>. HIDE DEF first
<1>4. Min(rows) = first
  <2>. HIDE DEF rows
  <2>1. ASSUME NEW x \in rows, \A y \in rows : x <= y  PROVE x = first
    <3>1. x <= first /\ first <= x /\ x \in Nat /\ first \in Nat
      BY <2>1, <1>1, <1>2, <1>3
    <3>. QED  BY <3>1
  <2>. QED  BY <2>1, <1>1, <1>2 DEF Min
<1>5. <<first, first>> \in Alike
  BY <1>1 DEF Alike, Pairs, Rows
<1>. QED  BY <1>2, <1>4, <1>5

\* What the clusters of a run are, whatever articles there are.
LEMMA SelectedClusters ==
  ASSUME RowsInv
  PROVE  /\ Selected \in Seq(Seq(Recent)) /\ Len(Selected) \in Nat
         /\ DOMAIN Selected = 1 .. Len(Selected) /\ DOMAIN Selected \subseteq Ranks
         /\ Len(Selected) < MaxClusters =>
              \A x \in Recent : \E k \in DOMAIN Selected : x \in ToSet(Selected[k])
         /\ \A k \in DOMAIN Selected :
              /\ Selected[k] \in Seq(Recent) /\ IsInjective(Selected[k]) /\ Len(Selected[k]) \in Nat \ {0}
              /\ Cardinality(ToSet(Selected[k])) = Len(Selected[k])
              /\ \A row \in ToSet(Selected[k]) : <<Min(ToSet(Selected[k])), row>> \in Alike
         /\ \A k, l \in DOMAIN Selected : k < l =>
              /\ Len(Selected[k]) >= Len(Selected[l])
              /\ ToSet(Selected[k]) \cap ToSet(Selected[l]) = {}
<1>. DEFINE articles == OldestFirst(Recent)
            groups == SeedGroups(articles, MaxArticlesPerCluster, Alike)
            ranked == RankClusters(groups, processed)
            last == Min({MaxClusters, Len(ranked)})
<1>0. Recent \subseteq Rows
  BY RecentRows
<1>1. IsPartition(groups, Recent) /\ AreSeeds(groups, Alike)
  <2>1. /\ articles \in Seq(Int) /\ ToSet(articles) = Recent
        /\ \A i, l \in DOMAIN articles : i < l => articles[i] < articles[l]
    BY <1>0, OldestFirstLists
  <2>. HIDE DEF articles
  <2>. QED  BY <2>1, SeedGroupsAreSeeds
<1>2. Selected = SubSeq(ranked, 1, last)
  BY DEF Selected, OldestFirst
<1>. HIDE DEF articles, groups
<1>3. /\ ranked \in Seq(Seq(Recent))
      /\ \A k \in DOMAIN ranked :
           /\ IsInjective(ranked[k]) /\ Len(ranked[k]) \in Nat \ {0}
           /\ Cardinality(ToSet(ranked[k])) = Len(ranked[k])
           /\ \E g \in DOMAIN groups : ToSet(ranked[k]) = ToSet(groups[g])
      /\ \A g \in DOMAIN groups : \E k \in DOMAIN ranked : ToSet(ranked[k]) = ToSet(groups[g])
      /\ \A k, l \in DOMAIN ranked : k < l =>
           /\ Len(ranked[k]) >= Len(ranked[l])
           /\ ToSet(ranked[k]) \cap ToSet(ranked[l]) = {}
  BY <1>0, <1>1, RankClustersRanks
<1>. HIDE DEF ranked
<1>4. Len(ranked) \in Nat /\ DOMAIN ranked = 1 .. Len(ranked) /\ MaxClusters \in Nat \ {0}
  BY <1>3, DailyClustersAssumption
<1>5. /\ last \in Nat /\ last <= Len(ranked) /\ last <= MaxClusters
      /\ last < MaxClusters => last = Len(ranked)
  <2>1. \E x \in {MaxClusters, Len(ranked)} : \A y \in {MaxClusters, Len(ranked)} : x <= y
    BY <1>4
  <2>2. /\ last \in {MaxClusters, Len(ranked)} /\ \A y \in {MaxClusters, Len(ranked)} : last <= y
    BY <2>1 DEF Min
  <2>. HIDE DEF last
  <2>3. last <= MaxClusters /\ last <= Len(ranked) /\ (last = MaxClusters \/ last = Len(ranked))
    BY <2>2
  <2>. QED  BY <2>3, <1>4
<1>. HIDE DEF last
<1>6. /\ Selected \in Seq(Seq(Recent)) /\ Len(Selected) = last
      /\ \A i \in 1 .. last : Selected[i] = ranked[i]
  <2>1. ASSUME NEW i \in 1 .. last  PROVE ranked[i] \in Seq(Recent)
    <3>a. last \in Nat
      BY <1>5
    <3>b. last <= Len(ranked)
      BY <1>5
    <3>c. Len(ranked) \in Nat
      BY <1>4
    <3>0. i \in Nat /\ 1 <= i /\ i <= last
      BY <3>a
    <3>1. i \in 1 .. Len(ranked)
      BY <3>0, <3>a, <3>b, <3>c
    <3>. QED  BY <3>1, <1>3, ElementOfSeq
  <2>2. /\ SubSeq(ranked, 1, last) \in Seq(Seq(Recent))
        /\ Len(SubSeq(ranked, 1, last)) = IF 1 <= last THEN last - 1 + 1 ELSE 0
        /\ \A i \in 1 .. last - 1 + 1 : SubSeq(ranked, 1, last)[i] = ranked[1 + i - 1]
    BY <2>1, <1>5, SubSeqProperties
  <2>. QED  BY <2>2, <1>2, <1>5
<1>7. DOMAIN Selected = 1 .. last /\ DOMAIN Selected \subseteq Ranks /\ DOMAIN Selected \subseteq DOMAIN ranked
  <2>1. DOMAIN Selected = 1 .. last
    BY <1>6
  <2>2. 1 .. last \subseteq Ranks /\ 1 .. last \subseteq 1 .. Len(ranked)
    <3>1. SUFFICES ASSUME NEW i \in 1 .. last
                   PROVE  i \in 1 .. MaxClusters /\ i \in 1 .. Len(ranked)
      BY DEF Ranks
    <3>2. i \in Nat /\ 1 <= i /\ i <= last
      BY <1>5
    <3>3. last <= Len(ranked) /\ last <= MaxClusters
      BY <1>5
    <3>4. last \in Nat /\ Len(ranked) \in Nat /\ MaxClusters \in Nat
      BY <1>4, <1>5
    <3>. HIDE DEF last
    <3>. QED  BY <3>2, <3>3, <3>4
  <2>. QED  BY <2>1, <2>2, <1>4
<1>8. ASSUME Len(Selected) < MaxClusters, NEW x \in Recent
      PROVE  \E k \in DOMAIN Selected : x \in ToSet(Selected[k])
  <2>1. PICK g \in DOMAIN groups : \E i \in DOMAIN groups[g] : groups[g][i] = x
    BY <1>1 DEF IsPartition
  <2>2. x \in ToSet(groups[g])
    BY <2>1 DEF ToSet
  <2>3. PICK k \in DOMAIN ranked : ToSet(ranked[k]) = ToSet(groups[g])
    BY <1>3
  <2>4. k \in DOMAIN Selected
    BY <1>4, <1>5, <1>6, <1>7, <1>8
  <2>. QED  BY <2>2, <2>3, <2>4, <1>6, <1>7
<1>9. ASSUME NEW k \in DOMAIN Selected
      PROVE  /\ Selected[k] \in Seq(Recent) /\ IsInjective(Selected[k]) /\ Len(Selected[k]) \in Nat \ {0}
             /\ Cardinality(ToSet(Selected[k])) = Len(Selected[k])
             /\ \A row \in ToSet(Selected[k]) : <<Min(ToSet(Selected[k])), row>> \in Alike
  <2>1. Selected[k] = ranked[k] /\ k \in DOMAIN ranked
    BY <1>6, <1>7
  <2>2. PICK g \in DOMAIN groups : ToSet(ranked[k]) = ToSet(groups[g])
    BY <2>1, <1>3
  <2>3. \A row \in ToSet(Selected[k]) : <<Min(ToSet(Selected[k])), row>> \in Alike
    BY <2>1, <2>2, <1>0, <1>1, OldestIsAlike
  <2>4. Selected[k] \in Seq(Recent)
    BY <1>6
  <2>. QED  BY <2>1, <2>3, <2>4, <1>3
<1>10. ASSUME NEW k \in DOMAIN Selected, NEW l \in DOMAIN Selected, k < l
       PROVE  /\ Len(Selected[k]) >= Len(Selected[l])
              /\ ToSet(Selected[k]) \cap ToSet(Selected[l]) = {}
  BY <1>3, <1>6, <1>7, <1>10
<1>. QED  BY <1>5, <1>6, <1>7, <1>8, <1>9, <1>10

(***************************************************************************)
(* The window of a job and the rows of its articles.                       *)
(***************************************************************************)
LEMMA MaxOf ==
  ASSUME NEW n \in Nat, NEW T, T \subseteq 0 .. n, T # {}
  PROVE  Max(T) \in T /\ \A x \in T : x <= Max(T)
<1>. DEFINE D == {n - x : x \in T}
<1>1. PICK d \in D : \A e \in D : d <= e
  <2>1. D \subseteq 0 .. n /\ D # {}
    <3>1. ASSUME NEW x \in T  PROVE n - x \in 0 .. n
      OBVIOUS
    <3>. QED  BY <3>1
  <2>. HIDE DEF D
  <2>. QED  BY <2>1, LeastNumber
<1>2. PICK m \in T : d = n - m
  BY <1>1
<1>3. \A x \in T : x <= m
  <2>1. ASSUME NEW x \in T  PROVE x <= m
    <3>1. n - m <= n - x
      BY <1>1, <1>2
    <3>. QED  BY <3>1
  <2>. QED  BY <2>1
<1>. QED  BY <1>3 DEF Max

LEMMA RawNumbers == /\ Cardinality(Raws) \in Nat /\ Raws = 1 .. Cardinality(Raws)
                    /\ \A r \in Raws : r \in Nat
<1>1. Cardinality(Raws) \in Nat /\ Raws = 1 .. Cardinality(Raws)
  BY DailyClustersAssumption, FS_CardinalityType
<1>. QED  BY <1>1

Contexts == [job : Jobs, from : Nat, to : Raws, complete : BOOLEAN]

ContextInv ==
  /\ contexts \in Seq(Contexts)
  /\ \A i \in DOMAIN contexts : contexts[i].from <= contexts[i].to

LEMMA EndsOfWindows ==
  ASSUME ContextInv
  PROVE  CoverageEnd \in Nat /\ LastEnd \in Nat /\ CoverageEnd <= LastEnd
<1>. DEFINE n == Cardinality(Raws)
            T == {0} \cup {contexts[i].to : i \in {i \in DOMAIN contexts : contexts[i].complete}}
            U == {0} \cup {contexts[i].to : i \in DOMAIN contexts}
<1>1. n \in Nat /\ T \subseteq U /\ U \subseteq 0 .. n /\ T # {} /\ U # {}
  <2>1. ASSUME NEW i \in DOMAIN contexts  PROVE contexts[i].to \in 1 .. n
    <3>1. contexts[i] \in Contexts
      BY DEF ContextInv
    <3>. QED  BY <3>1, RawNumbers DEF Contexts
  <2>. QED  BY <2>1, RawNumbers
<1>2. CoverageEnd = Max(T) /\ LastEnd = Max(U)
  BY DEF CoverageEnd, LastEnd
<1>. HIDE DEF T, U, n
<1>3. Max(T) \in T /\ Max(U) \in U /\ \A x \in U : x <= Max(U)
  <2>1. T \subseteq 0 .. n
    BY <1>1
  <2>. QED  BY <1>1, <2>1, MaxOf
<1>4. Max(T) \in 0 .. n /\ Max(U) \in 0 .. n /\ Max(T) <= Max(U)
  BY <1>1, <1>3
<1>. QED  BY <1>1, <1>2, <1>4

LEMMA IndexOfContext ==
  ASSUME ContextInv, NEW j, \E i \in DOMAIN contexts : contexts[i].job = j
  PROVE  IndexOf(j) \in DOMAIN contexts /\ contexts[IndexOf(j)].job = j
<1>. DEFINE I == {i \in 1 .. Len(contexts) : contexts[i].job = j}
<1>1. Len(contexts) \in Nat /\ DOMAIN contexts = 1 .. Len(contexts)
  BY DEF ContextInv
<1>2. I # {} /\ I \subseteq 0 .. Len(contexts)
  BY <1>1
<1>3. IndexOf(j) = Min(I)
  BY <1>2 DEF IndexOf, SelectInSeq
<1>4. Min(I) \in I
  <2>. HIDE DEF I
  <2>1. \E m \in I : \A l \in I : m <= l
    BY <1>1, <1>2, LeastNumber
  <2>. QED  BY <2>1 DEF Min
<1>. QED  BY <1>1, <1>3, <1>4

LEMMA WindowIsRaw ==
  ASSUME ContextInv, NEW j, \E i \in DOMAIN contexts : contexts[i].job = j
  PROVE  Window(j) \subseteq Raws
<1>1. IndexOf(j) \in DOMAIN contexts
  BY IndexOfContext
<1>2. contexts[IndexOf(j)] \in Contexts
  BY <1>1 DEF ContextInv
<1>3. contexts[IndexOf(j)].from \in Nat /\ contexts[IndexOf(j)].to \in Raws
  BY <1>2 DEF Contexts
<1>. QED  BY <1>3, RawNumbers DEF Window

\* The newest of the articles of a story is kept.
LEMMA EveryStoryIsKept ==
  ASSUME NEW visible, visible \subseteq Raws, NEW r \in visible
  PROVE  \E s \in Kept(visible) : Story[s] = Story[r]
<1>. DEFINE T == {s \in visible : Story[s] = Story[r]}
            n == Cardinality(Raws)
<1>1. T \subseteq 0 .. n /\ T # {} /\ n \in Nat
  BY RawNumbers
<1>2. Max(T) \in T /\ \A x \in T : x <= Max(T)
  <2>. HIDE DEF T, n
  <2>. QED  BY <1>1, MaxOf
<1>3. Max(T) \in visible /\ Story[Max(T)] = Story[r]
  BY <1>2
<1>4. \A s \in visible : Story[s] = Story[Max(T)] => s <= Max(T)
  BY <1>2, <1>3
<1>. HIDE DEF T
<1>. QED  BY <1>3, <1>4 DEF Kept

\* The rows after deduplication: the old ones, and new ones of articles that
\* had none.
LEMMA RowsAfterDedupe ==
  ASSUME RowsInv, NEW visible, visible \subseteq Raws
  PROVE  LET rows == WithRows(Kept(visible))
         IN  /\ rows \in Seq(Raws) /\ IsInjective(rows)
             /\ DOMAIN processed \subseteq DOMAIN rows
             /\ \A i \in DOMAIN processed : rows[i] = processed[i]
             /\ Kept(visible) \subseteq ToSet(rows)
<1>. DEFINE new == Kept(visible) \ ToSet(processed)
            id == [r \in Raws |-> r]
            newer == {pair \in new \X new : id[pair[1]] > id[pair[2]]}
            tail == NewestFirst(new, id)
            rows == processed \o tail
<1>1. new \subseteq Raws /\ IsFiniteSet(new)
  <2>1. new \subseteq Raws
    BY DEF Kept
  <2>. QED  BY <2>1, DailyClustersAssumption, FS_Subset
<1>2. StrictOrder(newer, new)
  <2>1. \A x \in new : id[x] = x /\ x \in Nat
    BY <1>1, RawNumbers
  <2>2. \A x, y \in new : <<x, y>> \in newer <=> x > y
    BY <2>1
  <2>. HIDE DEF newer, new, id
  <2>. QED  BY <2>1, <2>2 DEF StrictOrder
<1>3. Lists(tail, new, newer)
  <2>1. tail = InOrder(new, newer)
    BY DEF NewestFirst
  <2>. HIDE DEF tail, new, newer
  <2>. QED  BY <2>1, <1>1, <1>2, InOrderLists
<1>. HIDE DEF tail, newer
<1>4. tail \in Seq(Raws) /\ ToSet(tail) = new /\ IsInjective(tail)
  <2>1. tail \in Seq(new) /\ ToSet(tail) = new /\ IsInjective(tail)
    BY <1>3 DEF Lists
  <2>. HIDE DEF new
  <2>. QED  BY <2>1, <1>1, SeqMonotonic
<1>5. processed \in Seq(Raws) /\ IsInjective(processed)
  BY DEF RowsInv
<1>6. /\ rows \in Seq(Raws) /\ Len(rows) = Len(processed) + Len(tail)
      /\ \A i \in 1 .. Len(processed) + Len(tail) :
           rows[i] = IF i <= Len(processed) THEN processed[i] ELSE tail[i - Len(processed)]
  BY <1>4, <1>5, ConcatProperties
<1>7. /\ Len(processed) \in Nat /\ DOMAIN processed = 1 .. Len(processed)
      /\ Len(tail) \in Nat /\ DOMAIN tail = 1 .. Len(tail)
      /\ DOMAIN rows = 1 .. Len(processed) + Len(tail)
  BY <1>4, <1>5, <1>6
<1>. HIDE DEF rows
<1>8. \A i \in DOMAIN processed : i \in DOMAIN rows /\ rows[i] = processed[i]
  BY <1>6, <1>7
<1>9. ASSUME NEW i \in DOMAIN rows, i \notin DOMAIN processed
      PROVE  i - Len(processed) \in DOMAIN tail /\ rows[i] = tail[i - Len(processed)]
  BY <1>6, <1>7, <1>9
<1>10. IsInjective(rows)
  <2>1. SUFFICES ASSUME NEW i \in DOMAIN rows, NEW l \in DOMAIN rows, rows[i] = rows[l]
                 PROVE  i = l
    BY DEF IsInjective
  <2>2. \A x \in DOMAIN processed : processed[x] \notin new
    BY DEF ToSet
  <2>3. \A x \in DOMAIN tail : tail[x] \in new
    BY <1>4 DEF ToSet
  <2>. HIDE DEF new
  <2>4. CASE i \in DOMAIN processed /\ l \in DOMAIN processed
    BY <2>1, <2>4, <1>5, <1>8 DEF IsInjective
  <2>5. CASE i \notin DOMAIN processed /\ l \notin DOMAIN processed
    <3>1. /\ i - Len(processed) \in DOMAIN tail /\ rows[i] = tail[i - Len(processed)]
          /\ l - Len(processed) \in DOMAIN tail /\ rows[l] = tail[l - Len(processed)]
      BY <1>9, <2>5
    <3>2. i - Len(processed) = l - Len(processed)
      BY <3>1, <2>1, <1>4 DEF IsInjective
    <3>. QED  BY <3>2, <1>7
  <2>6. CASE i \in DOMAIN processed /\ l \notin DOMAIN processed
    <3>1. l - Len(processed) \in DOMAIN tail /\ rows[l] = tail[l - Len(processed)]
      BY <1>9, <2>6
    <3>. QED  BY <3>1, <2>1, <2>2, <2>3, <2>6, <1>8
  <2>7. CASE i \notin DOMAIN processed /\ l \in DOMAIN processed
    <3>1. i - Len(processed) \in DOMAIN tail /\ rows[i] = tail[i - Len(processed)]
      BY <1>9, <2>7
    <3>. QED  BY <3>1, <2>1, <2>2, <2>3, <2>7, <1>8
  <2>. QED  BY <2>4, <2>5, <2>6, <2>7
<1>11. ASSUME NEW r \in Kept(visible)  PROVE r \in ToSet(rows)
  <2>1. CASE r \in ToSet(processed)
    BY <2>1, <1>8 DEF ToSet
  <2>2. CASE r \notin ToSet(processed)
    <3>1. PICK x \in DOMAIN tail : tail[x] = r
      BY <2>2, <1>4 DEF ToSet
    <3>2. /\ x + Len(processed) \in DOMAIN rows /\ ~(x + Len(processed) <= Len(processed))
          /\ x + Len(processed) - Len(processed) = x
      BY <3>1, <1>7
    <3>3. rows[x + Len(processed)] = r
      BY <3>1, <3>2, <1>6, <1>7
    <3>. QED  BY <3>2, <3>3 DEF ToSet
  <2>. QED  BY <2>1, <2>2
<1>. QED  BY <1>6, <1>8, <1>10, <1>11 DEF WithRows, rows, tail

LEMMA MappingOfRows ==
  ASSUME NEW visible, visible \subseteq Raws, NEW rows \in Seq(Raws), Kept(visible) \subseteq ToSet(rows)
  PROVE  Mapping(visible, rows) \subseteq Raws \X DOMAIN rows
<1>1. ASSUME NEW r \in visible
      PROVE  SelectInSeq(rows, LAMBDA s : s \in Kept(visible) /\ Story[s] = Story[r]) \in DOMAIN rows
  <2>. DEFINE I == {i \in 1 .. Len(rows) : rows[i] \in Kept(visible) /\ Story[rows[i]] = Story[r]}
  <2>1. Len(rows) \in Nat /\ DOMAIN rows = 1 .. Len(rows)
    OBVIOUS
  <2>2. I # {}
    <3>1. PICK s \in Kept(visible) : Story[s] = Story[r]
      BY EveryStoryIsKept
    <3>2. PICK i \in DOMAIN rows : rows[i] = s
      BY DEF ToSet
    <3>. QED  BY <3>1, <3>2, <2>1
  <2>3. I \subseteq 0 .. Len(rows)
    BY <2>1
  <2>4. SelectInSeq(rows, LAMBDA s : s \in Kept(visible) /\ Story[s] = Story[r]) = Min(I)
    BY <2>2 DEF SelectInSeq
  <2>5. Min(I) \in I
    <3>. HIDE DEF I
    <3>1. \E m \in I : \A l \in I : m <= l
      BY <2>1, <2>2, <2>3, LeastNumber
    <3>. QED  BY <3>1 DEF Min
  <2>. QED  BY <2>1, <2>4, <2>5
<1>2. ASSUME NEW pair \in Mapping(visible, rows)  PROVE pair \in Raws \X DOMAIN rows
  <2>1. PICK r \in visible :
          pair = <<r, SelectInSeq(rows, LAMBDA s : s \in Kept(visible) /\ Story[s] = Story[r])>>
    BY DEF Mapping
  <2>. QED  BY <2>1, <1>1
<1>. QED  BY <1>2

(***************************************************************************)
(* Rows of the cluster table.                                              *)
(***************************************************************************)
\* A row over the articles of `rows`, with an id below `next`; the groups of
\* a ready one are complete links.
HasFields(row, rows, next) ==
  row \in [id : 1 .. next - 1, articles : Seq(rows), status : {"READY", "UNAVAILABLE"},
          groups : Seq(Seq(rows)), exact : {row.exact}, themed : {row.themed}]

IsRow(row, rows, links, next) ==
  /\ HasFields(row, rows, next)
  /\ IsInjective(row.articles)
  /\ row.status = "READY" => NoneTwice(row.groups) /\ AreLinks(row.groups, links)

LEMMA CloseIsSymmetric == Symmetric(Close)
BY DEF Symmetric, Close, Pairs

\* More articles, and more links among the new ones, take nothing from a row.
LEMMA RowKept ==
  ASSUME NEW rows, NEW more, rows \subseteq more, NEW links, NEW others,
         \A x, y \in rows : <<x, y>> \in links <=> <<x, y>> \in others,
         NEW next \in Nat, NEW later \in Nat, next <= later,
         NEW row, IsRow(row, rows, links, next)
  PROVE  IsRow(row, more, others, later)
<1>1. row.articles \in Seq(more)
  BY SeqMonotonic DEF IsRow, HasFields
<1>2. row.groups \in Seq(Seq(more))
  BY SeqMonotonic DEF IsRow, HasFields
<1>3. row.id \in 1 .. later - 1
  BY DEF IsRow, HasFields
<1>4. ASSUME row.status = "READY"  PROVE AreLinks(row.groups, others)
  <2>1. \A g \in DOMAIN row.groups : \A i \in DOMAIN row.groups[g] : row.groups[g][i] \in rows
    <3>1. ASSUME NEW g \in DOMAIN row.groups  PROVE row.groups[g] \in Seq(rows)
      BY DEF IsRow, HasFields
    <3>. QED  BY <3>1
  <2>2. AreLinks(row.groups, links)
    BY <1>4 DEF IsRow, HasFields
  <2>. QED  BY <2>1, <2>2 DEF AreLinks
<1>. QED  BY <1>1, <1>2, <1>3, <1>4 DEF IsRow, HasFields

LEMMA WithArticlesIsRow ==
  ASSUME NEW rows, NEW next \in Nat, NEW row, NEW articles \in Seq(rows), IsInjective(articles),
         HasFields(row, rows, next)
  PROVE  /\ \A links : IsRow(WithArticles(row, articles), rows, links, next)
         /\ WithArticles(row, articles).id = row.id
         /\ WithArticles(row, articles).articles = articles /\ WithArticles(row, articles).groups = <<>>
<1>. DEFINE new == WithArticles(row, articles)
<1>1. new \in [id : {row.id}, articles : {articles}, status : {"UNAVAILABLE"},
               groups : {<<>>}, exact : {<<>>}, themed : {row.themed}]
  BY DEF WithArticles, HasFields
<1>2. <<>> \in Seq(Seq(rows)) /\ row.id \in 1 .. next - 1
  BY DEF HasFields
<1>. HIDE DEF new
<1>3. HasFields(new, rows, next)
  BY <1>1, <1>2 DEF HasFields
<1>4. new.id = row.id /\ new.articles = articles /\ new.groups = <<>> /\ new.status # "READY"
  BY <1>1
<1>. QED  BY <1>3, <1>4 DEF IsRow, new

LEMMA WithThemesIsRow ==
  ASSUME NEW rows, NEW links, NEW next \in Nat, NEW row, IsRow(row, rows, links, next)
  PROVE  LET new == WithThemes(row)
         IN  /\ IsRow(new, rows, links, next)
             /\ new.id = row.id /\ new.articles = row.articles /\ new.groups = row.groups
             /\ new.exact = row.exact /\ new.themed = ToSet(row.articles)
<1>. DEFINE new == WithThemes(row)
<1>1. new \in [id : {row.id}, articles : {row.articles}, status : {row.status},
               groups : {row.groups}, exact : {row.exact}, themed : {ToSet(row.articles)}]
  BY DEF WithThemes, IsRow, HasFields
<1>. HIDE DEF new
<1>2. /\ new.id = row.id /\ new.articles = row.articles /\ new.status = row.status
      /\ new.groups = row.groups /\ new.exact = row.exact /\ new.themed = ToSet(row.articles)
  BY <1>1
<1>3. /\ row.id \in 1 .. next - 1 /\ row.articles \in Seq(rows)
      /\ row.status \in {"READY", "UNAVAILABLE"} /\ row.groups \in Seq(Seq(rows))
  BY DEF IsRow, HasFields
<1>4. HasFields(new, rows, next)
  BY <1>1, <1>3 DEF HasFields
<1>. QED  BY <1>2, <1>4 DEF IsRow, HasFields, new

Counts(articles) == [article \in ToSet(articles) |-> ExactDuplicates(article)]

LEMMA WithGroupsIsRow ==
  ASSUME NEW rows, NEW links, NEW next \in Nat, NEW row, IsRow(row, rows, links, next),
         NEW groups \in Seq(Seq(rows)), NEW outcome \in {"READY", "UNAVAILABLE"},
         outcome = "READY" => NoneTwice(groups) /\ AreLinks(groups, links)
  PROVE  /\ IsRow(WithGroups(row, groups, outcome), rows, links, next)
         /\ WithGroups(row, groups, outcome).id = row.id
         /\ WithGroups(row, groups, outcome).articles = row.articles
         /\ WithGroups(row, groups, outcome).groups = groups
         /\ WithGroups(row, groups, outcome).exact = Counts(row.articles)
         /\ WithGroups(row, groups, outcome).themed = row.themed
<1>. DEFINE new == WithGroups(row, groups, outcome)
            exact == Counts(row.articles)
<1>1. new \in [id : {row.id}, articles : {row.articles}, status : {outcome},
               groups : {groups}, exact : {exact}, themed : {row.themed}]
  <2>1. new = [row EXCEPT !.status = outcome, !.groups = groups, !.exact = exact]
    BY DEF WithGroups, Counts
  <2>. HIDE DEF new, exact
  <2>. QED  BY <2>1 DEF IsRow, HasFields
<1>. HIDE DEF new, exact
<1>2. /\ new.id = row.id /\ new.articles = row.articles /\ new.status = outcome
      /\ new.groups = groups /\ new.exact = exact /\ new.themed = row.themed
  BY <1>1
<1>3. row.id \in 1 .. next - 1 /\ row.articles \in Seq(rows) /\ IsInjective(row.articles)
  BY DEF IsRow, HasFields
<1>4. HasFields(new, rows, next)
  BY <1>1, <1>3 DEF HasFields
<1>. QED  BY <1>2, <1>3, <1>4 DEF IsRow, HasFields, new, exact

\* Either outcome of the similarity step is a division of the articles.
LEMMA GroupsOfArticles ==
  ASSUME NEW rows, NEW articles \in Seq(rows), IsInjective(articles)
  PROVE  /\ SimilarGroups(articles, Close) \in Seq(Seq(rows))
         /\ NoneTwice(SimilarGroups(articles, Close)) /\ AreLinks(SimilarGroups(articles, Close), Close)
         /\ Singletons(articles) \in Seq(Seq(rows)) /\ NoneTwice(Singletons(articles))
<1>1. ToSet(articles) \subseteq rows
  BY DEF ToSet
<1>2. /\ IsPartition(SimilarGroups(articles, Close), ToSet(articles))
      /\ AreLinks(SimilarGroups(articles, Close), Close)
  BY CloseIsSymmetric, SimilarGroupsAreLinks
<1>3. SimilarGroups(articles, Close) \in Seq(Seq(ToSet(articles)))
  BY <1>2 DEF IsPartition
<1>4. SimilarGroups(articles, Close) \in Seq(Seq(rows))
  <2>1. Seq(ToSet(articles)) \subseteq Seq(rows)
    BY <1>1, SeqMonotonic
  <2>. QED  BY <1>3, <2>1, SeqMonotonic
<1>5. Singletons(articles) \in Seq(Seq(rows))
  <2>1. \A i \in 1 .. Len(articles) : <<articles[i]>> \in Seq(rows)
    OBVIOUS
  <2>2. Singletons(articles) \in [1 .. Len(articles) -> Seq(rows)]
    BY <2>1 DEF Singletons
  <2>3. Len(articles) \in Nat
    OBVIOUS
  <2>. QED  BY <2>2, <2>3, SeqDef
<1>6. NoneTwice(Singletons(articles))
  BY DEF NoneTwice, Singletons, IsInjective
<1>. QED  BY <1>2, <1>4, <1>5, <1>6 DEF IsPartition

(***************************************************************************)
(* What the tables hold of a job that nobody has overtaken: it has read    *)
(* `sel` and `mp`, and `tbl` is what it has made of them so far.           *)
(***************************************************************************)
\* The ranks the job has written.
Mine(r, tbl) == IF r.step < 3 THEN {} ELSE IF r.step = 3 THEN r.built ELSE DOMAIN tbl

\* A row it has written: nothing of an earlier run counts as this one's.
OwnRow(r, row, articles, mp) ==
  /\ row.articles = articles
  /\ r.step < 5 => row.groups = <<>>
  /\ row.groups # <<>> =>
       /\ NoneTwice(row.groups)
       /\ row.exact = [article \in ToSet(articles) |-> Cardinality({pair \in mp : pair[2] = article}) - 1]
  /\ row.id \in r.themed => row.themed = ToSet(articles)
  /\ row.id \in DOMAIN r.cards => r.cards[row.id] = ToSet(articles)

IsGrouped(row) == row.groups # <<>> /\ Members(row.groups) = ToSet(row.articles)

FreshAt(r, tbl, sel, mp) ==
  /\ Mine(r, tbl) \subseteq DOMAIN tbl /\ Mine(r, tbl) \subseteq DOMAIN sel
  /\ r.step > 3 => DOMAIN tbl = DOMAIN sel
  /\ \A k \in Mine(r, tbl) : OwnRow(r, tbl[k], sel[k], mp)
  /\ r.step > 4 => \A k \in DOMAIN tbl : tbl[k].id \in r.themed
  /\ r.step > 5 => \A k \in DOMAIN tbl : IsGrouped(tbl[k])
  /\ r.step > 6 => \A k \in DOMAIN tbl : tbl[k].id \in DOMAIN r.cards

LEMMA NothingWritten ==
  ASSUME NEW r, r.step \in 1 .. 8, NEW tbl, NEW sel, NEW mp, r.step <= 3, r.step = 3 => r.built = {}
  PROVE  FreshAt(r, tbl, sel, mp)
BY DEF FreshAt, Mine

LEMMA SameProgress ==
  ASSUME NEW r, NEW s, NEW tbl, NEW sel, NEW mp, FreshAt(r, tbl, sel, mp),
         s.step = r.step, s.built = r.built, s.themed = r.themed, s.cards = r.cards
  PROVE  FreshAt(s, tbl, sel, mp)
BY DEF FreshAt, Mine, OwnRow

\* The end of one of the later steps.
LEMMA StepIsDone ==
  ASSUME NEW r, NEW s, NEW tbl, NEW sel, NEW mp, FreshAt(r, tbl, sel, mp),
         r.step \in 4 .. 7, s.step = r.step + 1,
         s.themed = r.themed, s.cards = r.cards,
         r.step = 4 => \A k \in DOMAIN tbl : tbl[k].id \in r.themed,
         r.step = 5 => \A k \in DOMAIN tbl : IsGrouped(tbl[k]),
         r.step = 6 => \A k \in DOMAIN tbl : tbl[k].id \in DOMAIN r.cards
  PROVE  FreshAt(s, tbl, sel, mp)
<1>1. Mine(r, tbl) = DOMAIN tbl /\ Mine(s, tbl) = DOMAIN tbl
  BY DEF Mine
<1>2. \A k \in DOMAIN tbl : OwnRow(s, tbl[k], sel[k], mp)
  BY <1>1 DEF FreshAt, OwnRow
<1>3. s.step > 4 => \A k \in DOMAIN tbl : tbl[k].id \in s.themed
  BY DEF FreshAt
<1>4. s.step > 5 => \A k \in DOMAIN tbl : IsGrouped(tbl[k])
  BY DEF FreshAt
<1>5. s.step > 6 => \A k \in DOMAIN tbl : tbl[k].id \in DOMAIN s.cards
  BY DEF FreshAt
<1>. QED  BY <1>1, <1>2, <1>3, <1>4, <1>5 DEF FreshAt

\* The row of rank k is written, or written over.
AtRank(k, tbl, new) ==
  /\ DOMAIN new = DOMAIN tbl \cup {k}
  /\ \A i \in DOMAIN tbl : i # k => new[i] = tbl[i]

LEMMA TargetIsBuilt ==
  ASSUME NEW r, NEW s, NEW tbl, NEW new, NEW sel, NEW mp, FreshAt(r, tbl, sel, mp),
         r.step = 3, s.step = 3, NEW k \in DOMAIN sel, s.built = r.built \cup {k},
         s.themed = r.themed, s.cards = r.cards, r.themed = {}, DOMAIN r.cards = {},
         AtRank(k, tbl, new),
         new[k].articles = sel[k], new[k].groups = <<>>
  PROVE  FreshAt(s, new, sel, mp)
<1>1. Mine(r, tbl) = r.built /\ Mine(s, new) = r.built \cup {k}
  BY DEF Mine
<1>2. ASSUME NEW i \in Mine(s, new)  PROVE OwnRow(s, new[i], sel[i], mp)
  <2>1. CASE i = k
    BY <2>1 DEF OwnRow
  <2>2. CASE i # k
    <3>1. i \in Mine(r, tbl) /\ i \in DOMAIN tbl
      BY <1>1, <2>2 DEF FreshAt, AtRank
    <3>2. OwnRow(r, tbl[i], sel[i], mp) /\ new[i] = tbl[i]
      BY <2>2, <3>1 DEF FreshAt, AtRank
    <3>. QED  BY <3>2 DEF OwnRow
  <2>. QED  BY <2>1, <2>2
<1>3. Mine(s, new) \subseteq DOMAIN new /\ Mine(s, new) \subseteq DOMAIN sel
  BY <1>1 DEF FreshAt, AtRank
<1>. QED  BY <1>2, <1>3 DEF FreshAt, AtRank

LEMMA ClustersAreBuilt ==
  ASSUME NEW r, NEW s, NEW tbl, NEW new, NEW sel, NEW mp, FreshAt(r, tbl, sel, mp),
         r.step = 3, s.step = 4, DOMAIN sel \subseteq r.built, DOMAIN new = DOMAIN sel,
         \A i \in DOMAIN new : new[i] = tbl[i],
         r.themed = {}, DOMAIN r.cards = {}, s.themed = r.themed, DOMAIN s.cards \subseteq DOMAIN r.cards
  PROVE  FreshAt(s, new, sel, mp)
<1>1. Mine(r, tbl) = r.built /\ Mine(s, new) = DOMAIN new
  BY DEF Mine
<1>2. ASSUME NEW i \in DOMAIN new  PROVE OwnRow(s, new[i], sel[i], mp)
  <2>1. OwnRow(r, tbl[i], sel[i], mp) /\ new[i] = tbl[i]
    BY <1>1 DEF FreshAt
  <2>. QED  BY <2>1 DEF OwnRow
<1>. QED  BY <1>1, <1>2 DEF FreshAt

\* One row changes for the better.
LEMMA RowIsWritten ==
  ASSUME NEW r, NEW s, NEW tbl, NEW new, NEW sel, NEW mp, FreshAt(r, tbl, sel, mp),
         r.step \in 4 .. 5, s.step = r.step, s.cards = r.cards, r.themed \subseteq s.themed,
         NEW k \in DOMAIN tbl, AtRank(k, tbl, new),
         \A i \in DOMAIN tbl : i # k /\ tbl[i].id \in s.themed => tbl[i].id \in r.themed,
         new[k].id = tbl[k].id,
         OwnRow(s, new[k], sel[k], mp)
  PROVE  FreshAt(s, new, sel, mp)
<1>0. DOMAIN new = DOMAIN tbl /\ \A i \in DOMAIN tbl : i # k => new[i] = tbl[i]
  BY DEF AtRank
<1>1. Mine(r, tbl) = DOMAIN tbl /\ Mine(s, new) = DOMAIN tbl
  BY <1>0 DEF Mine
<1>2. ASSUME NEW i \in DOMAIN tbl  PROVE OwnRow(s, new[i], sel[i], mp)
  <2>1. CASE i = k
    BY <2>1
  <2>2. CASE i # k
    <3>1. OwnRow(r, tbl[i], sel[i], mp) /\ new[i] = tbl[i]
      BY <1>0, <1>1, <2>2 DEF FreshAt
    <3>. QED  BY <2>2, <3>1 DEF OwnRow
  <2>. QED  BY <2>1, <2>2
<1>3. s.step > 4 => \A i \in DOMAIN tbl : new[i].id \in s.themed
  <2>1. ASSUME s.step > 4, NEW i \in DOMAIN tbl  PROVE new[i].id \in s.themed
    <3>1. tbl[i].id \in r.themed
      BY <2>1 DEF FreshAt
    <3>. QED  BY <3>1, <1>0
  <2>. QED  BY <2>1
<1>. QED  BY <1>0, <1>1, <1>2, <1>3 DEF FreshAt

LEMMA CardIsWritten ==
  ASSUME NEW r, NEW s, NEW tbl, NEW sel, NEW mp, FreshAt(r, tbl, sel, mp),
         r.step = 6, s.step = 6, s.themed = r.themed, NEW k \in DOMAIN tbl,
         \A i \in DOMAIN tbl : tbl[i].id = tbl[k].id => i = k,
         s.cards = WithCard(r.cards, tbl[k])
  PROVE  FreshAt(s, tbl, sel, mp)
<1>1. Mine(r, tbl) = DOMAIN tbl /\ Mine(s, tbl) = DOMAIN tbl
  BY DEF Mine
<1>2. ASSUME NEW i \in DOMAIN tbl  PROVE OwnRow(s, tbl[i], sel[i], mp)
  <2>1. OwnRow(r, tbl[i], sel[i], mp) /\ OwnRow(r, tbl[k], sel[k], mp)
    BY <1>1 DEF FreshAt
  <2>2. tbl[i].articles = sel[i] /\ tbl[k].articles = sel[k]
    BY <2>1 DEF OwnRow
  <2>3. ASSUME tbl[i].id \in DOMAIN s.cards  PROVE s.cards[tbl[i].id] = ToSet(sel[i])
    <3>1. CASE tbl[i].id = tbl[k].id
      <4>1. i = k /\ s.cards[tbl[i].id] = ToSet(tbl[k].articles)
        BY <2>3, <3>1 DEF WithCard
      <4>. QED  BY <2>2, <4>1
    <3>2. CASE tbl[i].id # tbl[k].id
      BY <2>1, <2>3, <3>2 DEF WithCard, OwnRow
    <3>. QED  BY <3>1, <3>2
  <2>. QED  BY <2>1, <2>3 DEF OwnRow
<1>. QED  BY <1>1, <1>2 DEF FreshAt

(***************************************************************************)
(* The inductive invariant.                                                *)
(***************************************************************************)
NewsInv ==
  /\ RowsInv
  /\ close \in CloseGraphs
  /\ mapped \subseteq Raws \X Rows

TableInv ==
  /\ nextId \in Nat \ {0}
  /\ DOMAIN cluster \subseteq Ranks
  /\ \A k \in DOMAIN cluster : IsRow(cluster[k], Rows, Close, nextId)
  /\ \A k, l \in DOMAIN cluster : cluster[k].id = cluster[l].id => k = l
  /\ DOMAIN cluster # {} => processed # <<>>

\* The progress of a job, whose ids are below `next`.
IsJob(r, next) ==
  /\ r \in [status : Statuses, step : 1 .. 8, force : {r.force}, built : SUBSET Ranks,
            themed : SUBSET (1 .. next - 1), cards : {r.cards}, paged : {r.paged}]
  /\ DOMAIN r.cards \subseteq 1 .. next - 1
  /\ r.step < 3 => r.built = {}
  /\ r.step < 4 => r.themed = {}
  /\ r.step < 6 => DOMAIN r.cards = {}

JobsInv ==
  /\ DOMAIN job = Jobs
  /\ \A j \in Jobs : IsJob(job[j], nextId)

PreparedInv ==
  \A j \in Jobs : job[j].step = 2 => \E i \in DOMAIN contexts : contexts[i].job = j

\* A job that nobody has overtaken owns what the tables hold of its progress.
FreshInv ==
  \A j \in Jobs \ stale : FreshAt(job[j], cluster, Selected, mapped)

OutputInv ==
  /\ \E S : pages \in Seq(S)
  /\ stale \subseteq Jobs
  /\ replays \in 0 .. MaxReplays

DCInv == NewsInv /\ ContextInv /\ TableInv /\ JobsInv /\ PreparedInv /\ FreshInv /\ OutputInv

(***************************************************************************)
(* One job's progress.                                                     *)
(***************************************************************************)
LEMMA StepNumbers ==
  ASSUME NEW n \in 1 .. 8
  PROVE  /\ Steps[n] = "PREPARE_MARKET_CONTEXTS" => n = 1
         /\ Steps[n] = "DEDUPE_ARTICLES" => n = 2
         /\ Steps[n] = "BUILD_CLUSTERS" => n = 3
         /\ Steps[n] = "CLASSIFY_CLUSTER_THEMES" => n = 4
         /\ Steps[n] = "GROUP_SIMILAR_ARTICLES" => n = 5
         /\ Steps[n] = "GENERATE_AI_SUMMARIES" => n = 6
         /\ Steps[n] = "BUILD_PAGE_SNAPSHOT" => n = 7
         /\ Steps[n] = "FINALIZE_JOB" => n = 8
BY DEF Steps

LEMMA AtStep ==
  ASSUME JobsInv, NEW j \in Jobs
  PROVE  /\ At(j, "PREPARE_MARKET_CONTEXTS") => job[j].step = 1
         /\ At(j, "DEDUPE_ARTICLES") => job[j].step = 2
         /\ At(j, "BUILD_CLUSTERS") => job[j].step = 3
         /\ At(j, "CLASSIFY_CLUSTER_THEMES") => job[j].step = 4
         /\ At(j, "GROUP_SIMILAR_ARTICLES") => job[j].step = 5
         /\ At(j, "GENERATE_AI_SUMMARIES") => job[j].step = 6
         /\ At(j, "BUILD_PAGE_SNAPSHOT") => job[j].step = 7
         /\ At(j, "FINALIZE_JOB") => job[j].step = 8
<1>1. job[j].step \in 1 .. 8
  BY DEF JobsInv, IsJob
<1>. QED  BY <1>1, StepNumbers DEF At

\* r is at this step with this progress.
Progress(r, outcome, step, built, themed, cards) ==
  r \in [status : {outcome}, step : {step}, force : {r.force}, built : {built}, themed : {themed},
         cards : {cards}, paged : {r.paged}]

OnlyJob(j) == DOMAIN job' = Jobs /\ \A i \in Jobs \ {j} : job'[i] = job[i]

LEMMA OwnProgress ==
  ASSUME JobsInv, NEW j \in Jobs
  PROVE  Progress(job[j], job[j].status, job[j].step, job[j].built, job[j].themed, job[j].cards)
BY DEF JobsInv, IsJob, Progress

LEMMA AdvancedProgress ==
  ASSUME JobsInv, NEW j \in Jobs
  PROVE  /\ DOMAIN Advanced(j) = Jobs /\ \A i \in Jobs \ {j} : Advanced(j)[i] = job[i]
         /\ Progress(Advanced(j)[j], job[j].status, job[j].step + 1,
                     job[j].built, job[j].themed, job[j].cards)
BY OwnProgress DEF JobsInv, Progress, Advanced

LEMMA MoreIds ==
  ASSUME NEW n \in Nat, NEW m \in Nat, n <= m
  PROVE  1 .. n - 1 \subseteq 1 .. m - 1
OBVIOUS

LEMMA JobsKept ==
  ASSUME JobsInv, NEW j \in Jobs, OnlyJob(j), nextId \in Nat, nextId' \in Nat, nextId <= nextId',
         NEW outcome \in Statuses, NEW step \in 1 .. 8, NEW built, built \subseteq Ranks,
         NEW themed, themed \subseteq 1 .. nextId' - 1, NEW cards, DOMAIN cards \subseteq 1 .. nextId' - 1,
         step < 3 => built = {}, step < 4 => themed = {}, step < 6 => DOMAIN cards = {},
         Progress(job'[j], outcome, step, built, themed, cards)
  PROVE  JobsInv'
<1>1. IsJob(job'[j], nextId')
  BY DEF Progress, IsJob
<1>2. ASSUME NEW i \in Jobs, i # j  PROVE IsJob(job'[i], nextId')
  <2>1. job'[i] = job[i] /\ IsJob(job[i], nextId)
    BY <1>2 DEF OnlyJob, JobsInv
  <2>2. 1 .. nextId - 1 \subseteq 1 .. nextId' - 1
    BY MoreIds
  <2>. QED  BY <2>1, <2>2 DEF IsJob
<1>. QED  BY <1>1, <1>2 DEF OnlyJob, JobsInv

(***************************************************************************)
(* What a step that leaves the articles alone keeps.                       *)
(***************************************************************************)
LEMMA NewsKept ==
  ASSUME UNCHANGED news
  PROVE  /\ Selected' = Selected /\ Recent' = Recent /\ Alike' = Alike /\ Close' = Close /\ Rows' = Rows
         /\ RowsInv' = RowsInv
BY DEF news, Selected, Recent, Alike, Close, Pairs, Rows, RowsInv

LEMMA TableKept ==
  ASSUME TableInv, UNCHANGED <<news, cluster, nextId>>
  PROVE  TableInv'
<1>1. Close' = Close /\ Rows' = Rows
  BY NewsKept
<1>. QED  BY <1>1 DEF TableInv, news

\* The other jobs of a step that only changes this one's progress.
LEMMA OthersAreFresh ==
  ASSUME FreshInv, NEW j \in Jobs, OnlyJob(j), UNCHANGED <<news, cluster>>, stale \subseteq stale',
         j \notin stale' => FreshAt(job'[j], cluster, Selected, mapped)
  PROVE  FreshInv'
<1>1. Selected' = Selected /\ mapped' = mapped /\ cluster' = cluster
  BY NewsKept DEF news
<1>. QED  BY <1>1 DEF FreshInv, OnlyJob

(***************************************************************************)
(* The steps that change nothing of the articles, the clusters and the     *)
(* windows.                                                                *)
(***************************************************************************)
LEMMA ProgressKeeps ==
  ASSUME DCInv, NEW j \in Jobs, UNCHANGED <<news, cluster, nextId, contexts>>, OnlyJob(j),
         NEW outcome \in Statuses, NEW step \in 1 .. 8, NEW built, built \subseteq Ranks,
         NEW themed, themed \subseteq 1 .. nextId - 1, NEW cards, DOMAIN cards \subseteq 1 .. nextId - 1,
         step < 3 => built = {}, step < 4 => themed = {}, step < 6 => DOMAIN cards = {},
         Progress(job'[j], outcome, step, built, themed, cards), step = 2 => job[j].step = 2,
         stale \subseteq stale', OutputInv',
         j \notin stale' => FreshAt(job'[j], cluster, Selected, mapped)
  PROVE  DCInv'
<1>1. NewsInv' /\ ContextInv' /\ TableInv'
  BY NewsKept, TableKept DEF DCInv, NewsInv, news, ContextInv
<1>2. JobsInv'
  <2>1. nextId \in Nat /\ nextId' = nextId /\ JobsInv
    BY DEF DCInv, TableInv
  <2>2. themed \subseteq 1 .. nextId' - 1 /\ DOMAIN cards \subseteq 1 .. nextId' - 1 /\ nextId <= nextId'
    BY <2>1
  <2>. QED  BY <2>1, <2>2, JobsKept
<1>3. PreparedInv'
  <2>1. ASSUME NEW i \in Jobs, job'[i].step = 2  PROVE job[i].step = 2
    <3>1. job'[j].step = step
      BY DEF Progress
    <3>. QED  BY <2>1, <3>1 DEF OnlyJob
  <2>. QED  BY <2>1 DEF DCInv, PreparedInv
<1>4. FreshInv'
  BY OthersAreFresh DEF DCInv
<1>. QED  BY <1>1, <1>2, <1>3, <1>4 DEF DCInv

LEMMA ProgressIs ==
  ASSUME NEW r, NEW outcome, NEW step, NEW built, NEW themed, NEW cards,
         Progress(r, outcome, step, built, themed, cards)
  PROVE  r.status = outcome /\ r.step = step /\ r.built = built /\ r.themed = themed /\ r.cards = cards
BY DEF Progress

LEMMA JobFacts ==
  ASSUME DCInv, NEW j \in Jobs
  PROVE  /\ job[j].status \in Statuses /\ job[j].step \in 1 .. 8 /\ job[j].built \subseteq Ranks
         /\ job[j].themed \subseteq 1 .. nextId - 1 /\ DOMAIN job[j].cards \subseteq 1 .. nextId - 1
         /\ job[j].step < 3 => job[j].built = {}
         /\ job[j].step < 4 => job[j].themed = {}
         /\ job[j].step < 6 => DOMAIN job[j].cards = {}
BY DEF DCInv, JobsInv, IsJob

\* Queued, claimed, failed: what has been done stays.
LEMMA StatusKeeps ==
  ASSUME DCInv, NEW j \in Jobs, UNCHANGED <<news, cluster, nextId, contexts, stale>>, OnlyJob(j),
         NEW outcome \in Statuses, OutputInv',
         Progress(job'[j], outcome, job[j].step, job[j].built, job[j].themed, job[j].cards)
  PROVE  DCInv'
<1>. DEFINE r == job[j]
            s == job'[j]
<1>1. s.step = r.step /\ s.built = r.built /\ s.themed = r.themed /\ s.cards = r.cards
  BY ProgressIs
<1>2. ASSUME j \notin stale'  PROVE FreshAt(s, cluster, Selected, mapped)
  <2>1. FreshAt(r, cluster, Selected, mapped)
    BY <1>2 DEF DCInv, FreshInv
  <2>. HIDE DEF r, s
  <2>. QED  BY <2>1, <1>1, SameProgress
<1>. QED  BY <1>2, JobFacts, ProgressKeeps

LEMMA StartKeeps ==
  ASSUME DCInv, NEW j \in Jobs, Start(j)
  PROVE  DCInv'
<1>1. PICK force \in BOOLEAN : job' = [job EXCEPT ![j].status = "ACTIVE", ![j].force = force]
  BY DEF Start
<1>2. OnlyJob(j) /\ Progress(job'[j], "ACTIVE", job[j].step, job[j].built, job[j].themed, job[j].cards)
  BY <1>1, OwnProgress DEF DCInv, JobsInv, OnlyJob, Progress
<1>3. OutputInv' /\ UNCHANGED <<news, cluster, nextId, contexts, stale>>
  BY DEF Start, DCInv, OutputInv, output
<1>. QED  BY <1>2, <1>3, StatusKeeps DEF Statuses

LEMMA ReplayKeeps ==
  ASSUME DCInv, NEW j \in Jobs, Replay(j)
  PROVE  DCInv'
<1>1. job' = [job EXCEPT ![j].status = "ACTIVE"]
  BY DEF Replay
<1>2. OnlyJob(j) /\ Progress(job'[j], "ACTIVE", job[j].step, job[j].built, job[j].themed, job[j].cards)
  BY <1>1, OwnProgress DEF DCInv, JobsInv, OnlyJob, Progress
<1>3. OutputInv' /\ UNCHANGED <<news, cluster, nextId, contexts, stale>>
  <2>1. MaxReplays \in Nat
    BY DailyClustersAssumption
  <2>. QED  BY <2>1 DEF Replay, DCInv, OutputInv
<1>. QED  BY <1>2, <1>3, StatusKeeps DEF Statuses

LEMMA FailKeeps ==
  ASSUME DCInv, NEW j \in Jobs, Fail(j) \/ RefusePage(j)
  PROVE  DCInv'
<1>1. job' = [job EXCEPT ![j].status = "FAILED"]
  BY DEF Fail, RefusePage
<1>2. OnlyJob(j) /\ Progress(job'[j], "FAILED", job[j].step, job[j].built, job[j].themed, job[j].cards)
  BY <1>1, OwnProgress DEF DCInv, JobsInv, OnlyJob, Progress
<1>3. OutputInv' /\ UNCHANGED <<news, cluster, nextId, contexts, stale>>
  BY DEF Fail, RefusePage, DCInv, OutputInv, output
<1>. QED  BY <1>2, <1>3, StatusKeeps DEF Statuses

LEMMA FinalizeKeeps ==
  ASSUME DCInv, NEW j \in Jobs, Finalize(j)
  PROVE  DCInv'
<1>1. PICK outcome \in Statuses : job' = [job EXCEPT ![j].status = outcome]
  BY DEF Finalize, Statuses
<1>2. OnlyJob(j) /\ Progress(job'[j], outcome, job[j].step, job[j].built, job[j].themed, job[j].cards)
  BY <1>1, OwnProgress DEF DCInv, JobsInv, OnlyJob, Progress
<1>3. OutputInv' /\ UNCHANGED <<news, cluster, nextId, contexts, stale>>
  BY DEF Finalize, DCInv, OutputInv, output
<1>. QED  BY <1>2, <1>3, StatusKeeps

\* The end of a step from the themes on.
LEMMA EndKeeps ==
  ASSUME DCInv, NEW j \in Jobs, UNCHANGED <<news, cluster, nextId, contexts, stale>>, OnlyJob(j),
         job[j].step \in 4 .. 7, OutputInv',
         Progress(job'[j], job[j].status, job[j].step + 1, job[j].built, job[j].themed, job[j].cards),
         job[j].step = 4 => Unclassified(j) = {},
         job[j].step = 5 => Ungrouped = {},
         job[j].step = 6 => Unsummarized(j) = {}
  PROVE  DCInv'
<1>. DEFINE r == job[j]
            s == job'[j]
<1>1. s.step = r.step + 1 /\ s.built = r.built /\ s.themed = r.themed /\ s.cards = r.cards
  BY ProgressIs
<1>2. ASSUME j \notin stale'  PROVE FreshAt(s, cluster, Selected, mapped)
  <2>1. FreshAt(r, cluster, Selected, mapped)
    BY <1>2 DEF DCInv, FreshInv
  <2>2. /\ r.step = 4 => \A k \in DOMAIN cluster : cluster[k].id \in r.themed
        /\ r.step = 5 => \A k \in DOMAIN cluster : IsGrouped(cluster[k])
        /\ r.step = 6 => \A k \in DOMAIN cluster : cluster[k].id \in DOMAIN r.cards
    BY <1>2 DEF Unclassified, Ungrouped, IsCurrent, IsGrouped, Unsummarized
  <2>. HIDE DEF r, s
  <2>. QED  BY <2>1, <2>2, <1>1, StepIsDone DEF r
<1>3. job[j].step + 1 \in 1 .. 8 /\ job[j].step + 1 # 2 /\ ~(job[j].step + 1 < 4)
      /\ (job[j].step + 1 < 6 => job[j].step < 6)
  OBVIOUS
<1>4. PICK step : step = job[j].step + 1
  OBVIOUS
<1>5. /\ step \in 1 .. 8 /\ step # 2 /\ ~(step < 3) /\ ~(step < 4) /\ (step < 6 => DOMAIN job[j].cards = {})
      /\ Progress(job'[j], job[j].status, step, job[j].built, job[j].themed, job[j].cards)
  BY <1>3, <1>4, JobFacts
<1>. QED  BY <1>2, <1>5, JobFacts, ProgressKeeps

LEMMA EndStepKeeps ==
  ASSUME DCInv, NEW j \in Jobs, EndThemes(j) \/ EndGroups(j) \/ EndSummaries(j) \/ SkipPage(j)
  PROVE  DCInv'
<1>1. JobsInv
  BY DEF DCInv
<1>2. job' = Advanced(j)
  BY DEF EndThemes, EndGroups, EndSummaries, SkipPage
<1>3. /\ OnlyJob(j)
      /\ Progress(job'[j], job[j].status, job[j].step + 1, job[j].built, job[j].themed, job[j].cards)
  BY <1>1, <1>2, AdvancedProgress DEF OnlyJob
<1>4. OutputInv' /\ UNCHANGED <<news, cluster, nextId, contexts, stale>>
  BY DEF EndThemes, EndGroups, EndSummaries, SkipPage, DCInv, OutputInv, output
<1>5. /\ job[j].step \in 4 .. 7
      /\ job[j].step = 4 => Unclassified(j) = {}
      /\ job[j].step = 5 => Ungrouped = {}
      /\ job[j].step = 6 => Unsummarized(j) = {}
  BY <1>1, AtStep DEF EndThemes, EndGroups, EndSummaries, SkipPage
<1>. QED  BY <1>3, <1>4, <1>5, EndKeeps

LEMMA BuildPageKeeps ==
  ASSUME DCInv, NEW j \in Jobs, BuildPage(j)
  PROVE  DCInv'
<1>1. JobsInv
  BY DEF DCInv
<1>2. PICK paged : job' = [Advanced(j) EXCEPT ![j].paged = paged]
  BY DEF BuildPage
<1>3. /\ OnlyJob(j)
      /\ Progress(job'[j], job[j].status, job[j].step + 1, job[j].built, job[j].themed, job[j].cards)
  BY <1>1, <1>2, AdvancedProgress DEF OnlyJob, Progress
<1>4. UNCHANGED <<news, cluster, nextId, contexts, stale>>
  BY DEF BuildPage
<1>5. OutputInv'
  <2>1. PICK S : pages \in Seq(S)
    BY DEF DCInv, OutputInv
  <2>2. PICK page : pages' = Append(pages, page)
    BY DEF BuildPage
  <2>3. pages' \in Seq(S \cup {page})
    <3>1. pages \in Seq(S \cup {page})
      BY <2>1, SeqMonotonic
    <3>. QED  BY <2>2, <3>1
  <2>. QED  BY <2>3, <1>4 DEF BuildPage, DCInv, OutputInv
<1>6. job[j].step = 7
  BY <1>1, AtStep DEF BuildPage
<1>. QED  BY <1>3, <1>4, <1>5, <1>6, EndKeeps

LEMMA IdsAreNumbers ==
  ASSUME DCInv, NEW k \in DOMAIN cluster
  PROVE  /\ cluster[k].id \in 1 .. nextId - 1 /\ nextId \in Nat \ {0}
         /\ \A i \in DOMAIN cluster : cluster[i].id = cluster[k].id => i = k
<1>1. cluster[k].id \in 1 .. nextId - 1
  <2>1. IsRow(cluster[k], Rows, Close, nextId)
    BY DEF DCInv, TableInv
  <2>. QED  BY <2>1 DEF IsRow, HasFields
<1>. QED  BY <1>1 DEF DCInv, TableInv

LEMMA SummarizeKeeps ==
  ASSUME DCInv, NEW j \in Jobs, NEW k \in Ranks, SummarizeTarget(j, k)
  PROVE  DCInv'
<1>. DEFINE r == job[j]
            s == job'[j]
            cards == WithCard(r.cards, cluster[k])
<1>1. JobsInv /\ k \in DOMAIN cluster /\ r.step = 6
  BY AtStep DEF DCInv, SummarizeTarget, Unsummarized
<1>2. job' = [job EXCEPT ![j].cards = cards]
  BY DEF SummarizeTarget
<1>. HIDE DEF cards
<1>3. OnlyJob(j) /\ Progress(s, r.status, r.step, r.built, r.themed, cards)
  BY <1>1, <1>2, OwnProgress DEF JobsInv, OnlyJob, Progress
<1>4. OutputInv' /\ UNCHANGED <<news, cluster, nextId, contexts, stale>>
  BY DEF SummarizeTarget, DCInv, OutputInv, output
<1>5. DOMAIN cards \subseteq 1 .. nextId - 1
  <2>1. DOMAIN cards = DOMAIN r.cards \cup {cluster[k].id}
    BY DEF cards, WithCard
  <2>. QED  BY <2>1, <1>1, IdsAreNumbers, JobFacts
<1>6. ASSUME j \notin stale'  PROVE FreshAt(s, cluster, Selected, mapped)
  <2>1. FreshAt(r, cluster, Selected, mapped)
    BY <1>4, <1>6 DEF DCInv, FreshInv
  <2>2. s.step = 6 /\ s.themed = r.themed /\ s.cards = WithCard(r.cards, cluster[k])
    BY <1>1, <1>3, ProgressIs DEF cards
  <2>3. \A i \in DOMAIN cluster : cluster[i].id = cluster[k].id => i = k
    BY <1>1, IdsAreNumbers
  <2>. HIDE DEF r, s
  <2>. QED  BY <2>1, <2>2, <2>3, <1>1, CardIsWritten
<1>7. PICK step : step = 6
  OBVIOUS
<1>8. /\ Progress(job'[j], job[j].status, step, job[j].built, job[j].themed, cards)
      /\ step \in 1 .. 8 /\ ~(step < 3) /\ ~(step < 4) /\ ~(step < 6) /\ step # 2
  BY <1>1, <1>3, <1>7
<1>. QED  BY <1>4, <1>3, <1>5, <1>6, <1>8, JobFacts, ProgressKeeps

(***************************************************************************)
(* The window.                                                             *)
(***************************************************************************)
LEMMA PrepareKeeps ==
  ASSUME DCInv, NEW j \in Jobs, Prepare(j)
  PROVE  DCInv'
<1>. DEFINE r == job[j]
            s == job'[j]
<1>1. JobsInv /\ ContextInv /\ r.step = 1
  BY AtStep DEF DCInv, Prepare
<1>2. OnlyJob(j) /\ Progress(s, r.status, 2, r.built, r.themed, r.cards)
  <2>1. Progress(s, r.status, r.step + 1, r.built, r.themed, r.cards) /\ OnlyJob(j)
    BY <1>1, AdvancedProgress DEF Prepare, OnlyJob
  <2>2. r.step + 1 = 2
    BY <1>1
  <2>. QED  BY <2>1, <2>2
<1>3. UNCHANGED <<news, cluster, nextId, stale, output>>
  BY DEF Prepare
<1>4. PICK context : /\ contexts' = Append(contexts, context) /\ context \in Contexts
                     /\ context.job = j /\ context.from <= context.to
  <2>1. CASE contexts # <<>> /\ contexts' = Append(contexts, SameWindow(j))
    <3>1. Last(contexts) \in Contexts /\ Last(contexts).from <= Last(contexts).to
      <4>1. Len(contexts) \in DOMAIN contexts
        BY <1>1, <2>1, EmptySeq DEF ContextInv
      <4>2. contexts[Len(contexts)] \in Contexts /\ contexts[Len(contexts)].from <= contexts[Len(contexts)].to
        BY <4>1, <1>1 DEF ContextInv
      <4>. QED  BY <4>2 DEF Last
    <3>2. SameWindow(j) \in Contexts /\ SameWindow(j).job = j /\ SameWindow(j).from <= SameWindow(j).to
      BY <3>1 DEF SameWindow, Contexts
    <3>. QED  BY <2>1, <3>2
  <2>2. ASSUME NEW end \in WindowEnds, LastEnd <= end, contexts' = Append(contexts, NewWindow(j, end))
        PROVE  /\ NewWindow(j, end) \in Contexts
               /\ NewWindow(j, end).job = j /\ NewWindow(j, end).from <= NewWindow(j, end).to
    <3>1. CoverageEnd \in Nat /\ LastEnd \in Nat /\ CoverageEnd <= LastEnd
      BY <1>1, EndsOfWindows
    <3>2. end \in Raws /\ end \in Nat
      BY DailyClustersAssumption, RawNumbers
    <3>3. CoverageEnd <= end
      BY <3>1, <3>2, <2>2
    <3>. QED  BY <3>1, <3>2, <3>3 DEF NewWindow, Contexts
  <2>. QED  BY <2>1, <2>2 DEF Prepare
<1>5. ContextInv'
  <2>1. contexts \in Seq(Contexts) /\ contexts' \in Seq(Contexts) /\ Len(contexts) \in Nat
    BY <1>1, <1>4 DEF ContextInv
  <2>2. /\ DOMAIN contexts' = 1 .. Len(contexts) + 1
        /\ \A i \in 1 .. Len(contexts) : contexts'[i] = contexts[i]
        /\ contexts'[Len(contexts) + 1] = context
    BY <2>1, <1>4
  <2>3. ASSUME NEW i \in DOMAIN contexts'  PROVE contexts'[i].from <= contexts'[i].to
    <3>1. CASE i = Len(contexts) + 1
      BY <3>1, <2>2, <1>4
    <3>2. CASE i \in 1 .. Len(contexts)
      <4>1. i \in DOMAIN contexts
        BY <3>2, <2>1
      <4>. QED  BY <3>2, <4>1, <2>2, <1>1 DEF ContextInv
    <3>. QED  BY <2>1, <2>2, <3>1, <3>2
  <2>. QED  BY <2>1, <2>3 DEF ContextInv
<1>6. PreparedInv'
  <2>1. contexts \in Seq(Contexts) /\ Len(contexts) \in Nat
    BY <1>1 DEF ContextInv
  <2>2. /\ DOMAIN contexts' = 1 .. Len(contexts) + 1 /\ DOMAIN contexts = 1 .. Len(contexts)
        /\ \A i \in 1 .. Len(contexts) : contexts'[i] = contexts[i]
        /\ contexts'[Len(contexts) + 1] = context /\ Len(contexts) + 1 \in DOMAIN contexts'
    BY <2>1, <1>4
  <2>3. ASSUME NEW i \in Jobs, job'[i].step = 2  PROVE \E c \in DOMAIN contexts' : contexts'[c].job = i
    <3>1. CASE i = j
      BY <3>1, <2>2, <1>4
    <3>2. CASE i # j
      <4>1. PICK c \in DOMAIN contexts : contexts[c].job = i
        BY <3>2, <2>3, <1>2 DEF OnlyJob, DCInv, PreparedInv
      <4>2. c \in DOMAIN contexts' /\ contexts'[c] = contexts[c]
        BY <2>1, <2>2
      <4>. QED  BY <4>1, <4>2
    <3>. QED  BY <3>1, <3>2
  <2>. QED  BY <2>3 DEF PreparedInv
<1>7. JobsInv'
  <2>1. nextId \in Nat /\ nextId' = nextId /\ nextId <= nextId'
    BY <1>3 DEF DCInv, TableInv
  <2>2. /\ r.status \in Statuses /\ r.built \subseteq Ranks /\ r.themed \subseteq 1 .. nextId' - 1
        /\ DOMAIN r.cards \subseteq 1 .. nextId' - 1 /\ r.built = {} /\ r.themed = {} /\ DOMAIN r.cards = {}
    BY <1>1, <2>1, JobFacts
  <2>3. PICK step : step = 2
    OBVIOUS
  <2>4. step \in 1 .. 8 /\ Progress(job'[j], r.status, step, r.built, r.themed, r.cards)
    BY <1>2, <2>3
  <2>. QED  BY <1>1, <1>2, <2>1, <2>2, <2>4, JobsKept
<1>8. FreshInv'
  <2>1. FreshAt(s, cluster, Selected, mapped)
    <3>1. s.step = 2
      BY <1>2, ProgressIs
    <3>. HIDE DEF s
    <3>. QED  BY <3>1, NothingWritten
  <2>. QED  BY <2>1, <1>2, <1>3, OthersAreFresh DEF DCInv
<1>9. NewsInv' /\ TableInv' /\ OutputInv'
  BY <1>3, NewsKept, TableKept DEF DCInv, NewsInv, news, OutputInv, output
<1>. QED  BY <1>5, <1>6, <1>7, <1>8, <1>9 DEF DCInv

\* The score of two articles does not depend on the other articles.
LEMMA LinksOfRows ==
  ASSUME \A i \in DOMAIN processed : i \in DOMAIN processed' /\ processed'[i] = processed[i],
         close' = close, NEW x \in Rows, NEW y \in Rows
  PROVE  <<x, y>> \in Close <=> <<x, y>> \in Close'
BY DEF Close, Pairs, Rows

LEMMA DedupeKeeps ==
  ASSUME DCInv, NEW j \in Jobs, Dedupe(j)
  PROVE  DCInv'
<1>. DEFINE r == job[j]
            s == job'[j]
            ix == IndexOf(j)
<1>1. JobsInv /\ ContextInv /\ RowsInv /\ r.step = 2 /\ r.built = {} /\ r.themed = {} /\ DOMAIN r.cards = {}
  <2>1. JobsInv /\ ContextInv /\ RowsInv /\ r.step = 2
    BY AtStep DEF DCInv, Dedupe, NewsInv
  <2>. QED  BY <2>1, JobFacts
<1>2. ix \in DOMAIN contexts /\ Window(j) \subseteq Raws
  <2>1. \E i \in DOMAIN contexts : contexts[i].job = j
    BY <1>1 DEF DCInv, PreparedInv
  <2>. QED  BY <1>1, <2>1, IndexOfContext, WindowIsRaw
<1>3. PICK missed \in SUBSET Unread(j), complete \in BOOLEAN :
        /\ processed' = WithRows(Kept(Window(j) \ missed))
        /\ mapped' = mapped \cup Mapping(Window(j) \ missed, processed')
        /\ contexts' = [contexts EXCEPT ![IndexOf(j)].complete = complete]
  BY Zenon DEF Dedupe
<1>. DEFINE visible == Window(j) \ missed
<1>4. /\ OnlyJob(j) /\ Progress(s, r.status, 3, {}, {}, r.cards)
  <2>1. Progress(s, r.status, r.step + 1, r.built, r.themed, r.cards) /\ OnlyJob(j)
    BY <1>1, AdvancedProgress DEF Dedupe, OnlyJob
  <2>2. r.step + 1 = 3
    BY <1>1
  <2>. QED  BY <1>1, <2>1, <2>2
<1>5. UNCHANGED <<close, cluster, nextId, output>> /\ stale' = (stale \cup Jobs) \ {j}
  BY DEF Dedupe
<1>6. visible \subseteq Raws
  BY <1>2
<1>. HIDE DEF ix
<1>7. /\ processed' \in Seq(Raws) /\ IsInjective(processed') /\ Kept(visible) \subseteq ToSet(processed')
      /\ \A i \in DOMAIN processed : i \in DOMAIN processed' /\ processed'[i] = processed[i]
  BY <1>1, <1>3, <1>6, RowsAfterDedupe
<1>8. NewsInv'
  <2>1. Mapping(visible, processed') \subseteq Raws \X DOMAIN processed'
    <3>. DEFINE rows == processed'
    <3>1. rows \in Seq(Raws) /\ Kept(visible) \subseteq ToSet(rows)
      BY <1>7
    <3>. HIDE DEF rows
    <3>2. Mapping(visible, rows) \subseteq Raws \X DOMAIN rows
      BY <3>1, <1>6, MappingOfRows
    <3>. QED  BY <3>2 DEF rows
  <2>2. mapped \subseteq Raws \X DOMAIN processed'
    BY <1>7 DEF DCInv, NewsInv, Rows
  <2>. QED  BY <2>1, <2>2, <1>3, <1>5, <1>7 DEF DCInv, NewsInv, RowsInv, Rows
<1>9. TableInv'
  <2>1. Rows \subseteq Rows'
    BY <1>7 DEF Rows
  <2>2. \A x, y \in Rows : <<x, y>> \in Close <=> <<x, y>> \in Close'
    BY <1>5, <1>7, LinksOfRows
  <2>3. nextId \in Nat \ {0} /\ nextId' = nextId /\ cluster' = cluster
    BY <1>5 DEF DCInv, TableInv
  <2>4. ASSUME NEW k \in DOMAIN cluster  PROVE IsRow(cluster[k], Rows', Close', nextId)
    <3>1. IsRow(cluster[k], Rows, Close, nextId)
      BY DEF DCInv, TableInv
    <3>2. nextId \in Nat /\ nextId <= nextId
      BY <2>3
    <3>. QED  BY <2>1, <2>2, <3>1, <3>2, RowKept
  <2>5. ASSUME DOMAIN cluster # {}  PROVE processed' # <<>>
    <3>1. processed # <<>> /\ processed \in Seq(Raws)
      BY <1>1, <2>5 DEF DCInv, TableInv, RowsInv
    <3>2. 1 \in DOMAIN processed
      BY <3>1, EmptySeq
    <3>3. 1 \in DOMAIN processed'
      BY <3>2, <1>7
    <3>. QED  BY <3>3
  <2>. QED  BY <2>3, <2>4, <2>5 DEF DCInv, TableInv
<1>10. /\ contexts' \in Seq(Contexts) /\ DOMAIN contexts' = DOMAIN contexts
       /\ \A i \in DOMAIN contexts : /\ contexts'[i].job = contexts[i].job
                                     /\ contexts'[i].from = contexts[i].from
                                     /\ contexts'[i].to = contexts[i].to
  <2>1. contexts \in Seq(Contexts) /\ contexts[ix] \in Contexts
    BY <1>1, <1>2 DEF ContextInv
  <2>. DEFINE context == [contexts[ix] EXCEPT !.complete = complete]
  <2>2. /\ context \in Contexts /\ context.job = contexts[ix].job
        /\ context.from = contexts[ix].from /\ context.to = contexts[ix].to
    BY <2>1 DEF Contexts
  <2>3. contexts' = [contexts EXCEPT ![ix] = context]
    BY <1>3 DEF ix
  <2>. HIDE DEF context
  <2>4. contexts' \in Seq(Contexts) /\ DOMAIN contexts' = DOMAIN contexts
    BY <2>1, <2>2, <2>3, <1>2, ExceptSeq
  <2>. QED  BY <2>2, <2>3, <2>4, <1>2
<1>11. ContextInv'
  BY <1>1, <1>10 DEF ContextInv
<1>12. PreparedInv'
  <2>1. ASSUME NEW i \in Jobs, job'[i].step = 2  PROVE job[i].step = 2
    <3>1. i # j
      BY <2>1, <1>4, ProgressIs
    <3>. QED  BY <2>1, <3>1, <1>4 DEF OnlyJob
  <2>2. ASSUME NEW i \in Jobs, job'[i].step = 2  PROVE \E c \in DOMAIN contexts' : contexts'[c].job = i
    <3>1. PICK c \in DOMAIN contexts : contexts[c].job = i
      BY <2>1, <2>2 DEF DCInv, PreparedInv
    <3>. QED  BY <3>1, <1>10
  <2>. QED  BY <2>2 DEF PreparedInv
<1>13. JobsInv'
  <2>1. nextId \in Nat /\ nextId' = nextId /\ nextId \in Nat /\ nextId <= nextId'
    BY <1>5 DEF DCInv, TableInv
  <2>2. r.status \in Statuses /\ DOMAIN r.cards \subseteq 1 .. nextId' - 1 /\ DOMAIN r.cards = {}
    BY <1>1, <2>1, JobFacts
  <2>3. PICK step, none : step = 3 /\ none = {}
    OBVIOUS
  <2>4. /\ step \in 1 .. 8 /\ Progress(job'[j], r.status, step, none, none, r.cards)
        /\ none \subseteq Ranks /\ none \subseteq 1 .. nextId' - 1
    BY <1>4, <2>3
  <2>. QED  BY <1>1, <1>4, <2>1, <2>2, <2>3, <2>4, JobsKept
<1>14. FreshInv'
  <2>1. FreshAt(s, cluster', Selected', mapped')
    <3>1. s.step = 3 /\ s.built = {}
      BY <1>4, ProgressIs
    <3>. HIDE DEF s
    <3>. QED  BY <3>1, NothingWritten
  <2>. QED  BY <2>1, <1>5 DEF FreshInv
<1>15. OutputInv'
  BY <1>5 DEF DCInv, OutputInv, output
<1>. QED  BY <1>8, <1>9, <1>11, <1>12, <1>13, <1>14, <1>15 DEF DCInv

(***************************************************************************)
(* The steps that write clusters.                                          *)
(***************************************************************************)
LEMMA TableStepKeeps ==
  ASSUME DCInv, NEW j \in Jobs, UNCHANGED <<news, contexts, output>>, Overtake(j),
         TableInv', JobsInv', \A i \in Jobs : job'[i].step = 2 => job[i].step = 2,
         j \notin stale => FreshAt(job'[j], cluster', Selected, mapped)
  PROVE  DCInv'
<1>1. NewsInv' /\ ContextInv' /\ PreparedInv'
  BY NewsKept DEF DCInv, NewsInv, news, ContextInv, PreparedInv
<1>2. stale \subseteq stale' /\ Jobs \ {j} \subseteq stale' /\ OutputInv'
  BY DEF Overtake, DCInv, OutputInv, output
<1>3. FreshInv'
  <2>1. Selected' = Selected /\ mapped' = mapped
    BY NewsKept DEF news
  <2>. QED  BY <1>2, <2>1 DEF FreshInv
<1>. QED  BY <1>1, <1>2, <1>3 DEF DCInv

\* A cluster that is new, or written over.
LEMMA UpsertedRow ==
  ASSUME DCInv, NEW k, NEW next \in Nat, next = IF k \in DOMAIN cluster THEN nextId ELSE nextId + 1
  PROVE  LET row == Upserted(k)
         IN  /\ HasFields(row, Rows, next)
             /\ row.id = IF k \in DOMAIN cluster THEN cluster[k].id ELSE nextId
<1>0. nextId \in Nat \ {0}
  BY DEF DCInv, TableInv
<1>1. CASE k \in DOMAIN cluster
  <2>1. IsRow(cluster[k], Rows, Close, nextId) /\ Upserted(k) = cluster[k]
    BY <1>1 DEF DCInv, TableInv, Upserted
  <2>. QED  BY <1>1, <2>1 DEF IsRow, HasFields
<1>2. CASE k \notin DOMAIN cluster
  <2>1. Upserted(k) = [id |-> nextId, articles |-> <<>>, status |-> "UNAVAILABLE", groups |-> <<>>,
                       exact |-> <<>>, themed |-> {}]
    BY <1>2 DEF Upserted
  <2>2. nextId \in 1 .. next - 1
    BY <1>0, <1>2
  <2>3. <<>> \in Seq(Rows) /\ <<>> \in Seq(Seq(Rows))
    OBVIOUS
  <2>. QED  BY <1>2, <2>1, <2>2, <2>3 DEF HasFields
<1>. QED  BY <1>1, <1>2

LEMMA BuildTargetKeeps ==
  ASSUME DCInv, NEW j \in Jobs, NEW k \in Ranks, BuildTarget(j, k)
  PROVE  DCInv'
<1>. DEFINE r == job[j]
            s == job'[j]
            row == Upserted(k)
            new == WithArticles(row, Selected[k])
<1>1. JobsInv /\ r.step = 3 /\ RowsInv /\ nextId \in Nat \ {0}
  BY AtStep DEF DCInv, BuildTarget, NewsInv, TableInv
<1>2. k \in DOMAIN Selected
  BY DEF BuildTarget
<1>3. /\ cluster' = [i \in DOMAIN cluster \cup {k} |-> IF i = k THEN new ELSE cluster[i]]
      /\ nextId' = IF k \in DOMAIN cluster THEN nextId ELSE nextId + 1
      /\ job' = [job EXCEPT ![j].built = @ \cup {k}]
      /\ Overtake(j) /\ UNCHANGED <<news, contexts, output>>
  BY DEF BuildTarget
<1>4. nextId' \in Nat \ {0} /\ nextId <= nextId'
  BY <1>1, <1>3
<1>5. /\ Selected[k] \in Seq(Rows) /\ IsInjective(Selected[k]) /\ processed # <<>>
  <2>1. Selected[k] \in Seq(Recent) /\ IsInjective(Selected[k]) /\ Len(Selected[k]) \in Nat \ {0}
    BY <1>1, <1>2, SelectedClusters
  <2>2. Recent \subseteq Rows
    BY <1>1, RecentRows
  <2>3. Selected[k] \in Seq(Rows) /\ 1 \in DOMAIN Selected[k]
    BY <2>1, <2>2, SeqMonotonic
  <2>4. Selected[k][1] \in Rows
    BY <2>3
  <2>. QED  BY <2>1, <2>3, <2>4 DEF Rows
<1>6. /\ IsRow(new, Rows, Close, nextId')
      /\ new.id = row.id /\ new.articles = Selected[k] /\ new.groups = <<>>
  <2>1. HasFields(row, Rows, nextId')
    BY <1>3, <1>4, UpsertedRow
  <2>2. nextId' \in Nat /\ Selected[k] \in Seq(Rows) /\ IsInjective(Selected[k])
    BY <1>4, <1>5
  <2>. DEFINE next == nextId'
              links == Close
              rows == Rows
              articles == Selected[k]
  <2>4. /\ HasFields(row, rows, next)
        /\ next \in Nat /\ articles \in Seq(rows) /\ IsInjective(articles)
    BY <2>1, <2>2
  <2>. HIDE DEF new, row, next, links, rows, articles
  <2>5. next \in Nat
    BY <2>4
  <2>6. articles \in Seq(rows)
    BY <2>4
  <2>7. IsInjective(articles) /\ HasFields(row, rows, next)
    BY <2>4
  <2>8. /\ \A l : IsRow(WithArticles(row, articles), rows, l, next)
        /\ WithArticles(row, articles).id = row.id
        /\ WithArticles(row, articles).articles = articles /\ WithArticles(row, articles).groups = <<>>
    BY ONLY <2>5, <2>6, <2>7, WithArticlesIsRow
  <2>3. /\ IsRow(WithArticles(row, articles), rows, links, next)
        /\ WithArticles(row, articles).id = row.id
        /\ WithArticles(row, articles).articles = articles /\ WithArticles(row, articles).groups = <<>>
    BY <2>8
  <2>. QED  BY <2>3 DEF new, next, links, rows, articles
<1>7. row.id = IF k \in DOMAIN cluster THEN cluster[k].id ELSE nextId
  BY <1>3, <1>4, UpsertedRow
<1>. HIDE DEF row, new
<1>8. /\ DOMAIN cluster' = DOMAIN cluster \cup {k} /\ cluster'[k] = new
      /\ \A i \in DOMAIN cluster : i # k => cluster'[i] = cluster[i]
  BY <1>3
<1>9. TableInv'
  <2>1. Close' = Close /\ Rows' = Rows /\ processed' = processed
    BY <1>3, NewsKept DEF news
  <2>2. ASSUME NEW i \in DOMAIN cluster'  PROVE IsRow(cluster'[i], Rows, Close, nextId')
    <3>1. CASE i = k
      BY <3>1, <1>6, <1>8
    <3>2. CASE i # k
      <4>1. IsRow(cluster[i], Rows, Close, nextId) /\ cluster'[i] = cluster[i]
        BY <1>8, <3>2 DEF DCInv, TableInv
      <4>. QED  BY <4>1, <1>1, <1>4, RowKept
    <3>. QED  BY <3>1, <3>2
  <2>3. ASSUME NEW i \in DOMAIN cluster, i # k  PROVE cluster[i].id # row.id
    <3>1. cluster[i].id \in 1 .. nextId - 1 /\ \A l \in DOMAIN cluster : cluster[l].id = cluster[i].id => l = i
      BY IdsAreNumbers
    <3>2. cluster[i].id # nextId
      BY <3>1, <1>1
    <3>. QED  BY <2>3, <3>1, <3>2, <1>7
  <2>4. ASSUME NEW i \in DOMAIN cluster', NEW l \in DOMAIN cluster', cluster'[i].id = cluster'[l].id
        PROVE  i = l
    <3>1. CASE i = k \/ l = k
      BY <3>1, <2>3, <2>4, <1>6, <1>8
    <3>2. CASE i # k /\ l # k
      BY <3>2, <2>4, <1>8 DEF DCInv, TableInv
    <3>. QED  BY <3>1, <3>2
  <2>5. DOMAIN cluster' \subseteq Ranks
    BY <1>8 DEF DCInv, TableInv
  <2>. QED  BY <2>1, <2>2, <2>4, <2>5, <1>4, <1>5 DEF TableInv
<1>10. OnlyJob(j) /\ Progress(s, r.status, 3, r.built \cup {k}, r.themed, r.cards)
  BY <1>1, <1>3, OwnProgress DEF JobsInv, OnlyJob, Progress
<1>11. JobsInv'
  <2>1. /\ r.status \in Statuses /\ r.built \cup {k} \subseteq Ranks
        /\ r.themed = {} /\ DOMAIN r.cards = {}
    BY <1>1, JobFacts
  <2>2. PICK step, built : step = 3 /\ built = r.built \cup {k}
    OBVIOUS
  <2>3. /\ step \in 1 .. 8 /\ Progress(job'[j], r.status, step, built, r.themed, r.cards)
        /\ r.themed \subseteq 1 .. nextId' - 1 /\ DOMAIN r.cards \subseteq 1 .. nextId' - 1
    BY <1>10, <2>1, <2>2
  <2>4. /\ JobsInv /\ OnlyJob(j) /\ nextId \in Nat /\ nextId' \in Nat /\ nextId <= nextId'
        /\ r.status \in Statuses /\ built \subseteq Ranks /\ r.themed = {} /\ DOMAIN r.cards = {}
        /\ ~(step < 3)
    BY <1>1, <1>4, <1>10, <2>1, <2>2
  <2>. QED  BY <2>3, <2>4, JobsKept
<1>12. ASSUME NEW i \in Jobs, job'[i].step = 2  PROVE job[i].step = 2
  <2>1. i # j
    BY <1>10, <1>12, ProgressIs
  <2>. QED  BY <2>1, <1>10, <1>12 DEF OnlyJob
<1>13. ASSUME j \notin stale  PROVE FreshAt(s, cluster', Selected, mapped)
  <2>1. FreshAt(r, cluster, Selected, mapped)
    BY <1>13 DEF DCInv, FreshInv
  <2>2. s.step = 3 /\ s.built = r.built \cup {k} /\ s.themed = r.themed /\ s.cards = r.cards
    BY <1>10, ProgressIs
  <2>3. r.themed = {} /\ DOMAIN r.cards = {}
    BY <1>1, JobFacts
  <2>4. cluster'[k].articles = Selected[k] /\ cluster'[k].groups = <<>>
    BY <1>6, <1>8
  <2>. DEFINE sel == Selected
              tbl == cluster
              after == cluster'
  <2>5. r.step = 3 /\ k \in DOMAIN sel /\ FreshAt(r, tbl, sel, mapped)
    BY <2>1, <1>1, <1>2
  <2>6. /\ AtRank(k, tbl, after)
        /\ after[k].articles = sel[k] /\ after[k].groups = <<>>
    BY <1>8, <2>4 DEF AtRank
  <2>. HIDE DEF r, s, sel, tbl, after
  <2>7. FreshAt(s, after, sel, mapped)
    BY <2>2, <2>3, <2>5, <2>6, TargetIsBuilt
  <2>. QED  BY <2>7 DEF after, sel
<1>. QED  BY <1>3, <1>9, <1>11, <1>12, <1>13, TableStepKeeps

\* The ranks that are left are the selected ones, if the job is not overtaken.
LEMMA RanksThatAreLeft ==
  ASSUME DCInv, NEW j \in Jobs \ stale, job[j].step = 3, DOMAIN Selected \subseteq job[j].built
  PROVE  DOMAIN cluster \ StaleRanks = DOMAIN Selected
<1>. DEFINE r == job[j]
<1>1. FreshAt(r, cluster, Selected, mapped) /\ RowsInv
  BY DEF DCInv, FreshInv, NewsInv
<1>2. DOMAIN Selected \subseteq DOMAIN cluster
  <2>1. Mine(r, cluster) = r.built
    BY DEF Mine
  <2>. HIDE DEF r
  <2>2. Mine(r, cluster) \subseteq DOMAIN cluster
    BY <1>1 DEF FreshAt
  <2>. QED  BY <2>1, <2>2 DEF r
<1>3. Len(Selected) \in Nat /\ DOMAIN Selected = 1 .. Len(Selected)
  BY <1>1, SelectedClusters
<1>4. DOMAIN cluster \subseteq Ranks /\ (DOMAIN cluster # {} => processed # <<>>)
  BY DEF DCInv, TableInv
<1>5. ASSUME NEW k \in DOMAIN cluster  PROVE k \in StaleRanks <=> k \notin DOMAIN Selected
  <2>1. processed # <<>> /\ k \in Nat \ {0}
    <3>1. k \in Ranks /\ MaxClusters \in Nat
      BY <1>4, DailyClustersAssumption
    <3>. QED  BY <3>1, <1>4 DEF Ranks
  <2>2. k > Len(Selected) <=> k \notin DOMAIN Selected
    BY <2>1, <1>3
  <2>. QED  BY <2>1, <2>2 DEF StaleRanks
<1>. QED  BY <1>2, <1>5

LEMMA EndBuildKeeps ==
  ASSUME DCInv, NEW j \in Jobs, EndBuild(j)
  PROVE  DCInv'
<1>. DEFINE deleted == {cluster[k].id : k \in StaleRanks}
            left == DOMAIN cluster \ StaleRanks
<1>1. JobsInv /\ job[j].step = 3
  BY AtStep DEF DCInv, EndBuild
<1>2. /\ cluster' = Restrict(cluster, left)
      /\ job' = [i \in Jobs |-> [Advanced(j)[i] EXCEPT !.cards = Restrict(@, DOMAIN @ \ deleted)]]
      /\ Overtake(j) /\ UNCHANGED <<news, nextId, contexts, output>> /\ DOMAIN Selected \subseteq job[j].built
  BY DEF EndBuild
<1>. HIDE DEF deleted
<1>3. /\ DOMAIN cluster' = left /\ \A k \in left : cluster'[k] = cluster[k]
      /\ left \subseteq DOMAIN cluster
  BY <1>2 DEF Restrict
<1>. HIDE DEF left
<1>4. TableInv'
  <2>1. Close' = Close /\ Rows' = Rows /\ processed' = processed
    BY <1>2, NewsKept DEF news
  <2>. QED  BY <1>2, <1>3, <2>1 DEF DCInv, TableInv
<1>5. ASSUME NEW i \in Jobs
      PROVE  \E cards, step : /\ Progress(job'[i], job[i].status, step, job[i].built, job[i].themed, cards)
                              /\ DOMAIN cards \subseteq DOMAIN job[i].cards
                              /\ step = IF i = j THEN 4 ELSE job[i].step
  <2>. DEFINE s == Advanced(j)[i]
              cards == Restrict(s.cards, DOMAIN s.cards \ deleted)
              step == IF i = j THEN 4 ELSE job[i].step
  <2>1. Progress(s, job[i].status, step, job[i].built, job[i].themed, job[i].cards)
    <3>1. CASE i = j
      <4>1. job[j].step + 1 = step
        BY <1>1, <3>1
      <4>. QED  BY <1>1, <3>1, <4>1, AdvancedProgress
    <3>2. CASE i # j
      BY <1>1, <3>2, AdvancedProgress, OwnProgress
    <3>. QED  BY <3>1, <3>2
  <2>2. job'[i] = [s EXCEPT !.cards = cards]
    BY <1>2
  <2>3. DOMAIN cards \subseteq DOMAIN s.cards
    BY DEF Restrict
  <2>. HIDE DEF s, cards, step
  <2>4. s.cards = job[i].cards
    BY <2>1, ProgressIs
  <2>5. Progress(job'[i], job[i].status, step, job[i].built, job[i].themed, cards)
    BY <2>1, <2>2 DEF Progress
  <2>. QED  BY <2>3, <2>4, <2>5 DEF step
<1>6. JobsInv'
  <2>1. ASSUME NEW i \in Jobs  PROVE IsJob(job'[i], nextId)
    <3>1. PICK cards, step :
            /\ Progress(job'[i], job[i].status, step, job[i].built, job[i].themed, cards)
            /\ DOMAIN cards \subseteq DOMAIN job[i].cards
            /\ step = IF i = j THEN 4 ELSE job[i].step
      BY <1>5
    <3>2. /\ job[i].status \in Statuses /\ job[i].step \in 1 .. 8 /\ job[i].built \subseteq Ranks
          /\ job[i].themed \subseteq 1 .. nextId - 1 /\ DOMAIN job[i].cards \subseteq 1 .. nextId - 1
          /\ job[i].step < 3 => job[i].built = {}
          /\ job[i].step < 4 => job[i].themed = {}
          /\ job[i].step < 6 => DOMAIN job[i].cards = {}
      BY JobFacts
    <3>3. /\ step \in 1 .. 8
          /\ step < 3 => job[i].built = {}
          /\ step < 4 => job[i].themed = {}
          /\ step < 6 => DOMAIN cards = {}
      <4>1. CASE i = j
        <5>1. step = 4 /\ DOMAIN job[i].cards = {}
          BY <1>1, <3>1, <3>2, <4>1
        <5>2. DOMAIN cards \subseteq DOMAIN job[i].cards
          BY <3>1
        <5>3. step \in 1 .. 8 /\ ~(step < 3) /\ ~(step < 4)
          BY <5>1
        <5>. QED  BY <5>1, <5>2, <5>3
      <4>2. CASE i # j
        <5>1. step = job[i].step
          BY <3>1, <4>2
        <5>2. step < 6 => DOMAIN cards = {}
          BY <5>1, <3>1, <3>2
        <5>. QED  BY <5>1, <5>2, <3>2
      <4>. QED  BY <4>1, <4>2
    <3>. QED  BY <3>1, <3>2, <3>3 DEF Progress, IsJob
  <2>2. DOMAIN job' = Jobs /\ nextId' = nextId
    BY <1>2
  <2>. QED  BY <2>1, <2>2 DEF JobsInv
<1>7. ASSUME NEW i \in Jobs, job'[i].step = 2  PROVE job[i].step = 2
  <2>1. job'[i].step = IF i = j THEN 4 ELSE job[i].step
    BY <1>5, ProgressIs
  <2>. QED  BY <2>1, <1>7
<1>8. ASSUME j \notin stale  PROVE FreshAt(job'[j], cluster', Selected, mapped)
  <2>. DEFINE r == job[j]
              s == job'[j]
              tbl == cluster
              after == cluster'
              sel == Selected
  <2>1. /\ FreshAt(r, tbl, sel, mapped) /\ DOMAIN sel \subseteq r.built
        /\ r.themed = {} /\ DOMAIN r.cards = {} /\ r.step = 3
    BY <1>1, <1>2, <1>8, JobFacts DEF DCInv, FreshInv
  <2>2. DOMAIN after = DOMAIN sel /\ \A i \in DOMAIN after : after[i] = tbl[i]
    BY <1>1, <1>2, <1>3, <1>8, RanksThatAreLeft DEF left
  <2>3. s.step = 4 /\ s.themed = r.themed /\ DOMAIN s.cards \subseteq DOMAIN r.cards
    BY <1>5, ProgressIs
  <2>. HIDE DEF r, s, tbl, after, sel
  <2>4. FreshAt(s, after, sel, mapped)
    BY <2>1, <2>2, <2>3, ClustersAreBuilt
  <2>. QED  BY <2>4 DEF s, after, sel
<1>. QED  BY <1>2, <1>4, <1>6, <1>7, <1>8, TableStepKeeps

\* One row is rewritten and keeps its id.
LEMMA RowStepKeepsTable ==
  ASSUME DCInv, NEW k \in DOMAIN cluster, NEW new, UNCHANGED <<news, nextId>>,
         cluster' = [cluster EXCEPT ![k] = new],
         IsRow(new, Rows, Close, nextId), new.id = cluster[k].id
  PROVE  TableInv'
<1>1. Close' = Close /\ Rows' = Rows /\ processed' = processed /\ nextId' = nextId
  BY NewsKept DEF news
<1>2. /\ DOMAIN cluster' = DOMAIN cluster /\ cluster'[k] = new
      /\ \A i \in DOMAIN cluster : i # k => cluster'[i] = cluster[i]
  OBVIOUS
<1>3. \A i \in DOMAIN cluster : IsRow(cluster'[i], Rows, Close, nextId) /\ cluster'[i].id = cluster[i].id
  BY <1>2 DEF DCInv, TableInv
<1>. QED  BY <1>1, <1>2, <1>3 DEF DCInv, TableInv

LEMMA OwnRowOf ==
  ASSUME DCInv, NEW j \in Jobs \ stale, NEW k \in DOMAIN cluster, job[j].step > 3, job[j].step \in 1 .. 8
  PROVE  OwnRow(job[j], cluster[k], Selected[k], mapped)
<1>. DEFINE r == job[j]
<1>1. FreshAt(r, cluster, Selected, mapped)
  BY DEF DCInv, FreshInv
<1>2. Mine(r, cluster) = DOMAIN cluster
  BY DEF Mine
<1>. HIDE DEF r
<1>3. OwnRow(r, cluster[k], Selected[k], mapped)
  BY <1>1, <1>2 DEF FreshAt
<1>. QED  BY <1>3 DEF r

LEMMA ClassifyKeeps ==
  ASSUME DCInv, NEW j \in Jobs, NEW k \in Ranks, ClassifyTarget(j, k)
  PROVE  DCInv'
<1>. DEFINE r == job[j]
            s == job'[j]
            new == WithThemes(cluster[k])
            themed == r.themed \cup {cluster[k].id}
<1>1. JobsInv /\ r.step = 4 /\ k \in DOMAIN cluster /\ nextId \in Nat
  BY AtStep DEF DCInv, ClassifyTarget, Unclassified, TableInv
<1>2. /\ cluster' = [cluster EXCEPT ![k] = new]
      /\ job' = [job EXCEPT ![j].themed = themed]
      /\ Overtake(j) /\ UNCHANGED <<news, nextId, contexts, output>>
  BY DEF ClassifyTarget
<1>3. /\ IsRow(new, Rows, Close, nextId)
      /\ new.id = cluster[k].id /\ new.articles = cluster[k].articles /\ new.groups = cluster[k].groups
      /\ new.exact = cluster[k].exact /\ new.themed = ToSet(cluster[k].articles)
  <2>1. IsRow(cluster[k], Rows, Close, nextId)
    BY <1>1 DEF DCInv, TableInv
  <2>. QED  BY <2>1, <1>1, WithThemesIsRow
<1>. HIDE DEF new
<1>4. TableInv'
  BY <1>1, <1>2, <1>3, RowStepKeepsTable
<1>5. themed \subseteq 1 .. nextId - 1
  BY <1>1, IdsAreNumbers, JobFacts
<1>. HIDE DEF themed
<1>6. OnlyJob(j) /\ Progress(s, r.status, 4, r.built, themed, r.cards)
  BY <1>1, <1>2, OwnProgress DEF JobsInv, OnlyJob, Progress
<1>7. JobsInv'
  <2>1. PICK step : step = 4
    OBVIOUS
  <2>2. nextId' = nextId /\ nextId' \in Nat /\ nextId <= nextId'
    BY <1>1, <1>2
  <2>3. /\ r.status \in Statuses /\ r.built \subseteq Ranks /\ DOMAIN r.cards = {}
        /\ step \in 1 .. 8 /\ ~(step < 3) /\ ~(step < 4)
        /\ Progress(job'[j], r.status, step, r.built, themed, r.cards)
        /\ themed \subseteq 1 .. nextId' - 1 /\ DOMAIN r.cards \subseteq 1 .. nextId' - 1
    BY <1>1, <1>5, <1>6, <2>1, <2>2, JobFacts
  <2>. QED  BY <1>1, <1>6, <2>2, <2>3, JobsKept
<1>8. ASSUME NEW i \in Jobs, job'[i].step = 2  PROVE job[i].step = 2
  <2>1. i # j
    BY <1>6, <1>8, ProgressIs
  <2>. QED  BY <2>1, <1>6, <1>8 DEF OnlyJob
<1>9. ASSUME j \notin stale  PROVE FreshAt(s, cluster', Selected, mapped)
  <2>. DEFINE tbl == cluster
              after == cluster'
              sel == Selected
  <2>1. FreshAt(r, tbl, sel, mapped) /\ OwnRow(r, tbl[k], sel[k], mapped)
    <3>1. r.step > 3 /\ r.step \in 1 .. 8
      BY <1>1
    <3>. QED  BY <3>1, <1>1, <1>9, OwnRowOf DEF DCInv, FreshInv
  <2>2. s.step = 4 /\ s.themed = themed /\ s.cards = r.cards /\ s.built = r.built
    BY <1>6, ProgressIs
  <2>3. AtRank(k, tbl, after) /\ after[k] = new
    BY <1>1, <1>2 DEF AtRank
  <2>4. OwnRow(s, after[k], sel[k], mapped)
    <3>1. /\ new.articles = sel[k] /\ new.groups = <<>> /\ new.themed = ToSet(sel[k])
      BY <2>1, <1>1, <1>3 DEF OwnRow
    <3>2. DOMAIN s.cards = {}
      BY <1>1, <2>2, JobFacts
    <3>. QED  BY <2>3, <3>1, <3>2 DEF OwnRow
  <2>5. \A i \in DOMAIN tbl : i # k /\ tbl[i].id \in s.themed => tbl[i].id \in r.themed
    BY <1>1, <2>2, IdsAreNumbers DEF themed
  <2>6. r.themed \subseteq s.themed /\ r.step \in 4 .. 5 /\ s.step = r.step /\ k \in DOMAIN tbl
    BY <1>1, <2>2 DEF themed
  <2>7. after[k].id = tbl[k].id
    BY <1>3, <2>3
  <2>. HIDE DEF r, s, tbl, after, sel
  <2>8. FreshAt(s, after, sel, mapped)
    BY <2>1, <2>2, <2>3, <2>4, <2>5, <2>6, <2>7, RowIsWritten
  <2>. QED  BY <2>8 DEF after, sel
<1>. QED  BY <1>2, <1>4, <1>7, <1>8, <1>9, TableStepKeeps

LEMMA GroupKeeps ==
  ASSUME DCInv, NEW j \in Jobs, NEW k \in Ranks, GroupTarget(j, k)
  PROVE  DCInv'
<1>. DEFINE r == job[j]
            s == job'[j]
            row == cluster[k]
            exact == Counts(row.articles)
<1>1. JobsInv /\ r.step = 5 /\ k \in DOMAIN cluster /\ nextId \in Nat
  BY AtStep DEF DCInv, GroupTarget, Ungrouped, TableInv
<1>2. job' = job /\ Overtake(j) /\ UNCHANGED <<news, nextId, contexts, output>>
  BY DEF GroupTarget
<1>3. IsRow(row, Rows, Close, nextId)
  BY <1>1 DEF DCInv, TableInv
<1>4. row.articles \in Seq(Rows) /\ IsInjective(row.articles)
  BY <1>3 DEF IsRow, HasFields
<1>5. PICK groups \in Seq(Seq(Rows)), outcome \in {"READY", "UNAVAILABLE"} :
        /\ cluster' = [cluster EXCEPT ![k] = WithGroups(row, groups, outcome)]
        /\ NoneTwice(groups) /\ (outcome = "READY" => AreLinks(groups, Close))
  <2>1. /\ SimilarGroups(row.articles, Close) \in Seq(Seq(Rows))
        /\ NoneTwice(SimilarGroups(row.articles, Close)) /\ AreLinks(SimilarGroups(row.articles, Close), Close)
        /\ Singletons(row.articles) \in Seq(Seq(Rows)) /\ NoneTwice(Singletons(row.articles))
    BY <1>4, GroupsOfArticles
  <2>2. \/ cluster' = [cluster EXCEPT ![k] = WithGroups(row, SimilarGroups(row.articles, Close), "READY")]
        \/ cluster' = [cluster EXCEPT ![k] = WithGroups(row, Singletons(row.articles), "UNAVAILABLE")]
    BY DEF GroupTarget
  <2>. HIDE DEF row
  <2>. QED  BY <2>1, <2>2
<1>. DEFINE new == WithGroups(row, groups, outcome)
<1>6. /\ IsRow(new, Rows, Close, nextId)
      /\ new.id = row.id /\ new.articles = row.articles /\ new.groups = groups
      /\ new.exact = exact /\ new.themed = row.themed
  <2>1. outcome = "READY" => NoneTwice(groups) /\ AreLinks(groups, Close)
    BY <1>5
  <2>. HIDE DEF row, exact
  <2>2. /\ IsRow(new, Rows, Close, nextId)
        /\ new.id = row.id /\ new.articles = row.articles /\ new.groups = groups
        /\ new.exact = Counts(row.articles) /\ new.themed = row.themed
    <3>1. nextId \in Nat /\ IsRow(row, Rows, Close, nextId)
      BY <1>1, <1>3
    <3>2. /\ IsRow(WithGroups(row, groups, outcome), Rows, Close, nextId)
          /\ WithGroups(row, groups, outcome).id = row.id
          /\ WithGroups(row, groups, outcome).articles = row.articles
          /\ WithGroups(row, groups, outcome).groups = groups
          /\ WithGroups(row, groups, outcome).exact = Counts(row.articles)
          /\ WithGroups(row, groups, outcome).themed = row.themed
      <4>. HIDE DEF new
      <4>1. groups \in Seq(Seq(Rows)) /\ outcome \in {"READY", "UNAVAILABLE"}
        OBVIOUS
      <4>. QED  BY <3>1, <4>1, <2>1, WithGroupsIsRow
    <3>. QED  BY <3>2 DEF new
  <2>. QED  BY <2>2 DEF exact
<1>. HIDE DEF new
<1>7. cluster' = [cluster EXCEPT ![k] = new]
  BY <1>5 DEF new
<1>8. TableInv'
  BY <1>1, <1>2, <1>6, <1>7, RowStepKeepsTable
<1>9. JobsInv'
  BY <1>1, <1>2 DEF JobsInv
<1>10. ASSUME j \notin stale  PROVE FreshAt(s, cluster', Selected, mapped)
  <2>. DEFINE tbl == cluster
              after == cluster'
              sel == Selected
  <2>1. FreshAt(r, tbl, sel, mapped) /\ OwnRow(r, tbl[k], sel[k], mapped)
    <3>1. r.step > 3 /\ r.step \in 1 .. 8
      BY <1>1
    <3>. QED  BY <3>1, <1>1, <1>10, OwnRowOf DEF DCInv, FreshInv
  <2>2. s = r
    BY <1>2
  <2>3. AtRank(k, tbl, after) /\ after[k] = new
    BY <1>1, <1>7 DEF AtRank
  <2>4. OwnRow(s, after[k], sel[k], mapped)
    <3>1. row.articles = sel[k] /\ exact = Counts(sel[k])
      BY <2>1 DEF OwnRow
    <3>2. exact = [article \in ToSet(sel[k]) |-> Cardinality({pair \in mapped : pair[2] = article}) - 1]
      BY <3>1 DEF Counts, ExactDuplicates
    <3>. HIDE DEF exact, r, s, sel, tbl, after
    <3>3. OwnRow(r, row, sel[k], mapped)
      BY <2>1 DEF tbl
    <3>. HIDE DEF row
    <3>4. r.step = 5 /\ NoneTwice(groups)
      BY <1>1, <1>5
    <3>5. OwnRow(r, new, sel[k], mapped)
      BY <3>1, <3>2, <3>3, <3>4, <1>6 DEF OwnRow
    <3>. QED  BY <2>2, <2>3, <3>5
  <2>5. after[k].id = tbl[k].id
    BY <1>6, <2>3
  <2>6. r.step \in 4 .. 5 /\ k \in DOMAIN tbl
    BY <1>1
  <2>. HIDE DEF r, s, tbl, after, sel
  <2>7. FreshAt(s, after, sel, mapped)
    BY <2>1, <2>2, <2>3, <2>4, <2>5, <2>6, RowIsWritten
  <2>. QED  BY <2>7 DEF after, sel
<1>. QED  BY <1>2, <1>8, <1>9, <1>10, TableStepKeeps

(***************************************************************************)
(* The invariant holds.                                                    *)
(***************************************************************************)
LEMMA DCInvHolds ==
  DCSpec => []DCInv
<1>1. DCInit => DCInv
  <2>1. SUFFICES ASSUME DCInit  PROVE DCInv
    OBVIOUS
  <2>2. RowsInv /\ NewsInv /\ ContextInv
    BY <2>1 DEF DCInit, RowsInv, NewsInv, ContextInv, Rows, IsInjective
  <2>3. TableInv
    <3>1. DOMAIN cluster = {} /\ nextId = 1
      BY <2>1 DEF DCInit
    <3>. QED  BY <3>1 DEF TableInv
  <2>4. DOMAIN job = Jobs /\ nextId = 1 /\ \A j \in Jobs : job[j] = NewJob
    BY <2>1 DEF DCInit
  <2>5. /\ NewJob \in [status : Statuses, step : {1}, force : {NewJob.force}, built : {{}}, themed : {{}},
                       cards : {<<>>}, paged : {NewJob.paged}]
    BY DEF NewJob, Statuses
  <2>6. NewJob.step = 1 /\ NewJob.built = {} /\ NewJob.themed = {} /\ DOMAIN NewJob.cards = {}
    BY <2>5
  <2>7. IsJob(NewJob, 1)
    <3>. HIDE DEF NewJob
    <3>. QED  BY <2>5, <2>6 DEF IsJob
  <2>8. JobsInv /\ PreparedInv
    BY <2>4, <2>6, <2>7 DEF JobsInv, PreparedInv
  <2>9. FreshInv
    <3>1. \A j \in Jobs : job[j].step \in 1 .. 8 /\ job[j].step < 3
      BY <2>4, <2>6
    <3>2. ASSUME NEW j \in Jobs  PROVE FreshAt(job[j], cluster, Selected, mapped)
      <4>. DEFINE r == job[j]
      <4>1. r.step \in 1 .. 8 /\ r.step <= 3 /\ (r.step = 3 => r.built = {})
        BY <3>1
      <4>. HIDE DEF r
      <4>2. FreshAt(r, cluster, Selected, mapped)
        BY <4>1, NothingWritten
      <4>. QED  BY <4>2 DEF r
    <3>. QED  BY <3>2 DEF FreshInv
  <2>10. OutputInv
    <3>1. MaxReplays \in Nat /\ <<>> \in Seq({})
      BY DailyClustersAssumption
    <3>. QED  BY <2>1, <3>1 DEF DCInit, OutputInv
  <2>. QED  BY <2>2, <2>3, <2>8, <2>9, <2>10 DEF DCInv
<1>2. DCInv /\ [DCNext]_dcVars => DCInv'
  <2>1. SUFFICES ASSUME DCInv, [DCNext]_dcVars  PROVE DCInv'
    OBVIOUS
  <2>2. CASE UNCHANGED dcVars
    <3>1. UNCHANGED <<news, cluster, nextId>>
      BY <2>2 DEF dcVars, news
    <3>2. TableInv' /\ Selected' = Selected /\ Rows' = Rows /\ RowsInv' = RowsInv
      BY <2>1, <3>1, TableKept, NewsKept DEF DCInv
    <3>. QED  BY <2>1, <2>2, <3>2 DEF dcVars, DCInv, NewsInv, ContextInv, JobsInv, PreparedInv, FreshInv, OutputInv
  <2>3. CASE DCNext
    <3>1. PICK j \in Jobs :
            \/ Start(j) \/ Replay(j) \/ Fail(j) \/ Prepare(j) \/ Dedupe(j)
            \/ EndBuild(j) \/ EndThemes(j) \/ EndGroups(j) \/ EndSummaries(j)
            \/ BuildPage(j) \/ SkipPage(j) \/ RefusePage(j) \/ Finalize(j)
            \/ \E k \in Ranks : \/ BuildTarget(j, k) \/ ClassifyTarget(j, k)
                                \/ GroupTarget(j, k) \/ SummarizeTarget(j, k)
      BY <2>3 DEF DCNext
    <3>2. CASE Start(j) \/ Replay(j) \/ Fail(j) \/ RefusePage(j) \/ Finalize(j)
      BY <2>1, <3>2, StartKeeps, ReplayKeeps, FailKeeps, FinalizeKeeps
    <3>3. CASE Prepare(j) \/ Dedupe(j)
      BY <2>1, <3>3, PrepareKeeps, DedupeKeeps
    <3>4. CASE EndBuild(j) \/ EndThemes(j) \/ EndGroups(j) \/ EndSummaries(j) \/ SkipPage(j)
      BY <2>1, <3>4, EndBuildKeeps, EndStepKeeps
    <3>5. CASE BuildPage(j)
      BY <2>1, <3>5, BuildPageKeeps
    <3>6. ASSUME NEW k \in Ranks,
                 BuildTarget(j, k) \/ ClassifyTarget(j, k) \/ GroupTarget(j, k) \/ SummarizeTarget(j, k)
          PROVE  DCInv'
      BY <2>1, <3>6, BuildTargetKeeps, ClassifyKeeps, GroupKeeps, SummarizeKeeps
    <3>. QED  BY <3>1, <3>2, <3>3, <3>4, <3>5, <3>6
  <2>. QED  BY <2>1, <2>2, <2>3
<1>. QED  BY <1>1, <1>2, PTL DEF DCSpec

(***************************************************************************)
(* What it gives.                                                          *)
(***************************************************************************)
\* The type invariant: rows, clusters, windows and progress are of the date,
\* whatever articles, scores and interruptions.
THEOREM ClusterTypesCorrect == DCSpec => []DCTypeOK
<1>1. DCInv => DCTypeOK
  <2>1. SUFFICES ASSUME DCInv  PROVE DCTypeOK
    OBVIOUS
  <2>2. ASSUME NEW k \in DOMAIN cluster
        PROVE  /\ cluster[k].id \in 1 .. nextId - 1
               /\ ToSet(cluster[k].articles) \subseteq DOMAIN processed
               /\ cluster[k].status \in {"READY", "UNAVAILABLE"}
    <3>1. IsRow(cluster[k], Rows, Close, nextId)
      BY <2>1 DEF DCInv, TableInv
    <3>2. /\ cluster[k].id \in 1 .. nextId - 1 /\ cluster[k].articles \in Seq(Rows)
          /\ cluster[k].status \in {"READY", "UNAVAILABLE"}
      BY <3>1 DEF IsRow, HasFields
    <3>. QED  BY <3>2 DEF ToSet, Rows
  <2>3. ASSUME NEW j \in Jobs
        PROVE  /\ job[j].status \in Statuses /\ job[j].step \in DOMAIN Steps /\ job[j].built \subseteq Ranks
               /\ job[j].themed \cup DOMAIN job[j].cards \subseteq 1 .. nextId - 1
    <3>1. DOMAIN Steps = 1 .. 8
      BY DEF Steps
    <3>. QED  BY <2>1, <3>1, JobFacts
  <2>4. ASSUME NEW i \in DOMAIN contexts
        PROVE  /\ contexts[i].job \in Jobs /\ contexts[i].complete \in BOOLEAN
               /\ contexts[i].from \in 0 .. contexts[i].to /\ contexts[i].to \in Raws
    <3>1. contexts[i] \in Contexts /\ contexts[i].from <= contexts[i].to
      BY <2>1 DEF DCInv, ContextInv
    <3>2. /\ contexts[i].job \in Jobs /\ contexts[i].complete \in BOOLEAN /\ contexts[i].from \in Nat
          /\ contexts[i].to \in Raws /\ contexts[i].to \in Nat
      BY <3>1, RawNumbers DEF Contexts
    <3>. QED  BY <3>1, <3>2
  <2>. QED  BY <2>1, <2>2, <2>3, <2>4 DEF DCInv, DCTypeOK, NewsInv, RowsInv, Rows, TableInv, OutputInv
<1>. QED  BY <1>1, DCInvHolds, PTL

\* Groups of near-identical articles are complete links and none could take
\* another one whole, in every ready cluster and for every score.
THEOREM SimilarGroupsAreTight == DCSpec => []GroupsAreTight
<1>1. DCInv => GroupsAreTight
  <2>1. SUFFICES ASSUME DCInv, NEW k \in DOMAIN cluster, cluster[k].status = "READY",
                        NEW g \in DOMAIN cluster[k].groups, NEW h \in DOMAIN cluster[k].groups
                 PROVE  (\A i \in DOMAIN cluster[k].groups[g], l \in DOMAIN cluster[k].groups[h] :
                           \/ cluster[k].groups[g][i] = cluster[k].groups[h][l]
                           \/ <<cluster[k].groups[g][i], cluster[k].groups[h][l]>> \in Close) <=> g = h
    BY DEF GroupsAreTight
  <2>. DEFINE groups == cluster[k].groups
  <2>2. NoneTwice(groups) /\ AreLinks(groups, Close)
    BY <2>1 DEF DCInv, TableInv, IsRow
  <2>3. ASSUME g = h, NEW i \in DOMAIN groups[g], NEW l \in DOMAIN groups[h]
        PROVE  groups[g][i] = groups[h][l] \/ <<groups[g][i], groups[h][l]>> \in Close
    BY <2>2, <2>3 DEF AreLinks
  <2>4. ASSUME g # h
        PROVE  \E i \in DOMAIN groups[g], l \in DOMAIN groups[h] :
                 groups[g][i] # groups[h][l] /\ <<groups[g][i], groups[h][l]>> \notin Close
    <3>1. PICK i \in DOMAIN groups[g], l \in DOMAIN groups[h] : <<groups[g][i], groups[h][l]>> \notin Close
      BY <2>2, <2>4 DEF AreLinks
    <3>2. groups[g][i] # groups[h][l]
      BY <2>2, <2>4 DEF NoneTwice
    <3>. QED  BY <3>1, <3>2
  <2>. QED  BY <2>3, <2>4
<1>. QED  BY <1>1, DCInvHolds, PTL

\* The tables when a job that nobody has overtaken builds its page.
LEMMA OwnTables ==
  ASSUME DCInv, NEW j \in Jobs \ stale, At(j, "BUILD_PAGE_SNAPSHOT")
  PROVE  /\ DOMAIN cluster = DOMAIN Selected
         /\ \A k \in DOMAIN cluster :
              /\ cluster[k].articles = Selected[k]
              /\ IsGrouped(cluster[k]) /\ NoneTwice(cluster[k].groups)
              /\ \A row \in ToSet(Selected[k]) : cluster[k].exact[row] = ExactDuplicates(row)
              /\ cluster[k].themed = ToSet(Selected[k])
              /\ CardOf(j, cluster[k]) = ToSet(Selected[k])
<1>. DEFINE r == job[j]
<1>1. FreshAt(r, cluster, Selected, mapped) /\ r.step = 7
  BY AtStep DEF DCInv, FreshInv
<1>2. ASSUME NEW k \in DOMAIN cluster  PROVE OwnRow(r, cluster[k], Selected[k], mapped)
  <2>1. r.step > 3 /\ r.step \in 1 .. 8
    BY <1>1
  <2>. QED  BY <2>1, OwnRowOf
<1>3. \A row : CardOf(j, row) = IF row.id \in DOMAIN r.cards THEN r.cards[row.id] ELSE {}
  BY DEF CardOf
<1>. HIDE DEF r
<1>4. /\ DOMAIN cluster = DOMAIN Selected
      /\ \A k \in DOMAIN cluster :
           cluster[k].id \in r.themed /\ IsGrouped(cluster[k]) /\ cluster[k].id \in DOMAIN r.cards
  BY <1>1 DEF FreshAt
<1>5. ASSUME NEW k \in DOMAIN cluster
      PROVE  /\ cluster[k].articles = Selected[k]
             /\ IsGrouped(cluster[k]) /\ NoneTwice(cluster[k].groups)
             /\ \A row \in ToSet(Selected[k]) : cluster[k].exact[row] = ExactDuplicates(row)
             /\ cluster[k].themed = ToSet(Selected[k])
             /\ CardOf(j, cluster[k]) = ToSet(Selected[k])
  <2>. DEFINE row == cluster[k]
              articles == Selected[k]
  <2>1. OwnRow(r, row, articles, mapped) /\ row.id \in r.themed /\ row.id \in DOMAIN r.cards /\ IsGrouped(row)
    BY <1>2, <1>4
  <2>2. CardOf(j, row) = r.cards[row.id]
    BY <1>3, <2>1
  <2>. HIDE DEF row, articles
  <2>3. /\ row.articles = articles /\ NoneTwice(row.groups) /\ row.themed = ToSet(articles)
        /\ r.cards[row.id] = ToSet(articles)
        /\ row.exact = [article \in ToSet(articles) |-> Cardinality({pair \in mapped : pair[2] = article}) - 1]
    BY <2>1 DEF OwnRow, IsGrouped
  <2>4. \A article \in ToSet(articles) : row.exact[article] = ExactDuplicates(article)
    BY <2>3 DEF ExactDuplicates
  <2>. QED  BY <2>1, <2>2, <2>3, <2>4 DEF row, articles
<1>. QED  BY <1>4, <1>5

LEMMA SelectedAreDisjoint ==
  ASSUME RowsInv, NEW k \in DOMAIN Selected, NEW l \in DOMAIN Selected,
         NEW row \in ToSet(Selected[k]), row \in ToSet(Selected[l])
  PROVE  k = l
<1>1. k \in Nat /\ l \in Nat
  BY SelectedClusters
<1>2. ~(k < l) /\ ~(l < k)
  BY SelectedClusters
<1>. QED  BY <1>1, <1>2

\* The checks before a page is inserted refuse only what another job of the
\* date has written in between.
THEOREM OnlyTheOvertakenAreRefused == DCSpec => []OnlyOvertakenAreRefused
<1>1. DCInv => OnlyOvertakenAreRefused
  <2>1. SUFFICES ASSUME DCInv, NEW j \in Jobs \ stale, At(j, "BUILD_PAGE_SNAPSHOT")
                 PROVE  SourceIsValid
    BY DEF OnlyOvertakenAreRefused
  <2>2. \A k \in DOMAIN cluster : IsCurrent(k)
    BY <2>1, OwnTables DEF IsGrouped, IsCurrent
  <2>3. ASSUME NEW a \in SourceLinks, NEW b \in SourceLinks, a[2] = b[2]  PROVE a = b
    <3>1. PICK k \in DOMAIN cluster : \E row \in ToSet(cluster[k].articles) : a = <<k, row>>
      BY DEF SourceLinks
    <3>2. PICK l \in DOMAIN cluster : \E row \in ToSet(cluster[l].articles) : b = <<l, row>>
      BY DEF SourceLinks
    <3>3. PICK x \in ToSet(cluster[k].articles) : a = <<k, x>>
      BY <3>1
    <3>4. x \in ToSet(cluster[l].articles) /\ b = <<l, x>>
      BY <3>2, <3>3, <2>3
    <3>5. k = l
      <4>1. /\ k \in DOMAIN Selected /\ l \in DOMAIN Selected /\ RowsInv
            /\ cluster[k].articles = Selected[k] /\ cluster[l].articles = Selected[l]
        BY <2>1, OwnTables DEF DCInv, NewsInv
      <4>. QED  BY <3>3, <3>4, <4>1, SelectedAreDisjoint
    <3>. QED  BY <3>3, <3>4, <3>5
  <2>. QED  BY <2>2, <2>3 DEF SourceIsValid, NoArticleTwice
<1>. QED  BY <1>1, DCInvHolds, PTL

LEMMA OwnPageIsTheClustering ==
  ASSUME DCInv, NEW j \in Jobs \ stale, At(j, "BUILD_PAGE_SNAPSHOT"),
         NEW page, page.sections = [k \in DOMAIN cluster |-> Section(j, cluster[k])]
  PROVE  IsTheClustering(page)
<1>. DEFINE shown == page.sections
            rows(k) == ToSet(shown[k].articles)
            all == UNION {rows(k) : k \in DOMAIN shown}
<1>1. RowsInv /\ DOMAIN shown = DOMAIN Selected
  BY OwnTables DEF DCInv, NewsInv
<1>2. ASSUME NEW k \in DOMAIN shown
      PROVE  /\ rows(k) = ToSet(Selected[k])
             /\ shown[k].themed = rows(k) /\ shown[k].card = rows(k)
             /\ Members(shown[k].groups) = rows(k) /\ NoneTwice(shown[k].groups)
             /\ \A row \in rows(k) : shown[k].exact[row] = ExactDuplicates(row)
  <2>1. /\ k \in DOMAIN cluster /\ cluster[k].articles = Selected[k]
        /\ IsGrouped(cluster[k]) /\ NoneTwice(cluster[k].groups)
        /\ \A row \in ToSet(Selected[k]) : cluster[k].exact[row] = ExactDuplicates(row)
        /\ cluster[k].themed = ToSet(Selected[k])
        /\ CardOf(j, cluster[k]) = ToSet(Selected[k])
    BY <1>1, OwnTables
  <2>2. /\ shown[k].articles = cluster[k].articles /\ shown[k].groups = cluster[k].groups
        /\ shown[k].exact = cluster[k].exact /\ shown[k].themed = cluster[k].themed
        /\ shown[k].card = CardOf(j, cluster[k])
    BY <2>1 DEF Section
  <2>. HIDE DEF shown
  <2>. QED  BY <2>1, <2>2 DEF IsGrouped
<1>. HIDE DEF shown
<1>3. /\ Len(Selected) \in Nat /\ DOMAIN shown = 1 .. Len(Selected)
      /\ Cardinality(DOMAIN shown) = Len(Selected)
  <2>1. Len(Selected) \in Nat /\ DOMAIN Selected = 1 .. Len(Selected)
    BY <1>1, SelectedClusters
  <2>2. ASSUME NEW n \in Nat  PROVE Cardinality(1 .. n) = n
    BY FS_Interval
  <2>. QED  BY <2>1, <2>2, <1>1
<1>4. ASSUME NEW k \in DOMAIN shown, NEW l \in DOMAIN shown, k < l
      PROVE  rows(k) \cap rows(l) = {} /\ Cardinality(rows(k)) >= Cardinality(rows(l))
  <2>1. /\ Len(Selected[k]) >= Len(Selected[l])
        /\ ToSet(Selected[k]) \cap ToSet(Selected[l]) = {}
        /\ Cardinality(ToSet(Selected[k])) = Len(Selected[k])
        /\ Cardinality(ToSet(Selected[l])) = Len(Selected[l])
    BY <1>1, <1>4, SelectedClusters
  <2>. QED  BY <2>1, <1>2
<1>5. ASSUME NEW k \in DOMAIN shown
      PROVE  rows(k) \subseteq Recent /\ \A row \in rows(k) : <<Min(rows(k)), row>> \in Alike
  <2>1. /\ Selected[k] \in Seq(Recent)
        /\ \A row \in ToSet(Selected[k]) : <<Min(ToSet(Selected[k])), row>> \in Alike
    BY <1>1, SelectedClusters
  <2>2. ToSet(Selected[k]) \subseteq Recent
    BY <2>1 DEF ToSet
  <2>. QED  BY <2>1, <2>2, <1>2
<1>6. ASSUME Cardinality(DOMAIN shown) < MaxClusters  PROVE Recent \subseteq all
  <2>1. ASSUME NEW x \in Recent  PROVE \E k \in DOMAIN Selected : x \in ToSet(Selected[k])
    BY <1>1, <1>3, <1>6, SelectedClusters
  <2>. QED  BY <2>1, <1>1, <1>2
<1>. QED  BY <1>2, <1>3, <1>4, <1>5, <1>6 DEF IsTheClustering, shown

\* The page of a job that no other job has overtaken is the clustering of the
\* articles there are, whatever earlier runs left in the tables, wherever this
\* one was interrupted and queued again.
THEOREM PageIsOneClustering == DCSpec => PageIsTheClustering
<1>1. DCInv /\ [DCNext]_dcVars =>
        [pages' # pages => (Last(pages').job \in stale \/ IsTheClustering(Last(pages')))]_dcVars
  <2>1. SUFFICES ASSUME DCInv, DCNext, pages' # pages, Last(pages').job \notin stale
                 PROVE  IsTheClustering(Last(pages'))
    BY DEF dcVars
  <2>2. PICK j \in Jobs : BuildPage(j)
    BY <2>1 DEF DCNext, output, Start, Replay, Fail, Prepare, Dedupe, EndBuild, EndThemes, EndGroups,
       EndSummaries, SkipPage, RefusePage, Finalize, BuildTarget, ClassifyTarget, GroupTarget, SummarizeTarget
  <2>. DEFINE page == [job |-> j, sections |-> [k \in DOMAIN cluster |-> Section(j, cluster[k])]]
  <2>3. pages' = Append(pages, page) /\ At(j, "BUILD_PAGE_SNAPSHOT")
    BY <2>2 DEF BuildPage
  <2>4. /\ page.job = j /\ page.sections = [k \in DOMAIN cluster |-> Section(j, cluster[k])]
    OBVIOUS
  <2>. HIDE DEF page
  <2>5. Last(pages') = page
    <3>1. PICK S : pages \in Seq(S)
      BY <2>1 DEF DCInv, OutputInv
    <3>2. pages \in Seq(S \cup {page})
      BY <3>1, SeqMonotonic
    <3>. QED  BY <2>3, <3>2 DEF Last
  <2>6. j \in Jobs \ stale
    BY <2>1, <2>4, <2>5
  <2>. QED  BY <2>1, <2>3, <2>4, <2>5, <2>6, OwnPageIsTheClustering
<1>. QED  BY <1>1, DCInvHolds, PTL DEF DCSpec, PageIsTheClustering
=============================================================================
