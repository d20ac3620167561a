-------------------------- MODULE DailyPagesProofs --------------------------
(***************************************************************************)
(* Theorems about DailyPages, for any number of requests, of jobs that run *)
(* at a time and of interruptions.                                         *)
(***************************************************************************)
EXTENDS DailyPages, FiniteSetTheorems, SequenceTheorems, TLAPS

(***************************************************************************)
(* The inductive invariant.                                                *)
(***************************************************************************)
\* uq_batch_job_idempotency_key and uq_batch_job_active_daily.
KeysAreUnique ==
  \A i, j \in DOMAIN jobs : jobs[i].key = jobs[j].key /\ jobs[i].key # NoKey => i = j
DailyIsAlone ==
  \A i, j \in DOMAIN jobs : IsActiveDaily(jobs[i]) /\ IsActiveDaily(jobs[j]) => i = j

\* The job a handler will requeue or has answered with is one of its request.
Names(r, j) == j \in DOMAIN jobs /\ jobs[j].mode = Mode(r) /\ jobs[j].key = Ask[r].key
Fits(r, handler) ==
  /\ handler \in Handler
  /\ handler.pc = "reuse" \/ handler.answer \in Accepted => Names(r, handler.job)
  /\ handler.answer # "none" => handler.pc = "answered"
  /\ handler.pc = "lookup" => Ask[r].api = "retry"
  /\ handler.root # None => handler.root \in DOMAIN jobs
HandlersFit == \A r \in Requests : Fits(r, req[r])

JobsHaveRoots == \A j \in DOMAIN jobs : jobs[j].root \in DOMAIN jobs
PagesHaveJobs == \A p \in DOMAIN pages : pages[p].job \in DOMAIN jobs
RunsAreRunning ==
  \A j \in JobIds : run[j].pc # "idle" => j \in DOMAIN jobs /\ jobs[j].status = "RUNNING"

\* A job is the answer to a request of its own.
AnsweredRequests == {r \in Requests : req[r].pc = "answered"}
JobsWereAnswered == Len(jobs) <= Cardinality(AnsweredRequests)

\* A version that was read is the next one until its page is in or its run is over.
LockIsHeld == \A j \in JobIds : run[j].pc \in {"locked", "versioned"} => lock = j
VersionsGrow ==
  \A p, q \in DOMAIN pages : p < q => pages[p].version < pages[q].version
VersionIsNext ==
  \A j \in JobIds : run[j].pc = "versioned" =>
    run[j].version > 0 /\ \A p \in DOMAIN pages : pages[p].version < run[j].version

Rows == KeysAreUnique /\ DailyIsAlone /\ JobsHaveRoots /\ PagesHaveJobs /\ RunsAreRunning
Handlers == HandlersFit /\ JobsWereAnswered
Builds == LockIsHeld /\ VersionsGrow /\ VersionIsNext /\ collisions = 0
DailyInv == TypeOK /\ Rows /\ Handlers /\ Builds
-----------------------------------------------------------------------------
(***************************************************************************)
(* Queries.                                                                *)
(***************************************************************************)
\* SelectInSeq finds the row of a key, which is the only one.
LEMMA KeyLookUp ==
  ASSUME jobs \in Seq(Job), KeysAreUnique, NEW key
  PROVE  \/ JobWithKey(key) = None /\ (key = NoKey \/ \A i \in DOMAIN jobs : jobs[i].key # key)
         \/ JobWithKey(key) \in DOMAIN jobs /\ key # NoKey /\ jobs[JobWithKey(key)].key = key
<1> DEFINE I == {i \in 1 .. Len(jobs) : jobs[i].key = key}
<1>1. JobWithKey(key) = IF key = NoKey THEN None ELSE IF I # {} THEN Min(I) ELSE 0
  BY DEF JobWithKey, SelectInSeq
<1>2. DOMAIN jobs = 1 .. Len(jobs) /\ Len(jobs) \in Nat
  OBVIOUS
<1>3. CASE key = NoKey \/ I = {}
  BY <1>1, <1>2, <1>3 DEF None
<1>4. CASE key # NoKey /\ I # {}
  <2>1. PICK i \in I : TRUE
    BY <1>4
  <2>2. I = {i} /\ i \in Int
    BY <1>2, <1>4, <2>1 DEF KeysAreUnique
  <2>3. Min(I) = i
    BY <2>2 DEF Min
  <2>4. QED
    BY <1>1, <1>2, <1>4, <2>1, <2>3
<1>5. QED
  BY <1>3, <1>4

\* Without an answer of the query no market-daily job is active.
LEMMA NoActiveDaily ==
  ASSUME jobs \in Seq(Job), DailyIsAlone, ActiveDaily = None
  PROVE  \A i \in DOMAIN jobs : ~IsActiveDaily(jobs[i])
<1> DEFINE I == {i \in 1 .. Len(jobs) : IsActiveDaily(jobs[i])}
<1>1. ActiveDaily = IF I # {} THEN Min(I) ELSE 0
  BY DEF ActiveDaily, SelectInSeq
<1>2. DOMAIN jobs = 1 .. Len(jobs) /\ Len(jobs) \in Nat
  OBVIOUS
<1>3. SUFFICES ASSUME NEW i \in I PROVE FALSE
  BY <1>2
<1>4. I = {i} /\ i \in 1 .. Len(jobs)
  BY <1>2 DEF DailyIsAlone
<1>5. Min(I) = i
  BY <1>4 DEF Min
<1>6. QED
  BY <1>1, <1>4, <1>5 DEF None

\* As versions grow with the commits, the latest page is the last one.
LEMMA LatestIsLast ==
  ASSUME pages \in Seq(Page), VersionsGrow
  PROVE  LatestPage # None => LatestPage \in DOMAIN pages /\ pages # <<>>
<1> SUFFICES ASSUME pages # <<>>
            PROVE  \E p \in DOMAIN pages : \A q \in DOMAIN pages :
                     pages[q].version <= pages[p].version
  BY DEF LatestPage
<1>1. Len(pages) \in DOMAIN pages /\ DOMAIN pages = 1 .. Len(pages)
  OBVIOUS
<1>2. ASSUME NEW q \in DOMAIN pages PROVE pages[q].version <= pages[Len(pages)].version
  <2>1. pages[q].version \in Nat /\ pages[Len(pages)].version \in Nat
    <3>1. pages[q] \in Page /\ pages[Len(pages)] \in Page
      BY <1>1, ElementOfSeq
    <3>2. QED
      BY <3>1 DEF Page
  <2>2. q < Len(pages) \/ q = Len(pages)
    BY <1>1
  <2>3. QED
    BY <1>1, <2>1, <2>2 DEF VersionsGrow
<1>3. QED
  BY <1>1, <1>2
-----------------------------------------------------------------------------
(***************************************************************************)
(* Initial states.                                                         *)
(***************************************************************************)
LEMMA Bounds ==
  /\ Cardinality(Requests) \in Nat
  /\ None \in Nat /\ None \notin JobIds /\ JobIds \subseteq Nat
BY FS_CardinalityType, DailyPagesAssumption DEF None, JobIds

LEMMA DailyInit == Init => DailyInv
<1> SUFFICES ASSUME Init PROVE DailyInv
  OBVIOUS
<1>1. TypeOK
  BY Bounds, DailyPagesAssumption DEF Init, TypeOK, Handler, Run, Idle, Accepted
<1>2. Rows
  BY DEF Init, Rows, KeysAreUnique, DailyIsAlone, JobsHaveRoots, PagesHaveJobs,
         RunsAreRunning, Idle
<1>3. Handlers
  <2>1. HandlersFit
    BY <1>1 DEF Init, TypeOK, HandlersFit, Fits, Accepted
  <2>2. JobsWereAnswered
    <3>1. AnsweredRequests = {} /\ Len(jobs) = 0
      BY DEF Init, AnsweredRequests
    <3>2. QED
      BY <3>1, FS_EmptySet DEF JobsWereAnswered
  <2>3. QED
    BY <2>1, <2>2 DEF Handlers
<1>4. Builds
  BY DEF Init, Builds, LockIsHeld, VersionsGrow, VersionIsNext, Idle
<1>5. QED
  BY <1>1, <1>2, <1>3, <1>4 DEF DailyInv
-----------------------------------------------------------------------------
(***************************************************************************)
(* The handlers.                                                           *)
(***************************************************************************)
\* What a row, a page or a handler of a good state is made of.
LEMMA JobFields ==
  ASSUME DailyInv, NEW j \in DOMAIN jobs
  PROVE  /\ jobs[j] \in Job /\ j \in JobIds
         /\ jobs[j].mode \in Modes /\ jobs[j].status \in Statuses /\ jobs[j].page \in Nat
         /\ jobs[j].source \in Nat /\ jobs[j].root \in DOMAIN jobs
<1>1. DOMAIN jobs = 1 .. Len(jobs) /\ Len(jobs) \in Nat /\ Len(jobs) <= Cardinality(Requests)
  BY DEF DailyInv, TypeOK
<1>2. jobs[j] \in Job
  BY <1>1, ElementOfSeq DEF DailyInv, TypeOK
<1>3. j \in JobIds
  BY <1>1, Bounds DEF JobIds
<1>4. QED
  BY <1>2, <1>3 DEF Job, DailyInv, Rows, JobsHaveRoots

LEMMA SourceFields ==
  ASSUME DailyInv, NEW j \in DOMAIN jobs
  PROVE  Root(j) \in DOMAIN jobs /\ Root(j) \in JobIds /\ SourcePage(j) \in Nat
<1>1. Root(j) \in DOMAIN jobs
  BY JobFields DEF Root
<1>2. jobs[j].page \in Nat /\ jobs[j].source \in Nat /\ jobs[Root(j)].page \in Nat
  BY <1>1, JobFields
<1>3. QED
  BY <1>1, <1>2, JobFields DEF SourcePage

\* An answer fits when the job it names does.
LEMMA AnswerFits ==
  ASSUME NEW r \in Requests, NEW answer, NEW j, Answer(r, answer, j),
         \/ answer \in Refusals /\ j = None
         \/ answer \in Accepted /\ j \in JobIds /\ Names(r, j)
  PROVE  \E handler : Fits(r, handler) /\ req' = [req EXCEPT ![r] = handler]
<1> DEFINE handler == [pc |-> "answered", job |-> j, source |-> None, root |-> None,
                       answer |-> answer]
<1>1. handler \in Handler
  BY Bounds DEF Handler
<1>2. answer # "none" /\ (answer \in Accepted => Names(r, j))
  BY DEF Refusals, Accepted
<1>3. Fits(r, handler) /\ req' = [req EXCEPT ![r] = handler]
  BY <1>1, <1>2 DEF Fits, Answer
<1>4. QED
  BY <1>3

LEMMA RefusalFits ==
  ASSUME NEW r \in Requests, NEW refusal \in Refusals, Refuse(r, refusal)
  PROVE  \E handler : Fits(r, handler) /\ req' = [req EXCEPT ![r] = handler]
<1>1. Answer(r, refusal, None)
  BY DEF Refuse
<1>2. QED
  BY <1>1, AnswerFits

LEMMA ContinueFits ==
  ASSUME DailyInv, NEW r \in Requests, req[r].pc # "answered",
         NEW place \in {"check", "source", "insert", "conflict"}, Continue(r, place)
  PROVE  \E handler : Fits(r, handler) /\ req' = [req EXCEPT ![r] = handler]
<1> DEFINE handler == [req[r] EXCEPT !.pc = place]
<1>1. Fits(r, req[r]) /\ req \in [Requests -> Handler]
  BY DEF DailyInv, Handlers, HandlersFit, TypeOK
<1>2. req[r].answer = "none"
  BY <1>1 DEF Fits
<1>3. handler \in Handler /\ handler.pc = place /\ handler.answer = "none"
      /\ handler.root = req[r].root
  BY <1>1, <1>2 DEF Handler
<1>4. Fits(r, handler)
  BY <1>1, <1>3 DEF Fits, Accepted
<1>5. req' = [req EXCEPT ![r] = handler]
  BY DEF Continue
<1>6. QED
  BY <1>4, <1>5

LEMMA ReuseFits ==
  ASSUME DailyInv, NEW r \in Requests, req[r].pc # "answered",
         NEW j \in DOMAIN jobs, jobs[j].key = Ask[r].key, Reuse(r, j)
  PROVE  \E handler : Fits(r, handler) /\ req' = [req EXCEPT ![r] = handler]
<1>1. CASE ~Replays(r, j)
  BY <1>1, RefusalFits DEF Reuse, Refusals
<1>2. CASE Replays(r, j) /\ jobs[j].status = "FAILED"
  <2> DEFINE handler == [req[r] EXCEPT !.pc = "reuse", !.job = j]
  <2>1. Fits(r, req[r]) /\ req \in [Requests -> Handler]
    BY DEF DailyInv, Handlers, HandlersFit, TypeOK
  <2>2. handler \in Handler /\ handler.pc = "reuse" /\ handler.answer = "none"
        /\ handler.job = j /\ handler.root = req[r].root
    BY <2>1, JobFields DEF Handler, Fits
  <2>3. Fits(r, handler)
    BY <1>2, <2>1, <2>2 DEF Fits, Names, Replays
  <2>4. req' = [req EXCEPT ![r] = handler]
    BY <1>2 DEF Reuse, Found
  <2>5. QED
    BY <2>3, <2>4
<1>3. CASE Replays(r, j) /\ jobs[j].status # "FAILED"
  BY <1>3, AnswerFits, JobFields DEF Reuse, Replays, Names, Accepted
<1>4. QED
  BY <1>1, <1>2, <1>3

\* A handler that only reads goes to a place that fits.
Reads(r) ==
  LookUpKey(r) \/ CheckActive(r) \/ CheckPage(r) \/ Conflict(r) \/ ResolveSource(r)
    \/ LookUpRetryKey(r)

LEMMA LookUpKeyFits ==
  ASSUME DailyInv, NEW r \in Requests, req[r].pc # "answered",
         NEW place \in {"check", "source", "insert", "conflict"},
         \/ JobWithKey(Ask[r].key) = None /\ Continue(r, place)
         \/ JobWithKey(Ask[r].key) # None /\ Reuse(r, JobWithKey(Ask[r].key))
  PROVE  \E handler : Fits(r, handler) /\ req' = [req EXCEPT ![r] = handler]
<1>1. CASE JobWithKey(Ask[r].key) = None
  BY <1>1, ContinueFits
<1>2. CASE JobWithKey(Ask[r].key) # None
  <2>1. JobWithKey(Ask[r].key) \in DOMAIN jobs
        /\ jobs[JobWithKey(Ask[r].key)].key = Ask[r].key
    BY <1>2, KeyLookUp DEF DailyInv, TypeOK, Rows
  <2>2. QED
    BY <1>2, <2>1, ReuseFits
<1>3. QED
  BY <1>1, <1>2

LEMMA CheckPageFits ==
  ASSUME DailyInv, NEW r \in Requests, CheckPage(r)
  PROVE  \E handler : Fits(r, handler) /\ req' = [req EXCEPT ![r] = handler]
<1>1. req[r].pc # "answered"
  BY DEF CheckPage
<1>2. CASE \/ Refuse(r, "PAGE_NOT_FOUND") \/ Refuse(r, "PAGE_ALREADY_EXISTS")
  BY <1>2, RefusalFits DEF Refusals
<1>3. CASE Continue(r, "insert")
  BY <1>1, <1>3, ContinueFits
<1>4. CASE /\ LatestPage # None
           /\ req' = [req EXCEPT ![r].pc = "insert", ![r].source = LatestPage,
                                 ![r].root = Root(pages[LatestPage].job)]
  <2> DEFINE handler == [req[r] EXCEPT !.pc = "insert", !.source = LatestPage,
                                       !.root = Root(pages[LatestPage].job)]
  <2>1. LatestPage \in DOMAIN pages
    BY <1>4, LatestIsLast DEF DailyInv, TypeOK, Builds
  <2>2. pages[LatestPage].job \in DOMAIN jobs
    BY <2>1 DEF DailyInv, Rows, PagesHaveJobs
  <2>3. Root(pages[LatestPage].job) \in DOMAIN jobs /\ Root(pages[LatestPage].job) \in JobIds
    BY <2>2, SourceFields
  <2>4. LatestPage \in Nat
    BY <2>1 DEF DailyInv, TypeOK
  <2>5. Fits(r, req[r]) /\ req \in [Requests -> Handler]
    BY DEF DailyInv, Handlers, HandlersFit, TypeOK
  <2>6. handler \in Handler /\ handler.pc = "insert" /\ handler.answer = "none"
        /\ handler.root = Root(pages[LatestPage].job)
    BY <1>1, <2>3, <2>4, <2>5 DEF Handler, Fits
  <2>7. Fits(r, handler)
    BY <2>3, <2>6 DEF Fits, Accepted
  <2>8. req' = [req EXCEPT ![r] = handler]
    BY <1>4
  <2>9. QED
    BY <2>7, <2>8
<1>5. QED
  BY <1>2, <1>3, <1>4 DEF CheckPage

LEMMA ResolveSourceFits ==
  ASSUME DailyInv, NEW r \in Requests, ResolveSource(r)
  PROVE  \E handler : Fits(r, handler) /\ req' = [req EXCEPT ![r] = handler]
<1> DEFINE j == Ask[r].job
<1>1. req[r].pc # "answered" /\ Ask[r].api = "retry"
  BY DEF ResolveSource, Arrives
<1>2. CASE \/ Refuse(r, "BATCH_JOB_NOT_FOUND") \/ Refuse(r, "BATCH_JOB_NOT_TERMINAL")
           \/ Refuse(r, "AI_RETRY_SOURCE_PAGE_NOT_FOUND")
  BY <1>2, RefusalFits DEF Refusals
<1>3. CASE /\ j \in DOMAIN jobs
           /\ req' = [req EXCEPT ![r].pc = "lookup", ![r].source = SourcePage(j),
                                 ![r].root = Root(j)]
  <2> DEFINE handler == [req[r] EXCEPT !.pc = "lookup", !.source = SourcePage(j),
                                       !.root = Root(j)]
  <2>1. Root(j) \in DOMAIN jobs /\ Root(j) \in JobIds /\ SourcePage(j) \in Nat
    BY <1>3, SourceFields
  <2>2. Fits(r, req[r]) /\ req \in [Requests -> Handler]
    BY DEF DailyInv, Handlers, HandlersFit, TypeOK
  <2>3. handler \in Handler /\ handler.pc = "lookup" /\ handler.answer = "none"
        /\ handler.root = Root(j)
    BY <1>1, <2>1, <2>2 DEF Handler, Fits
  <2>4. Fits(r, handler)
    BY <1>1, <2>1, <2>3 DEF Fits, Accepted
  <2>5. req' = [req EXCEPT ![r] = handler]
    BY <1>3
  <2>6. QED
    BY <2>4, <2>5
<1>4. QED
  BY <1>2, <1>3 DEF ResolveSource

LEMMA LookUpRetryKeyFits ==
  ASSUME DailyInv, NEW r \in Requests, LookUpRetryKey(r)
  PROVE  \E handler : Fits(r, handler) /\ req' = [req EXCEPT ![r] = handler]
<1> DEFINE j == JobWithKey(Ask[r].key)
<1>1. Fits(r, req[r])
  BY DEF DailyInv, Handlers, HandlersFit
<1>2. req[r].pc # "answered" /\ Mode(r) = "AI_RETRY"
  BY <1>1 DEF LookUpRetryKey, Fits, Mode
<1>3. CASE j = None
  BY <1>2, <1>3, ContinueFits DEF LookUpRetryKey
<1>4. CASE j # None
  <2>1. j \in DOMAIN jobs /\ jobs[j].key = Ask[r].key
    BY <1>4, KeyLookUp DEF DailyInv, TypeOK, Rows
  <2>2. \/ jobs[j].mode = "AI_RETRY" /\ Answer(r, "existing", j)
        \/ Refuse(r, "IDEMPOTENCY_KEY_REUSED")
    BY <1>4 DEF LookUpRetryKey, ReuseRetry
  <2>3. CASE jobs[j].mode = "AI_RETRY" /\ Answer(r, "existing", j)
    BY <1>2, <2>1, <2>3, AnswerFits, JobFields DEF Names, Accepted
  <2>4. CASE Refuse(r, "IDEMPOTENCY_KEY_REUSED")
    BY <2>4, RefusalFits DEF Refusals
  <2>5. QED
    BY <2>2, <2>3, <2>4
<1>5. QED
  BY <1>3, <1>4

LEMMA ReadsFit ==
  ASSUME DailyInv, NEW r \in Requests, Reads(r)
  PROVE  /\ req[r].pc # "answered" /\ UNCHANGED <<jobs, queueing>>
         /\ \E handler : Fits(r, handler) /\ req' = [req EXCEPT ![r] = handler]
<1>1. CASE LookUpKey(r)
  BY <1>1, LookUpKeyFits DEF LookUpKey, Arrives
<1>2. CASE CheckActive(r)
  <2>1. req[r].pc # "answered" /\ UNCHANGED <<jobs, queueing>>
        /\ (Continue(r, "source") \/ Refuse(r, "BATCH_ALREADY_RUNNING"))
    BY <1>2 DEF CheckActive
  <2>2. QED
    BY <2>1, ContinueFits, RefusalFits DEF Refusals
<1>3. CASE CheckPage(r)
  BY <1>3, CheckPageFits DEF CheckPage
<1>4. CASE Conflict(r)
  <2>1. req[r].pc # "answered" /\ UNCHANGED <<jobs, queueing>>
    BY <1>4 DEF Conflict
  <2>2. CASE JobWithKey(Ask[r].key) = None
    BY <1>4, <2>1, <2>2, RefusalFits DEF Conflict, Refusals
  <2>3. CASE JobWithKey(Ask[r].key) # None
    BY <1>4, <2>1, <2>3, LookUpKeyFits DEF Conflict
  <2>4. QED
    BY <2>2, <2>3
<1>5. CASE ResolveSource(r)
  BY <1>5, ResolveSourceFits DEF ResolveSource, Arrives
<1>6. CASE LookUpRetryKey(r)
  BY <1>6, LookUpRetryKeyFits DEF LookUpRetryKey
<1>7. QED
  BY <1>1, <1>2, <1>3, <1>4, <1>5, <1>6 DEF Reads

(***************************************************************************)
(* What a step may do to a row and to a handler.                           *)
(***************************************************************************)
LEMMA RowChanges ==
  ASSUME DailyInv, NEW j \in DOMAIN jobs, NEW row \in Job,
         row.mode = jobs[j].mode, row.key = jobs[j].key, row.root = jobs[j].root,
         jobs' = [jobs EXCEPT ![j] = row],
         row.status \in Active =>
           \/ jobs[j].status \in Active
           \/ \A i \in DOMAIN jobs : ~IsActiveDaily(jobs[i])
  PROVE  /\ jobs' \in Seq(Job) /\ DOMAIN jobs' = DOMAIN jobs /\ Len(jobs') = Len(jobs)
         /\ \A i \in DOMAIN jobs : jobs'[i] = IF i = j THEN row ELSE jobs[i]
         /\ KeysAreUnique' /\ DailyIsAlone' /\ JobsHaveRoots'
         /\ \A r \in Requests : \A handler : Fits(r, handler) => Fits(r, handler)'
<1>1. jobs \in Seq(Job) /\ DOMAIN jobs = 1 .. Len(jobs)
  BY DEF DailyInv, TypeOK
<1>2. jobs' \in Seq(Job) /\ Len(jobs') = Len(jobs) /\ DOMAIN jobs' = DOMAIN jobs
      /\ \A i \in DOMAIN jobs : jobs'[i] = IF i = j THEN row ELSE jobs[i]
  BY <1>1, ExceptSeq
<1>3. \A i \in DOMAIN jobs : jobs'[i].mode = jobs[i].mode /\ jobs'[i].key = jobs[i].key
                             /\ jobs'[i].root = jobs[i].root
  BY <1>2
<1>4. KeysAreUnique' /\ JobsHaveRoots'
  BY <1>2, <1>3 DEF DailyInv, Rows, KeysAreUnique, JobsHaveRoots
<1>5. DailyIsAlone'
  <2>1. ASSUME NEW i \in DOMAIN jobs, NEW k \in DOMAIN jobs,
               IsActiveDaily(jobs'[i]), IsActiveDaily(jobs'[k])
        PROVE  i = k
    <3>1. CASE \A m \in DOMAIN jobs : ~IsActiveDaily(jobs[m])
      BY <1>2, <2>1, <3>1
    <3>2. CASE row.status \in Active => jobs[j].status \in Active
      <4>1. IsActiveDaily(jobs[i]) /\ IsActiveDaily(jobs[k])
        BY <1>2, <1>3, <2>1, <3>2 DEF IsActiveDaily
      <4>2. QED
        BY <4>1 DEF DailyInv, Rows, DailyIsAlone
    <3>3. QED
      BY <3>1, <3>2
  <2>2. QED
    BY <1>2, <2>1 DEF DailyIsAlone, IsActiveDaily
<1>6. ASSUME NEW r \in Requests, NEW handler, Fits(r, handler) PROVE Fits(r, handler)'
  BY <1>2, <1>3, <1>6 DEF Fits, Names
<1>7. QED
  BY <1>2, <1>4, <1>5, <1>6

LEMMA StatusChanges ==
  ASSUME DailyInv, NEW j \in DOMAIN jobs, NEW status \in Statuses,
         jobs' = [jobs EXCEPT ![j].status = status],
         status \in Active =>
           \/ jobs[j].status \in Active
           \/ \A i \in DOMAIN jobs : ~IsActiveDaily(jobs[i])
  PROVE  /\ jobs' \in Seq(Job) /\ DOMAIN jobs' = DOMAIN jobs /\ Len(jobs') = Len(jobs)
         /\ \A i \in DOMAIN jobs :
              jobs'[i].status = IF i = j THEN status ELSE jobs[i].status
         /\ KeysAreUnique' /\ DailyIsAlone' /\ JobsHaveRoots'
         /\ \A r \in Requests : \A handler : Fits(r, handler) => Fits(r, handler)'
<1> DEFINE row == [jobs[j] EXCEPT !.status = status]
<1>1. jobs[j] \in Job
  BY JobFields
<1>2. row \in Job /\ row.mode = jobs[j].mode /\ row.key = jobs[j].key
      /\ row.root = jobs[j].root /\ row.status = status
  BY <1>1 DEF Job
<1>3. jobs' = [jobs EXCEPT ![j] = row]
  OBVIOUS
<1> HIDE DEF row
<1>4. QED
  BY <1>2, <1>3, RowChanges

LEMMA HandlerChanges ==
  ASSUME DailyInv, NEW r \in Requests, NEW handler, Fits(r, handler)',
         \A s \in Requests : \A h : Fits(s, h) => Fits(s, h)',
         req[r].pc # "answered", req' = [req EXCEPT ![r] = handler]
  PROVE  /\ HandlersFit' /\ req' \in [Requests -> Handler]
         /\ IsFiniteSet(AnsweredRequests') /\ IsFiniteSet(AnsweredRequests)
         /\ Cardinality(AnsweredRequests) <= Cardinality(AnsweredRequests')
         /\ handler.pc = "answered" =>
              Cardinality(AnsweredRequests') = Cardinality(AnsweredRequests) + 1
<1>1. req \in [Requests -> Handler] /\ \A s \in Requests : Fits(s, req[s])
  BY DEF DailyInv, TypeOK, Handlers, HandlersFit
<1>2. handler \in Handler
  BY DEF Fits, Handler
<1>3. HandlersFit' /\ req' \in [Requests -> Handler]
  BY <1>1, <1>2 DEF HandlersFit
<1>4. \A s \in Requests : req'[s] = IF s = r THEN handler ELSE req[s]
  BY <1>1
<1>5. AnsweredRequests' =
        IF handler.pc = "answered" THEN AnsweredRequests \cup {r} ELSE AnsweredRequests
  BY <1>4 DEF AnsweredRequests
<1>6. IsFiniteSet(AnsweredRequests) /\ r \notin AnsweredRequests
  BY FS_Subset, DailyPagesAssumption DEF AnsweredRequests
<1>7. Cardinality(AnsweredRequests) \in Nat
  BY <1>6, FS_CardinalityType
<1>8. IsFiniteSet(AnsweredRequests \cup {r})
      /\ Cardinality(AnsweredRequests \cup {r}) = Cardinality(AnsweredRequests) + 1
  BY <1>6, FS_AddElement
<1>9. QED
  BY <1>3, <1>5, <1>6, <1>7, <1>8

LEMMA AnsweredAreRequests ==
  DailyInv => AnsweredRequests \subseteq Requests
              /\ Cardinality(AnsweredRequests) <= Cardinality(Requests)
BY FS_Subset, DailyPagesAssumption DEF AnsweredRequests

\* The answers of the handlers name jobs that are there.
LEMMA FitsNames ==
  ASSUME HandlersFit
  PROVE  \A r \in Requests : req[r].answer \in Accepted => req[r].job \in DOMAIN jobs
BY DEF HandlersFit, Fits, Names

LEMMA ReadsStep ==
  ASSUME DailyInv, NEW r \in Requests, Reads(r)
  PROVE  DailyInv'
<1>1. PICK handler : Fits(r, handler) /\ req' = [req EXCEPT ![r] = handler]
  BY ReadsFit
<1>2. req[r].pc # "answered"
  BY ReadsFit
<1>3. UNCHANGED <<jobs, pages, run, lock, collisions, interrupts>>
  BY ReadsFit DEF queueing
<1>4. \A s \in Requests : \A h : Fits(s, h) => Fits(s, h)'
  BY <1>3 DEF Fits, Names
<1>5. Fits(r, handler)'
  BY <1>1, <1>4
<1>6. HandlersFit' /\ req' \in [Requests -> Handler]
      /\ Cardinality(AnsweredRequests) <= Cardinality(AnsweredRequests')
      /\ IsFiniteSet(AnsweredRequests') /\ IsFiniteSet(AnsweredRequests)
  BY <1>1, <1>2, <1>4, <1>5, HandlerChanges
<1>7. JobsWereAnswered'
  <2>1. Len(jobs) <= Cardinality(AnsweredRequests) /\ Len(jobs) \in Nat
    BY DEF DailyInv, Handlers, JobsWereAnswered, TypeOK
  <2>2. Cardinality(AnsweredRequests) \in Nat /\ Cardinality(AnsweredRequests') \in Nat
    BY <1>6, FS_CardinalityType
  <2>3. QED
    BY <1>3, <1>6, <2>1, <2>2 DEF JobsWereAnswered
<1>8. TypeOK'
  BY <1>3, <1>6, FitsNames DEF DailyInv, TypeOK, HandlersFit, Fits, Names
<1>9. Rows' /\ Builds'
  BY <1>3 DEF DailyInv, Rows, KeysAreUnique, DailyIsAlone, IsActiveDaily, JobsHaveRoots,
     PagesHaveJobs, RunsAreRunning, Builds, LockIsHeld, VersionsGrow, VersionIsNext
<1>10. QED
  BY <1>6, <1>7, <1>8, <1>9 DEF DailyInv, Handlers

\* A new row has a key of its own, is the only active daily one and goes back to a
\* job that is there: what the unique indexes and the columns source_job_id keep.
LEMMA InsertedRow ==
  ASSUME DailyInv, NEW r \in Requests, req[r].pc = "insert", ~ViolatesIndex(r),
         Len(jobs) < Cardinality(Requests), jobs' = Append(jobs, NewJob(r)),
         NEW new, new = Len(jobs) + 1
  PROVE  /\ jobs' \in Seq(Job) /\ Len(jobs') = new
         /\ DOMAIN jobs' = DOMAIN jobs \cup {new} /\ new \notin DOMAIN jobs
         /\ \A i \in DOMAIN jobs : jobs'[i] = jobs[i]
         /\ KeysAreUnique' /\ DailyIsAlone' /\ JobsHaveRoots'
         /\ Names(r, new)'
         /\ \A s \in Requests : \A h : Fits(s, h) => Fits(s, h)'
<1>1. jobs \in Seq(Job) /\ DOMAIN jobs = 1 .. Len(jobs) /\ Len(jobs) \in Nat
  BY DEF DailyInv, TypeOK
<1>2. new \in JobIds /\ new \notin DOMAIN jobs /\ 1 .. new = 1 .. Len(jobs) \cup {new}
  BY <1>1, Bounds DEF JobIds
<1>3. req[r] \in Handler /\ (req[r].root # None => req[r].root \in DOMAIN jobs)
  BY DEF DailyInv, TypeOK, Handlers, HandlersFit, Fits
<1>4. /\ NewJob(r) \in Job /\ NewJob(r).mode = Mode(r) /\ NewJob(r).key = Ask[r].key
      /\ NewJob(r).root \in DOMAIN jobs \cup {new} /\ NewJob(r).status = "PENDING"
  <2>1. Mode(r) \in Modes /\ Ask[r].force \in BOOLEAN
    BY DailyPagesAssumption DEF Mode, Modes, Apis
  <2>2. NewJob(r).root \in JobIds /\ NewJob(r).root \in DOMAIN jobs \cup {new}
    BY <1>2, <1>3, JobFields DEF NewJob
  <2>3. QED
    BY <1>3, <2>1, <2>2 DEF NewJob, Job, Handler, Statuses, Active, None
<1>5. /\ jobs' \in Seq(Job) /\ Len(jobs') = new /\ DOMAIN jobs' = DOMAIN jobs \cup {new}
      /\ jobs'[new] = NewJob(r) /\ \A i \in DOMAIN jobs : jobs'[i] = jobs[i]
  BY <1>1, <1>2, <1>4, AppendProperties
<1>6. KeysAreUnique'
  <2>1. Ask[r].key = NoKey \/ \A i \in DOMAIN jobs : jobs[i].key # Ask[r].key
    BY <1>1, KeyLookUp DEF ViolatesIndex, DailyInv, Rows, None
  <2>2. QED
    BY <1>4, <1>5, <2>1 DEF KeysAreUnique, DailyInv, Rows
<1>7. DailyIsAlone'
  <2>1. Mode(r) \in DailyModes => \A i \in DOMAIN jobs : ~IsActiveDaily(jobs[i])
    BY NoActiveDaily DEF ViolatesIndex, DailyInv, TypeOK, Rows
  <2>2. \A i \in DOMAIN jobs : IsActiveDaily(jobs'[i]) = IsActiveDaily(jobs[i])
    BY <1>5
  <2>3. IsActiveDaily(jobs'[new]) => Mode(r) \in DailyModes
    BY <1>4, <1>5 DEF IsActiveDaily
  <2>4. \A i, k \in DOMAIN jobs' : IsActiveDaily(jobs'[i]) /\ IsActiveDaily(jobs'[k]) => i = k
    BY <1>5, <2>1, <2>2, <2>3 DEF DailyIsAlone, DailyInv, Rows
  <2>5. QED
    BY <2>4 DEF DailyIsAlone, IsActiveDaily
<1>8. JobsHaveRoots'
  BY <1>4, <1>5 DEF JobsHaveRoots, DailyInv, Rows
<1>9. ASSUME NEW s \in Requests, NEW h, Fits(s, h) PROVE Fits(s, h)'
  BY <1>5, <1>9 DEF Fits, Names
<1>10. QED
  BY <1>2, <1>4, <1>5, <1>6, <1>7, <1>8, <1>9 DEF Names

\* The parts of the invariant that look from a page or a run to its job.
LEMMA OwnersStay ==
  ASSUME DailyInv, DOMAIN jobs \subseteq DOMAIN jobs', UNCHANGED <<pages, run>>,
         \A i \in DOMAIN jobs : jobs[i].status = "RUNNING" => jobs'[i].status = "RUNNING"
  PROVE  PagesHaveJobs' /\ RunsAreRunning'
BY DEF DailyInv, Rows, PagesHaveJobs, RunsAreRunning, JobIds

LEMMA BuildsStay ==
  ASSUME DailyInv, UNCHANGED <<pages, run, lock, collisions>>
  PROVE  Builds'
BY DEF DailyInv, Builds, LockIsHeld, VersionsGrow, VersionIsNext, JobIds

LEMMA InsertStep ==
  ASSUME DailyInv, NEW r \in Requests, Insert(r)
  PROVE  DailyInv'
<1>1. req[r].pc = "insert" /\ UNCHANGED <<pages, run, lock, collisions, interrupts>>
  BY DEF Insert, queueing
<1>2. Builds'
  BY <1>1, BuildsStay
<1>3. IsFiniteSet(AnsweredRequests) /\ Cardinality(AnsweredRequests) \in Nat
      /\ Len(jobs) \in Nat /\ Len(jobs) <= Cardinality(AnsweredRequests)
  BY FS_Subset, FS_CardinalityType, DailyPagesAssumption
  DEF AnsweredRequests, DailyInv, Handlers, JobsWereAnswered, TypeOK
<1>4. CASE ~ViolatesIndex(r) /\ jobs' = Append(jobs, NewJob(r))
           /\ Answer(r, "created", Len(jobs) + 1)
  <2>1. Len(jobs) < Cardinality(Requests)
    <3>1. AnsweredRequests # Requests /\ AnsweredRequests \in SUBSET Requests
      BY <1>1 DEF AnsweredRequests
    <3>2. Cardinality(AnsweredRequests) # Cardinality(Requests)
          /\ Cardinality(AnsweredRequests) <= Cardinality(Requests)
      BY <3>1, FS_Subset, DailyPagesAssumption
    <3>3. QED
      BY <1>3, <3>2, Bounds
  <2>2. PICK new : new = Len(jobs) + 1
    OBVIOUS
  <2>3. /\ jobs' \in Seq(Job) /\ Len(jobs') = new
        /\ DOMAIN jobs' = DOMAIN jobs \cup {new}
        /\ \A i \in DOMAIN jobs : jobs'[i] = jobs[i]
        /\ KeysAreUnique' /\ DailyIsAlone' /\ JobsHaveRoots'
        /\ Names(r, new)'
        /\ \A s \in Requests : \A h : Fits(s, h) => Fits(s, h)'
    BY <1>1, <1>4, <2>1, <2>2, InsertedRow
  <2> DEFINE handler == [pc |-> "answered", job |-> new, source |-> None,
                         root |-> None, answer |-> "created"]
  <2>4. handler \in Handler
    BY <1>3, <2>1, <2>2, Bounds DEF Handler, Accepted, JobIds
  <2>5. Fits(r, handler)' /\ req' = [req EXCEPT ![r] = handler] /\ handler.pc = "answered"
    BY <1>4, <2>2, <2>3, <2>4 DEF Fits, Answer
  <2> HIDE DEF handler
  <2>6. /\ HandlersFit' /\ req' \in [Requests -> Handler]
        /\ Cardinality(AnsweredRequests') = Cardinality(AnsweredRequests) + 1
    BY <1>1, <2>3, <2>5, HandlerChanges
  <2>7. JobsWereAnswered'
    BY <1>3, <2>2, <2>3, <2>6 DEF JobsWereAnswered
  <2>8. PagesHaveJobs' /\ RunsAreRunning'
    BY <1>1, <2>3, OwnersStay
  <2>9. Len(jobs') <= Cardinality(Requests)
    BY <1>3, <2>1, <2>2, <2>3, Bounds
  <2>10. TypeOK'
    BY <1>1, <2>3, <2>6, <2>9 DEF DailyInv, TypeOK, HandlersFit, Fits, Names
  <2>11. QED
    BY <1>2, <2>3, <2>6, <2>7, <2>8, <2>10 DEF DailyInv, Rows, Handlers
<1>5. CASE Continue(r, "conflict") /\ UNCHANGED jobs
  <2>1. PICK handler : Fits(r, handler) /\ req' = [req EXCEPT ![r] = handler]
    BY <1>1, <1>5, ContinueFits
  <2>2. \A s \in Requests : \A h : Fits(s, h) => Fits(s, h)'
    BY <1>5 DEF Fits, Names
  <2>3. /\ HandlersFit' /\ req' \in [Requests -> Handler] /\ IsFiniteSet(AnsweredRequests')
        /\ Cardinality(AnsweredRequests) <= Cardinality(AnsweredRequests')
    BY <1>1, <2>1, <2>2, HandlerChanges
  <2>4. JobsWereAnswered'
    BY <1>3, <1>5, <2>3, FS_CardinalityType DEF JobsWereAnswered
  <2>5. TypeOK'
    BY <1>1, <1>5, <2>3 DEF DailyInv, TypeOK, HandlersFit, Fits, Names
  <2>6. Rows'
    BY <1>1, <1>5 DEF DailyInv, Rows, KeysAreUnique, DailyIsAlone, IsActiveDaily,
       JobsHaveRoots, PagesHaveJobs, RunsAreRunning
  <2>7. QED
    BY <1>2, <2>3, <2>4, <2>5, <2>6 DEF DailyInv, Handlers
<1>6. QED
  BY <1>4, <1>5 DEF Insert

\* What holds when a handler has read or changed rows without adding any.
LEMMA HandlerStep ==
  ASSUME DailyInv, NEW r \in Requests, NEW handler, Fits(r, handler),
         req[r].pc # "answered", req' = [req EXCEPT ![r] = handler],
         UNCHANGED <<pages, run, lock, collisions, interrupts>>,
         jobs' \in Seq(Job), DOMAIN jobs' = DOMAIN jobs, Len(jobs') = Len(jobs),
         KeysAreUnique', DailyIsAlone', JobsHaveRoots',
         \A s \in Requests : \A h : Fits(s, h) => Fits(s, h)',
         \A i \in DOMAIN jobs : jobs[i].status = "RUNNING" => jobs'[i].status = "RUNNING"
  PROVE  DailyInv'
<1>1. /\ HandlersFit' /\ req' \in [Requests -> Handler]
      /\ IsFiniteSet(AnsweredRequests') /\ IsFiniteSet(AnsweredRequests)
      /\ Cardinality(AnsweredRequests) <= Cardinality(AnsweredRequests')
  BY HandlerChanges
<1>2. JobsWereAnswered'
  <2>1. Len(jobs) <= Cardinality(AnsweredRequests) /\ Len(jobs) \in Nat
    BY DEF DailyInv, Handlers, JobsWereAnswered, TypeOK
  <2>2. QED
    BY <1>1, <2>1, FS_CardinalityType DEF JobsWereAnswered
<1>3. TypeOK'
  BY <1>1 DEF DailyInv, TypeOK, HandlersFit, Fits, Names
<1>4. PagesHaveJobs' /\ RunsAreRunning' /\ Builds'
  BY OwnersStay, BuildsStay
<1>5. QED
  BY <1>1, <1>2, <1>3, <1>4 DEF DailyInv, Rows, Handlers

\* A failed job is pending again only when no market-daily job is active.
LEMMA RequeueStep ==
  ASSUME DailyInv, NEW r \in Requests, Requeue(r)
  PROVE  DailyInv'
<1> PICK j : j = req[r].job
  OBVIOUS
<1>1. req[r].pc = "reuse" /\ UNCHANGED <<pages, run, lock, collisions, interrupts>>
  BY DEF Requeue, queueing
<1>2. j \in DOMAIN jobs /\ Names(r, j) /\ j \in JobIds
  BY <1>1, JobFields DEF DailyInv, Handlers, HandlersFit, Fits, Names
<1>3. CASE Answer(r, "existing", j) /\ UNCHANGED jobs
  <2>1. PICK handler : Fits(r, handler) /\ req' = [req EXCEPT ![r] = handler]
    BY <1>2, <1>3, AnswerFits DEF Accepted
  <2>2. \A s \in Requests : \A h : Fits(s, h) => Fits(s, h)'
    BY <1>3 DEF Fits, Names
  <2>3. KeysAreUnique' /\ DailyIsAlone' /\ JobsHaveRoots' /\ jobs' \in Seq(Job)
    BY <1>3 DEF DailyInv, Rows, KeysAreUnique, DailyIsAlone, IsActiveDaily, JobsHaveRoots, TypeOK
  <2>4. QED
    BY <1>1, <1>3, <2>1, <2>2, <2>3, HandlerStep
<1>4. CASE Refuse(r, "BATCH_ALREADY_RUNNING") /\ UNCHANGED jobs
  <2>1. PICK handler : Fits(r, handler) /\ req' = [req EXCEPT ![r] = handler]
    BY <1>4, RefusalFits DEF Refusals
  <2>2. \A s \in Requests : \A h : Fits(s, h) => Fits(s, h)'
    BY <1>4 DEF Fits, Names
  <2>3. KeysAreUnique' /\ DailyIsAlone' /\ JobsHaveRoots' /\ jobs' \in Seq(Job)
    BY <1>4 DEF DailyInv, Rows, KeysAreUnique, DailyIsAlone, IsActiveDaily, JobsHaveRoots, TypeOK
  <2>4. QED
    BY <1>1, <1>4, <2>1, <2>2, <2>3, HandlerStep
<1>5. CASE /\ jobs[j].status = "FAILED" /\ ActiveDaily = None
           /\ Answer(r, "created", j) /\ jobs' = [jobs EXCEPT ![j].status = "PENDING"]
  <2>1. PICK handler : Fits(r, handler) /\ req' = [req EXCEPT ![r] = handler]
    BY <1>2, <1>5, AnswerFits DEF Accepted
  <2>2. \A i \in DOMAIN jobs : ~IsActiveDaily(jobs[i])
    BY <1>5, NoActiveDaily DEF DailyInv, TypeOK, Rows
  <2>3. /\ jobs' \in Seq(Job) /\ DOMAIN jobs' = DOMAIN jobs /\ Len(jobs') = Len(jobs)
        /\ \A i \in DOMAIN jobs : jobs'[i].status = IF i = j THEN "PENDING" ELSE jobs[i].status
        /\ KeysAreUnique' /\ DailyIsAlone' /\ JobsHaveRoots'
        /\ \A s \in Requests : \A h : Fits(s, h) => Fits(s, h)'
    BY <1>2, <1>5, <2>2, StatusChanges DEF Statuses, Active
  <2>4. \A i \in DOMAIN jobs : jobs[i].status = "RUNNING" => jobs'[i].status = "RUNNING"
    BY <1>5, <2>3
  <2>5. QED
    BY <1>1, <2>1, <2>3, <2>4, HandlerStep
<1>6. QED
  BY <1>3, <1>4, <1>5 DEF Requeue

LEMMA HandleStep ==
  ASSUME DailyInv, NEW r \in Requests, Handle(r)
  PROVE  DailyInv'
BY ReadsStep, InsertStep, RequeueStep DEF Handle, Reads
-----------------------------------------------------------------------------
(***************************************************************************)
(* The jobs.                                                               *)
(***************************************************************************)
\* What holds when a run has moved and its row, at most, has changed its status
\* and its page.
LEMMA WorkStep ==
  ASSUME DailyInv, UNCHANGED req, interrupts' \in 0 .. MaxInterrupts,
         jobs' \in Seq(Job), DOMAIN jobs' = DOMAIN jobs, Len(jobs') = Len(jobs),
         KeysAreUnique', DailyIsAlone', JobsHaveRoots',
         \A s \in Requests : \A h : Fits(s, h) => Fits(s, h)',
         PagesHaveJobs', pages' \in Seq(Page),
         RunsAreRunning', run' \in [JobIds -> Run],
         lock' \in JobIds \cup {None}, Builds'
  PROVE  DailyInv'
<1>1. HandlersFit'
  BY DEF DailyInv, Handlers, HandlersFit
<1>2. AnsweredRequests' = AnsweredRequests
  BY DEF AnsweredRequests
<1>3. JobsWereAnswered'
  BY <1>2 DEF DailyInv, Handlers, JobsWereAnswered
<1>4. TypeOK'
  BY <1>1 DEF DailyInv, TypeOK, Builds, HandlersFit, Fits, Names
<1>5. QED
  BY <1>1, <1>3, <1>4 DEF DailyInv, Rows, Handlers

\* The rows of the jobs are as they were.
LEMMA SameRows ==
  ASSUME DailyInv, UNCHANGED jobs
  PROVE  /\ jobs' \in Seq(Job) /\ DOMAIN jobs' = DOMAIN jobs /\ Len(jobs') = Len(jobs)
         /\ KeysAreUnique' /\ DailyIsAlone' /\ JobsHaveRoots'
         /\ \A s \in Requests : \A h : Fits(s, h) => Fits(s, h)'
BY DEF DailyInv, Rows, KeysAreUnique, DailyIsAlone, IsActiveDaily, JobsHaveRoots, TypeOK,
   Fits, Names

LEMMA RunFields ==
  ASSUME DailyInv, NEW j \in JobIds
  PROVE  /\ run[j] \in Run /\ run[j].version \in Nat /\ run[j].page \in Nat
         /\ run[j].pc # "idle" => j \in DOMAIN jobs /\ jobs[j].status = "RUNNING"
         /\ run[j].pc \in {"locked", "versioned"} => lock = j
BY DEF DailyInv, TypeOK, Rows, RunsAreRunning, Builds, LockIsHeld, Run

\* A run that is not in the locked part of the build may be anywhere else.
LEMMA LeaveBuild ==
  ASSUME DailyInv, NEW j \in JobIds, NEW new \in Run, new.pc \notin {"locked", "versioned"},
         run' = [run EXCEPT ![j] = new], UNCHANGED <<pages, collisions>>,
         UNCHANGED lock \/ Unlock(j)
  PROVE  Builds' /\ run' \in [JobIds -> Run] /\ lock' \in JobIds \cup {None}
<1>1. run \in [JobIds -> Run] /\ lock \in JobIds \cup {None}
  BY DEF DailyInv, TypeOK
<1>2. \A i \in JobIds : run'[i] = IF i = j THEN new ELSE run[i]
  BY <1>1
<1>3. LockIsHeld' /\ lock' \in JobIds \cup {None}
  BY <1>1, <1>2 DEF LockIsHeld, Unlock, DailyInv, Builds, JobIds
<1>4. VersionIsNext' /\ VersionsGrow'
  BY <1>2 DEF VersionIsNext, VersionsGrow, DailyInv, Builds, JobIds
<1>5. QED
  BY <1>1, <1>3, <1>4 DEF Builds, DailyInv

\* The row of a run that ends, or is resumed, keeps its pages and the other runs.
LEMMA OwnersOfRun ==
  ASSUME DailyInv, NEW j \in JobIds, NEW new \in Run, run' = [run EXCEPT ![j] = new],
         UNCHANGED pages, DOMAIN jobs' = DOMAIN jobs,
         \A i \in DOMAIN jobs : i # j => jobs'[i].status = jobs[i].status,
         new.pc # "idle" => j \in DOMAIN jobs /\ jobs'[j].status = "RUNNING"
  PROVE  PagesHaveJobs' /\ RunsAreRunning'
<1>1. \A i \in JobIds : run'[i] = IF i = j THEN new ELSE run[i]
  BY DEF DailyInv, TypeOK
<1>2. RunsAreRunning'
  BY <1>1 DEF DailyInv, Rows, RunsAreRunning, JobIds
<1>3. PagesHaveJobs'
  BY DEF DailyInv, Rows, PagesHaveJobs
<1>4. QED
  BY <1>2, <1>3

\* A run that only moves: its row gets the status that goes with its new place.
LEMMA MoveStep ==
  ASSUME DailyInv, NEW j \in DOMAIN jobs, NEW new \in Run, NEW status \in Statuses,
         new.pc \notin {"locked", "versioned"},
         new.pc # "idle" => status = "RUNNING",
         status \in Active => jobs[j].status \in Active,
         jobs' = [jobs EXCEPT ![j].status = status], run' = [run EXCEPT ![j] = new],
         UNCHANGED lock \/ Unlock(j), UNCHANGED <<pages, req, collisions>>,
         interrupts' \in 0 .. MaxInterrupts
  PROVE  DailyInv'
<1>1. j \in JobIds
  BY JobFields
<1>2. /\ jobs' \in Seq(Job) /\ DOMAIN jobs' = DOMAIN jobs /\ Len(jobs') = Len(jobs)
      /\ \A i \in DOMAIN jobs : jobs'[i].status = IF i = j THEN status ELSE jobs[i].status
      /\ KeysAreUnique' /\ DailyIsAlone' /\ JobsHaveRoots'
      /\ \A s \in Requests : \A h : Fits(s, h) => Fits(s, h)'
  BY StatusChanges
<1>3. PagesHaveJobs' /\ RunsAreRunning'
  BY <1>1, <1>2, OwnersOfRun
<1>4. Builds' /\ run' \in [JobIds -> Run] /\ lock' \in JobIds \cup {None}
  BY <1>1, LeaveBuild
<1>5. pages' \in Seq(Page)
  BY DEF DailyInv, TypeOK
<1>6. QED
  BY <1>2, <1>3, <1>4, <1>5, WorkStep

LEMMA StartStep ==
  ASSUME DailyInv, NEW j \in JobIds, Start(j)
  PROVE  DailyInv'
<1> DEFINE place == IF run[j].page = None THEN "running"
                    ELSE IF jobs[j].mode = "AI_RETRY" THEN "resumed" ELSE "built"
<1>1. PICK new : new = [run[j] EXCEPT !.pc = place]
  OBVIOUS
<1>2. new \in Run /\ new.pc \in {"running", "resumed", "built"}
  BY <1>1, RunFields DEF Run
<1>3. run' = [run EXCEPT ![j] = new]
  BY <1>1 DEF Start, RunAt
<1>4. j \in DOMAIN jobs /\ jobs[j].status \in Active
      /\ jobs' = [jobs EXCEPT ![j].status = "RUNNING"] /\ "RUNNING" \in Statuses
      /\ UNCHANGED <<pages, req, lock, collisions, interrupts>>
  BY DEF Start, SetStatus, Statuses, Active
<1>5. interrupts' \in 0 .. MaxInterrupts
  BY <1>4 DEF DailyInv, TypeOK
<1>6. QED
  BY <1>2, <1>3, <1>4, <1>5, MoveStep

LEMMA ReselectStep ==
  ASSUME DailyInv, NEW j \in JobIds, Reselect(j)
  PROVE  DailyInv'
<1>1. PICK new : new = [run[j] EXCEPT !.pc = "selected"]
  OBVIOUS
<1>2. new \in Run /\ new.pc = "selected"
  BY <1>1, RunFields DEF Run
<1>3. /\ run' = [run EXCEPT ![j] = new]
      /\ UNCHANGED <<jobs, pages, req, lock, collisions, interrupts>>
  BY <1>1 DEF Reselect, RunAt
<1>4. j \in DOMAIN jobs /\ jobs[j].status = "RUNNING" /\ "RUNNING" \in Statuses \cap Active
  BY RunFields DEF Reselect, Statuses, Active
<1>5. jobs' = [jobs EXCEPT ![j].status = "RUNNING"]
  <2>1. jobs \in Seq(Job) /\ jobs[j] \in Job
    BY <1>4, JobFields DEF DailyInv, TypeOK
  <2>2. [jobs[j] EXCEPT !.status = "RUNNING"] = jobs[j]
    BY <1>4, <2>1 DEF Job
  <2>3. QED
    BY <1>3, <2>1, <2>2
<1>6. interrupts' \in 0 .. MaxInterrupts
  BY <1>3 DEF DailyInv, TypeOK
<1>7. QED
  BY <1>2, <1>3, <1>4, <1>5, <1>6, MoveStep

LEMMA FinishWithoutPageStep ==
  ASSUME DailyInv, NEW j \in JobIds, FinishWithoutPage(j)
  PROVE  DailyInv'
<1>1. PICK new : new = [run[j] EXCEPT !.pc = "idle"]
  OBVIOUS
<1>2. new \in Run /\ new.pc = "idle"
  BY <1>1, RunFields DEF Run
<1>3. PICK status : status = IF jobs[j].mode = "FULL" THEN "FAILED" ELSE "COMPLETED"
  OBVIOUS
<1>4. status \in Statuses /\ status \notin Active
  BY <1>3 DEF Statuses, Active, Terminal
<1>5. j \in DOMAIN jobs
  BY RunFields DEF FinishWithoutPage
<1>6. /\ run' = [run EXCEPT ![j] = new] /\ jobs' = [jobs EXCEPT ![j].status = status]
      /\ UNCHANGED <<pages, req, lock, collisions, interrupts>>
  BY <1>1, <1>3 DEF FinishWithoutPage, RunAt, SetStatus
<1>7. interrupts' \in 0 .. MaxInterrupts
  BY <1>6 DEF DailyInv, TypeOK
<1>8. QED
  BY <1>2, <1>4, <1>5, <1>6, <1>7, MoveStep

LEMMA InterruptStep ==
  ASSUME DailyInv, NEW j \in JobIds, Interrupt(j)
  PROVE  DailyInv'
<1>1. PICK new : new = [run[j] EXCEPT !.pc = "idle", !.version = 0,
                          !.page = IF run[j].pc = "selected" THEN None ELSE run[j].page]
  OBVIOUS
<1>2. new \in Run /\ new.pc = "idle"
  BY <1>1, RunFields DEF Run, None
<1>3. PICK status \in {"PENDING", "FAILED"} : SetStatus(j, status)
  BY DEF Interrupt
<1>4. j \in DOMAIN jobs /\ jobs[j].status \in Active /\ status \in Statuses
  BY RunFields DEF Interrupt, Statuses, Active, Terminal
<1>5. /\ run' = [run EXCEPT ![j] = new] /\ jobs' = [jobs EXCEPT ![j].status = status]
      /\ Unlock(j) /\ UNCHANGED <<pages, req, collisions>>
  BY <1>1, <1>3 DEF Interrupt, SetStatus
<1>6. interrupts' \in 0 .. MaxInterrupts
  BY DailyPagesAssumption DEF Interrupt, DailyInv, TypeOK
<1>7. QED
  BY <1>2, <1>4, <1>5, <1>6, MoveStep

LEMMA FinishStep ==
  ASSUME DailyInv, NEW j \in JobIds, Finish(j)
  PROVE  DailyInv'
<1>1. PICK new : new = [run[j] EXCEPT !.pc = "idle"]
  OBVIOUS
<1>2. new \in Run /\ new.pc = "idle"
  BY <1>1, RunFields DEF Run
<1>3. j \in DOMAIN jobs
  BY RunFields DEF Finish
<1>4. PICK row : row = [jobs[j] EXCEPT !.status = "COMPLETED", !.page = run[j].page]
  OBVIOUS
<1>5. /\ row \in Job /\ row.mode = jobs[j].mode /\ row.key = jobs[j].key
      /\ row.root = jobs[j].root /\ row.status \notin Active
  <2>1. jobs[j] \in Job /\ run[j].page \in Nat
    BY <1>3, JobFields, RunFields
  <2>2. QED
    BY <1>4, <2>1 DEF Job, Statuses, Terminal, Active
<1>6. /\ run' = [run EXCEPT ![j] = new] /\ jobs' = [jobs EXCEPT ![j] = row]
      /\ UNCHANGED <<pages, req, lock, collisions, interrupts>>
  BY <1>1, <1>4 DEF Finish, RunAt
<1>7. /\ jobs' \in Seq(Job) /\ DOMAIN jobs' = DOMAIN jobs /\ Len(jobs') = Len(jobs)
      /\ \A i \in DOMAIN jobs : jobs'[i] = IF i = j THEN row ELSE jobs[i]
      /\ KeysAreUnique' /\ DailyIsAlone' /\ JobsHaveRoots'
      /\ \A s \in Requests : \A h : Fits(s, h) => Fits(s, h)'
  BY <1>3, <1>5, <1>6, RowChanges
<1>8. PagesHaveJobs' /\ RunsAreRunning'
  BY <1>2, <1>6, <1>7, OwnersOfRun
<1>9. Builds' /\ run' \in [JobIds -> Run] /\ lock' \in JobIds \cup {None}
  BY <1>2, <1>6, LeaveBuild
<1>10. pages' \in Seq(Page) /\ interrupts' \in 0 .. MaxInterrupts
  BY <1>6 DEF DailyInv, TypeOK
<1>11. QED
  BY <1>6, <1>7, <1>8, <1>9, <1>10, WorkStep

\* Nobody builds while the lock is free.
LEMMA EnterBuildStep ==
  ASSUME DailyInv, NEW j \in JobIds, EnterBuild(j)
  PROVE  DailyInv'
<1>1. PICK new : new = [run[j] EXCEPT !.pc = "locked"]
  OBVIOUS
<1>2. new \in Run /\ new.pc = "locked"
  BY <1>1, RunFields DEF Run
<1>3. /\ run' = [run EXCEPT ![j] = new] /\ run[j].pc = "running" /\ lock = None /\ lock' = j
      /\ UNCHANGED <<jobs, pages, req, collisions, interrupts>>
  BY <1>1 DEF EnterBuild, RunAt, LockVersions
<1>4. run \in [JobIds -> Run] /\ \A i \in JobIds : run'[i] = IF i = j THEN new ELSE run[i]
  BY <1>3 DEF DailyInv, TypeOK
<1>5. \A i \in JobIds : run[i].pc \notin {"locked", "versioned"}
  BY <1>3, Bounds DEF DailyInv, Builds, LockIsHeld
<1>6. LockIsHeld' /\ VersionIsNext' /\ VersionsGrow' /\ collisions' = 0
  BY <1>2, <1>3, <1>4, <1>5
  DEF LockIsHeld, VersionIsNext, VersionsGrow, DailyInv, Builds, JobIds
<1>7. j \in DOMAIN jobs /\ jobs[j].status = "RUNNING"
  BY <1>3, RunFields
<1>8. /\ jobs' \in Seq(Job) /\ DOMAIN jobs' = DOMAIN jobs /\ Len(jobs') = Len(jobs)
      /\ KeysAreUnique' /\ DailyIsAlone' /\ JobsHaveRoots'
      /\ \A s \in Requests : \A h : Fits(s, h) => Fits(s, h)'
  BY <1>3, SameRows
<1>9. PagesHaveJobs' /\ RunsAreRunning'
  BY <1>2, <1>3, <1>7, <1>8, OwnersOfRun
<1>10. /\ pages' \in Seq(Page) /\ interrupts' \in 0 .. MaxInterrupts
       /\ run' \in [JobIds -> Run] /\ lock' \in JobIds \cup {None}
  BY <1>2, <1>3, <1>4 DEF DailyInv, TypeOK
<1>11. QED
  BY <1>3, <1>6, <1>8, <1>9, <1>10, WorkStep DEF Builds

\* The version that is read is above every page's.
LEMMA NextVersion ==
  ASSUME DailyInv, NEW version, version = IF Versions = {} THEN 1 ELSE Max(Versions) + 1
  PROVE  /\ version \in Nat \ {0}
         /\ \A p \in DOMAIN pages : pages[p].version < version
<1>1. pages \in Seq(Page) /\ DOMAIN pages = 1 .. Len(pages) /\ Len(pages) \in Nat
  BY DEF DailyInv, TypeOK
<1>2. \A p \in DOMAIN pages : pages[p].version \in Nat \ {0}
  <2>1. \A p \in DOMAIN pages : pages[p] \in Page
    BY <1>1, ElementOfSeq
  <2>2. QED
    BY <2>1 DEF Page
<1>3. CASE pages = <<>>
  BY <1>1, <1>3 DEF Versions
<1>4. CASE pages # <<>>
  <2> DEFINE last == pages[Len(pages)].version
  <2>1. Len(pages) \in DOMAIN pages
    BY <1>1, <1>4
  <2>2. last \in Versions /\ last \in Nat
    BY <1>2, <2>1 DEF Versions
  <2>3. \A p \in DOMAIN pages : pages[p].version <= last
    <3>1. ASSUME NEW p \in DOMAIN pages PROVE pages[p].version <= last
      <4>1. p < Len(pages) \/ p = Len(pages)
        BY <1>1
      <4>2. QED
        BY <1>2, <2>1, <2>2, <4>1 DEF VersionsGrow, DailyInv, Builds
    <3>2. QED
      BY <3>1
  <2>4. \A v \in Versions : last >= v /\ v \in Nat
    BY <1>2, <2>2, <2>3 DEF Versions
  <2>5. Max(Versions) \in Versions /\ \A v \in Versions : Max(Versions) >= v
    BY <2>2, <2>4 DEF Max
  <2>6. Max(Versions) \in Nat
    BY <2>4, <2>5
  <2>7. version = Max(Versions) + 1
    BY <2>2
  <2>8. \A p \in DOMAIN pages : pages[p].version \in Versions
    BY DEF Versions
  <2>9. QED
    BY <1>2, <2>5, <2>6, <2>7, <2>8
<1>5. QED
  BY <1>3, <1>4

LEMMA ReadVersionStep ==
  ASSUME DailyInv, NEW j \in JobIds, ReadVersion(j)
  PROVE  DailyInv'
<1>1. PICK version : version = IF Versions = {} THEN 1 ELSE Max(Versions) + 1
  OBVIOUS
<1>2. version \in Nat \ {0} /\ \A p \in DOMAIN pages : pages[p].version < version
  BY <1>1, NextVersion
<1>3. PICK new : new = [run[j] EXCEPT !.pc = "versioned", !.version = version]
  OBVIOUS
<1>4. new \in Run /\ new.pc = "versioned" /\ new.version = version
  BY <1>2, <1>3, RunFields DEF Run
<1>5. /\ run' = [run EXCEPT ![j] = new] /\ run[j].pc = "locked"
      /\ UNCHANGED <<jobs, pages, req, lock, collisions, interrupts>>
  BY <1>1, <1>3 DEF ReadVersion
<1>6. run \in [JobIds -> Run] /\ \A i \in JobIds : run'[i] = IF i = j THEN new ELSE run[i]
  BY <1>5 DEF DailyInv, TypeOK
<1>7. LockIsHeld' /\ VersionsGrow' /\ collisions' = 0
  BY <1>5, <1>6, RunFields DEF LockIsHeld, VersionsGrow, DailyInv, Builds, JobIds
<1>8. VersionIsNext'
  BY <1>2, <1>4, <1>5, <1>6 DEF VersionIsNext, DailyInv, Builds, JobIds
<1>9. j \in DOMAIN jobs /\ jobs[j].status = "RUNNING"
  BY <1>5, RunFields
<1>10. /\ jobs' \in Seq(Job) /\ DOMAIN jobs' = DOMAIN jobs /\ Len(jobs') = Len(jobs)
       /\ KeysAreUnique' /\ DailyIsAlone' /\ JobsHaveRoots'
       /\ \A s \in Requests : \A h : Fits(s, h) => Fits(s, h)'
  BY <1>5, SameRows
<1>11. PagesHaveJobs' /\ RunsAreRunning'
  BY <1>4, <1>5, <1>9, <1>10, OwnersOfRun
<1>12. /\ pages' \in Seq(Page) /\ interrupts' \in 0 .. MaxInterrupts
       /\ run' \in [JobIds -> Run] /\ lock' \in JobIds \cup {None}
  BY <1>4, <1>5, <1>6 DEF DailyInv, TypeOK
<1>13. QED
  BY <1>5, <1>7, <1>8, <1>10, <1>11, <1>12, WorkStep DEF Builds

\* The page goes in: nobody else has been able to read a version meanwhile.
LEMMA PublishStep ==
  ASSUME DailyInv, NEW j \in JobIds, Publish(j)
  PROVE  DailyInv'
<1>1. pages \in Seq(Page) /\ DOMAIN pages = 1 .. Len(pages) /\ Len(pages) \in Nat
  BY DEF DailyInv, TypeOK
<1>2. run[j].pc = "versioned" /\ lock = j /\ j \in DOMAIN jobs /\ jobs[j].status = "RUNNING"
      /\ run[j].version \in Nat \ {0}
      /\ \A p \in DOMAIN pages : pages[p].version < run[j].version
  BY RunFields DEF Publish, DailyInv, Builds, VersionIsNext
<1>3. \A p \in DOMAIN pages : pages[p] \in Page /\ pages[p].version \in Nat
  <2>1. \A p \in DOMAIN pages : pages[p] \in Page
    BY <1>1, ElementOfSeq
  <2>2. QED
    BY <2>1 DEF Page
<1>4. Insertable(j)
  BY <1>2, <1>3 DEF Insertable, Versions
<1>5. PICK page : page = [version |-> run[j].version, job |-> j]
  OBVIOUS
<1>6. page \in Page /\ page.version = run[j].version /\ page.job = j
  BY <1>2, <1>5 DEF Page
<1>7. PICK last : last = Len(pages) + 1
  OBVIOUS
<1>8. PICK new : new = [pc |-> "built", version |-> 0, page |-> last]
  OBVIOUS
<1>9. new \in Run /\ new.pc = "built"
  BY <1>1, <1>7, <1>8 DEF Run
<1>10. /\ pages' = Append(pages, page) /\ run' = [run EXCEPT ![j] = new] /\ lock' = None
       /\ UNCHANGED <<jobs, req, collisions, interrupts>>
  BY <1>2, <1>4, <1>5, <1>7, <1>8 DEF Publish, Unlock
<1>11. /\ pages' \in Seq(Page) /\ DOMAIN pages' = DOMAIN pages \cup {last}
       /\ last \notin DOMAIN pages /\ pages'[last] = page
       /\ \A p \in DOMAIN pages : pages'[p] = pages[p] /\ p < last
  <2>1. pages' \in Seq(Page) /\ Len(pages') = last /\ pages'[last] = page
        /\ \A p \in 1 .. Len(pages) : pages'[p] = pages[p]
    BY <1>1, <1>6, <1>7, <1>10, AppendProperties
  <2>2. DOMAIN pages' = 1 .. last
    BY <2>1
  <2>3. QED
    BY <1>1, <1>7, <2>1, <2>2
<1>12. run \in [JobIds -> Run] /\ \A i \in JobIds : run'[i] = IF i = j THEN new ELSE run[i]
  BY <1>10 DEF DailyInv, TypeOK
<1>13. \A i \in JobIds : run'[i].pc \notin {"locked", "versioned"}
  BY <1>2, <1>9, <1>12 DEF DailyInv, Builds, LockIsHeld
<1>14. LockIsHeld' /\ VersionIsNext'
  BY <1>13 DEF LockIsHeld, VersionIsNext, JobIds
<1>15. VersionsGrow'
  <2>1. ASSUME NEW p \in DOMAIN pages', NEW q \in DOMAIN pages', p < q
        PROVE  pages'[p].version < pages'[q].version
    <3>1. p \in DOMAIN pages
      BY <1>1, <1>7, <1>11, <2>1
    <3>2. CASE q \in DOMAIN pages
      BY <1>11, <2>1, <3>1, <3>2 DEF VersionsGrow, DailyInv, Builds
    <3>3. CASE q = last
      BY <1>2, <1>6, <1>11, <3>1, <3>3
    <3>4. QED
      BY <1>11, <3>2, <3>3
  <2>2. QED
    BY <2>1 DEF VersionsGrow
<1>16. Builds'
  BY <1>10, <1>14, <1>15 DEF Builds, DailyInv
<1>17. PagesHaveJobs'
  BY <1>2, <1>6, <1>10, <1>11 DEF PagesHaveJobs, DailyInv, Rows
<1>18. RunsAreRunning'
  BY <1>2, <1>10, <1>12 DEF RunsAreRunning, DailyInv, Rows, JobIds
<1>19. /\ jobs' \in Seq(Job) /\ DOMAIN jobs' = DOMAIN jobs /\ Len(jobs') = Len(jobs)
       /\ KeysAreUnique' /\ DailyIsAlone' /\ JobsHaveRoots'
       /\ \A s \in Requests : \A h : Fits(s, h) => Fits(s, h)'
  BY <1>10, SameRows
<1>20. /\ interrupts' \in 0 .. MaxInterrupts
       /\ run' \in [JobIds -> Run] /\ lock' \in JobIds \cup {None}
  BY <1>9, <1>10, <1>12 DEF DailyInv, TypeOK
<1>21. QED
  BY <1>10, <1>11, <1>16, <1>17, <1>18, <1>19, <1>20, WorkStep

LEMMA DailyStep == DailyInv /\ [Next]_vars => DailyInv'
<1> SUFFICES ASSUME DailyInv, [Next]_vars PROVE DailyInv'
  OBVIOUS
<1>1. ASSUME NEW r \in Requests, Handle(r) PROVE DailyInv'
  BY <1>1, HandleStep
<1>2. ASSUME NEW j \in JobIds, Work(j) PROVE DailyInv'
  BY <1>2, StartStep, ReselectStep, EnterBuildStep, ReadVersionStep, PublishStep, FinishStep,
     FinishWithoutPageStep DEF Work
<1>3. ASSUME NEW j \in JobIds, Interrupt(j) PROVE DailyInv'
  BY <1>3, InterruptStep
<1>4. CASE UNCHANGED vars
  <2>1. UNCHANGED <<jobs, pages, req, run, lock, collisions, interrupts>>
    BY <1>4 DEF vars
  <2>2. /\ jobs' \in Seq(Job) /\ DOMAIN jobs' = DOMAIN jobs /\ Len(jobs') = Len(jobs)
        /\ KeysAreUnique' /\ DailyIsAlone' /\ JobsHaveRoots'
        /\ \A s \in Requests : \A h : Fits(s, h) => Fits(s, h)'
    BY <2>1, SameRows
  <2>3. PagesHaveJobs' /\ RunsAreRunning' /\ Builds'
    BY <2>1, <2>2, OwnersStay, BuildsStay
  <2>4. /\ pages' \in Seq(Page) /\ interrupts' \in 0 .. MaxInterrupts
        /\ run' \in [JobIds -> Run] /\ lock' \in JobIds \cup {None}
    BY <2>1 DEF DailyInv, TypeOK
  <2>5. QED
    BY <2>1, <2>2, <2>3, <2>4, WorkStep
<1>5. QED
  BY <1>1, <1>2, <1>3, <1>4 DEF Next
-----------------------------------------------------------------------------
(***************************************************************************)
(* The theorems.                                                           *)
(***************************************************************************)
\* The inductive invariant holds of every behaviour, whoever is scheduled when.
THEOREM DailyInvariant == Spec => []DailyInv
<1>1. QED
  BY DailyInit, DailyStep, PTL DEF Spec

\* Every variable keeps its type: no more jobs than requests, and what a handler
\* accepted is there.
THEOREM TypeCorrect == Spec => []TypeOK
<1>1. DailyInv => TypeOK
  BY DEF DailyInv
<1>2. QED
  BY <1>1, DailyInvariant, PTL

\* Two market-daily jobs of the date are never under way together: neither the
\* inserts nor the replays of failed jobs get past the partial unique index.
THEOREM OneDailyJobAtATime == Spec => []OneDailyJob
<1>1. DailyInv => OneDailyJob
  <2> SUFFICES ASSUME DailyInv PROVE OneDailyJob
    OBVIOUS
  <2> DEFINE S == {j \in DOMAIN jobs : IsActiveDaily(jobs[j])}
  <2>1. CASE S = {}
    BY <2>1, FS_EmptySet DEF OneDailyJob
  <2>2. CASE S # {}
    <3>1. PICK j \in S : TRUE
      BY <2>2
    <3>2. S = {j}
      BY <3>1 DEF DailyInv, Rows, DailyIsAlone
    <3>3. Cardinality(S) = 1
      BY <3>2, FS_Singleton
    <3>4. QED
      BY <3>3 DEF OneDailyJob
  <2>3. QED
    BY <2>1, <2>2
<1>2. QED
  BY <1>1, DailyInvariant, PTL

\* Whatever races between a look-up and its insert, an accepted request was given a
\* job of the kind it asked for, and one key stands for one job.
THEOREM AcceptedRequestsShareAJob == Spec => []AcceptedMeansMine
<1>1. DailyInv => AcceptedMeansMine
  <2> SUFFICES ASSUME DailyInv PROVE AcceptedMeansMine
    OBVIOUS
  <2>1. \A r \in Requests : req[r].answer \in Accepted => Names(r, req[r].job)
    BY DEF DailyInv, Handlers, HandlersFit, Fits
  <2>2. QED
    BY <2>1 DEF AcceptedMeansMine, Names, DailyInv, Rows, KeysAreUnique
<1>2. QED
  BY <1>1, DailyInvariant, PTL

\* No page is lost to the version constraint: the advisory lock is held from before
\* the version is read until the page is committed or rolled back.
THEOREM BuildsNeverCollide == Spec => []VersionsNeverCollide
<1>1. DailyInv => VersionsNeverCollide
  BY DEF DailyInv, Builds, VersionsGrow, VersionsNeverCollide
<1>2. QED
  BY <1>1, DailyInvariant, PTL
=============================================================================
