------------------------------ MODULE DailyPages ------------------------------
(***************************************************************************)
(* The requests that ask for a page of one business date, the jobs they    *)
(* create or find again, and the page versions the jobs publish            *)
(* (app/domains/batches/service.py, app/db/repositories/ai_retry_repo.py,  *)
(* app/batch/steps/build_page_snapshot.py and its rebuild,                 *)
(* app/db/repositories/page_snapshot_write_repo.py).                       *)
(*                                                                         *)
(* Every SQL statement sees what was committed before it, so a request     *)
(* makes a step per statement whose result it acts upon.  How a job runs   *)
(* up to its page is in MarketDaily and AiRetry, how it is claimed in      *)
(* JobQueue; a page is its version and the job that made it.               *)
(***************************************************************************)
EXTENDS Integers, Sequences, FiniteSets, SequencesExt, FiniteSetsExt

CONSTANTS
  Requests,
  Ask,            \* Ask[r]: [api, force, key, job] of request r
  NoKey,
  Workers,        \* jobs that run at a time
  MaxInterrupts   \* bound: runs that are interrupted

Apis == {"start", "rebuild", "retry"}
None == 0

ASSUME DailyPagesAssumption ==
  /\ Requests \subseteq Nat /\ IsFiniteSet(Requests)
  /\ \A r \in Requests : Ask[r].api \in Apis /\ Ask[r].force \in BOOLEAN /\ Ask[r].job \in Nat
  /\ Workers \in Nat \ {0}
  /\ MaxInterrupts \in Nat

Modes == {"FULL", "PAGE_REBUILD", "AI_RETRY"}
DailyModes == {"FULL", "PAGE_REBUILD"}
Active == {"PENDING", "RUNNING"}
Terminal == {"COMPLETED", "FAILED"}   \* completed is SUCCESS or PARTIAL
Statuses == Active \cup Terminal
Refusals ==
  {"BATCH_ALREADY_RUNNING", "PAGE_ALREADY_EXISTS", "PAGE_NOT_FOUND", "IDEMPOTENCY_KEY_REUSED",
   "BATCH_JOB_NOT_FOUND", "BATCH_JOB_NOT_TERMINAL", "AI_RETRY_SOURCE_PAGE_NOT_FOUND"}
Accepted == {"created", "existing"}

VARIABLES
  jobs,        \* batch_job, in insertion order
  pages,       \* market_daily_page of the date, in commit order
  req,         \* the handler of each request
  run,         \* the run of each job that builds its page
  lock,        \* the job whose transaction holds the advisory lock, None
  collisions,  \* page inserts that failed with the version constraint
  interrupts   \* runs interrupted so far

vars == <<jobs, pages, req, run, lock, collisions, interrupts>>
queueing == <<pages, run, lock, collisions, interrupts>>

JobIds == 1 .. Cardinality(Requests)
Handler == [pc : {"start", "check", "source", "lookup", "insert", "conflict", "reuse", "answered"},
            job : JobIds \cup {None}, source : Nat, root : JobIds \cup {None},
            answer : {"none"} \cup Accepted \cup Refusals]
Page == [version : Nat \ {0}, job : JobIds]
Job == [mode : Modes, force : BOOLEAN, key : {NoKey} \cup {Ask[r].key : r \in Requests},
        source : Nat, root : JobIds, status : Statuses, page : Nat]
Run == [pc : {"idle", "running", "locked", "versioned", "resumed", "built", "selected"},
        version : Nat, page : Nat]

Idle == [pc |-> "idle", version |-> 0, page |-> None]

TypeOK ==
  /\ jobs \in Seq(Job) /\ Len(jobs) <= Cardinality(Requests)
  /\ pages \in Seq(Page)
  /\ req \in [Requests -> Handler]
  /\ run \in [JobIds -> Run]
  /\ lock \in JobIds \cup {None}
  /\ collisions \in Nat
  /\ interrupts \in 0 .. MaxInterrupts
  /\ \A r \in Requests : req[r].answer \in Accepted => req[r].job \in DOMAIN jobs

Init ==
  /\ jobs = <<>>
  /\ pages = <<>>
  /\ req = [r \in Requests |-> [pc |-> "start", job |-> None, source |-> None, root |-> None,
                                answer |-> "none"]]
  /\ run = [j \in JobIds |-> Idle]
  /\ lock = None
  /\ collisions = 0
  /\ interrupts = 0
-----------------------------------------------------------------------------
(***************************************************************************)
(* Queries.                                                                *)
(***************************************************************************)
JobWithKey(key) == IF key = NoKey THEN None ELSE SelectInSeq(jobs, LAMBDA job : job.key = key)

IsActiveDaily(job) == job.mode \in DailyModes /\ job.status \in Active
ActiveDaily == SelectInSeq(jobs, IsActiveDaily)

LatestPage ==
  IF pages = <<>> THEN None
  ELSE CHOOSE p \in DOMAIN pages : \A q \in DOMAIN pages : pages[q].version <= pages[p].version

\* The job a lineage of rebuilds and retries goes back to.
Root(j) == IF jobs[j].mode = "FULL" THEN j ELSE jobs[j].root

\* COALESCE(requested.page_id, requested.source_page_id, root.page_id)
SourcePage(j) ==
  IF jobs[j].page # None THEN jobs[j].page
  ELSE IF jobs[j].source # None THEN jobs[j].source ELSE jobs[Root(j)].page

Mode(r) ==
  CASE Ask[r].api = "start" -> "FULL"
    [] Ask[r].api = "rebuild" -> "PAGE_REBUILD"
    [] Ask[r].api = "retry" -> "AI_RETRY"

Answer(r, answer, j) ==
  req' = [req EXCEPT ![r] = [pc |-> "answered", job |-> j, source |-> None, root |-> None,
                             answer |-> answer]]
Refuse(r, refusal) == Answer(r, refusal, None)
Continue(r, place) == req' = [req EXCEPT ![r].pc = place]
Found(r, j) == req' = [req EXCEPT ![r].pc = "reuse", ![r].job = j]

\* source_job_id, source_page_id; a FULL job is its own root.
NewJob(r) ==
  [mode |-> Mode(r), force |-> Ask[r].force, key |-> Ask[r].key, source |-> req[r].source,
   root |-> IF req[r].root = None THEN Len(jobs) + 1 ELSE req[r].root,
   status |-> "PENDING", page |-> None]
-----------------------------------------------------------------------------
(***************************************************************************)
(* POST /batch/market-daily.                                               *)
(***************************************************************************)
IsDaily(r) == Ask[r].api \in {"start", "rebuild"}

Replays(r, j) == jobs[j].mode = Mode(r) /\ jobs[j].force = Ask[r].force

\* _reuse_idempotent_job up to its UPDATE: only a failed job is worth one.
Reuse(r, j) ==
  IF ~Replays(r, j)
  THEN Refuse(r, "IDEMPOTENCY_KEY_REUSED")
  ELSE IF jobs[j].status = "FAILED" THEN Found(r, j) ELSE Answer(r, "existing", j)

\* Equal requests are interchangeable: the lower ones come first.
Arrives(r) ==
  /\ req[r].pc = "start"
  /\ \A s \in Requests : s < r /\ Ask[s] = Ask[r] => req[s].pc # "start"

LookUpKey(r) ==
  /\ Arrives(r) /\ IsDaily(r)
  /\ IF JobWithKey(Ask[r].key) = None
     THEN Continue(r, "check")
     ELSE Reuse(r, JobWithKey(Ask[r].key))
  /\ UNCHANGED <<jobs, queueing>>

CheckActive(r) ==
  /\ req[r].pc = "check"
  /\ IF ActiveDaily = None
     THEN Continue(r, "source")
     ELSE Refuse(r, "BATCH_ALREADY_RUNNING")
  /\ UNCHANGED <<jobs, queueing>>

CheckPage(r) ==
  /\ req[r].pc = "source"
  /\ \/ Ask[r].api = "rebuild" /\ LatestPage = None /\ Refuse(r, "PAGE_NOT_FOUND")
     \/ Ask[r].api = "rebuild" /\ LatestPage # None
        /\ req' = [req EXCEPT ![r].pc = "insert", ![r].source = LatestPage,
                              ![r].root = Root(pages[LatestPage].job)]
     \/ Ask[r].api = "start" /\ LatestPage # None /\ ~Ask[r].force
        /\ Refuse(r, "PAGE_ALREADY_EXISTS")
     \/ Ask[r].api = "start" /\ (LatestPage = None \/ Ask[r].force) /\ Continue(r, "insert")
  /\ UNCHANGED <<jobs, queueing>>

\* The unique indexes of the keys and of the active market-daily jobs.
ViolatesIndex(r) ==
  \/ JobWithKey(Ask[r].key) # None
  \/ Mode(r) \in DailyModes /\ ActiveDaily # None

Insert(r) ==
  /\ req[r].pc = "insert"
  /\ \/ ~ViolatesIndex(r) /\ jobs' = Append(jobs, NewJob(r)) /\ Answer(r, "created", Len(jobs) + 1)
     \/ ViolatesIndex(r) /\ Continue(r, "conflict") /\ UNCHANGED jobs
  /\ UNCHANGED queueing

Conflict_AnswersActive(r) ==
  /\ req[r].pc = "conflict" /\ IsDaily(r)
  /\ IF ActiveDaily # None
     THEN Answer(r, "existing", ActiveDaily)
     ELSE Refuse(r, "BATCH_ALREADY_RUNNING")
  /\ UNCHANGED <<jobs, queueing>>

\* IntegrityError: a request with the same key was faster, or another job is active.
Conflict(r) ==
  /\ req[r].pc = "conflict" /\ IsDaily(r)
  /\ IF JobWithKey(Ask[r].key) = None
     THEN Refuse(r, "BATCH_ALREADY_RUNNING")
     ELSE Reuse(r, JobWithKey(Ask[r].key))
  /\ UNCHANGED <<jobs, queueing>>

Requeue_PastIndex(r) ==
  LET j == req[r].job IN
  /\ req[r].pc = "reuse"
  /\ Answer(r, IF jobs[j].status = "FAILED" THEN "created" ELSE "existing", j)
  /\ jobs' = IF jobs[j].status = "FAILED" THEN [jobs EXCEPT ![j].status = "PENDING"] ELSE jobs
  /\ UNCHANGED queueing

\* retry_failed_job: if it is still failed the job is queued again, and the
\* checkpoint with the page it may have built stays.
Requeue(r) ==
  LET j == req[r].job IN
  /\ req[r].pc = "reuse"
  /\ IF jobs[j].status # "FAILED"
     THEN Answer(r, "existing", j) /\ UNCHANGED jobs
     ELSE IF ActiveDaily # None
     THEN Refuse(r, "BATCH_ALREADY_RUNNING") /\ UNCHANGED jobs
     ELSE Answer(r, "created", j) /\ jobs' = [jobs EXCEPT ![j].status = "PENDING"]
  /\ UNCHANGED queueing

(***************************************************************************)
(* POST /batch/jobs/{jobId}/retry-ai.                                      *)
(***************************************************************************)
ResolveSource(r) ==
  LET j == Ask[r].job IN
  /\ Arrives(r) /\ Ask[r].api = "retry"
  /\ \/ j \notin DOMAIN jobs /\ Refuse(r, "BATCH_JOB_NOT_FOUND")
     \/ /\ j \in DOMAIN jobs
        /\ \/ jobs[j].status \in Active /\ Refuse(r, "BATCH_JOB_NOT_TERMINAL")
           \/ jobs[j].status \in Terminal /\ SourcePage(j) = None
              /\ Refuse(r, "AI_RETRY_SOURCE_PAGE_NOT_FOUND")
           \/ jobs[j].status \in Terminal /\ SourcePage(j) # None
              /\ req' = [req EXCEPT ![r].pc = "lookup", ![r].source = SourcePage(j),
                                    ![r].root = Root(j)]
  /\ UNCHANGED <<jobs, queueing>>

\* _validate_idempotent_job.
ReuseRetry(r, j) ==
  IF jobs[j].mode = "AI_RETRY" /\ jobs[j].root = req[r].root /\ jobs[j].source = req[r].source
  THEN Answer(r, "existing", j)
  ELSE Refuse(r, "IDEMPOTENCY_KEY_REUSED")

\* enqueue looks its key up before the INSERT, and again if that violates the index.
LookUpRetryKey(r) ==
  /\ req[r].pc = "lookup" \/ (req[r].pc = "conflict" /\ Ask[r].api = "retry")
  /\ IF JobWithKey(Ask[r].key) = None
     THEN Continue(r, "insert")
     ELSE ReuseRetry(r, JobWithKey(Ask[r].key))
  /\ UNCHANGED <<jobs, queueing>>

Handle(r) ==
  \/ LookUpKey(r) \/ CheckActive(r) \/ CheckPage(r) \/ Insert(r) \/ Conflict(r)
  \/ Requeue(r) \/ ResolveSource(r) \/ LookUpRetryKey(r)
-----------------------------------------------------------------------------
(***************************************************************************)
(* The jobs.                                                               *)
(***************************************************************************)
SetStatus(j, status) == jobs' = [jobs EXCEPT ![j].status = status]
RunAt(j, place) == run' = [run EXCEPT ![j].pc = place]

\* A run that is resumed finds its page in the checkpoint, and takes it from there;
\* a retry selects its targets again first.
Start(j) ==
  /\ j \in DOMAIN jobs /\ jobs[j].status = "PENDING"
  /\ Cardinality({i \in DOMAIN jobs : jobs[i].status = "RUNNING"}) < Workers
  /\ SetStatus(j, "RUNNING")
  /\ RunAt(j, IF run[j].page = None THEN "running"
              ELSE IF jobs[j].mode = "AI_RETRY" THEN "resumed" ELSE "built")
  /\ UNCHANGED <<pages, req, lock, collisions, interrupts>>

\* The checkpoint of the selection replaces the one with the page, which from now on
\* only the run knows.
Reselect(j) ==
  /\ run[j].pc = "resumed"
  /\ RunAt(j, "selected")
  /\ UNCHANGED <<jobs, pages, req, lock, collisions, interrupts>>

LockVersions_Shared(j) ==
  /\ lock' = IF lock = None THEN j ELSE lock

\* pg_advisory_xact_lock.
LockVersions(j) ==
  /\ lock = None
  /\ lock' = j

EnterBuild(j) ==
  /\ run[j].pc = "running"
  /\ LockVersions(j)
  /\ RunAt(j, "locked")
  /\ UNCHANGED <<jobs, pages, req, collisions, interrupts>>

Versions == {pages[p].version : p \in DOMAIN pages}

ReadVersion(j) ==
  /\ run[j].pc = "locked"
  /\ run' = [run EXCEPT ![j].pc = "versioned",
                        ![j].version = IF Versions = {} THEN 1 ELSE Max(Versions) + 1]
  /\ UNCHANGED <<jobs, pages, req, lock, collisions, interrupts>>

Unlock_Session(j) == UNCHANGED lock

\* The lock ends with the transaction.
Unlock(j) == lock' = IF lock = j THEN None ELSE lock

Insertable(j) == run[j].version \notin Versions

\* The page with its markets, the checkpoint, commit; the unique constraint of
\* the versions fails the run.
Publish(j) ==
  /\ run[j].pc = "versioned"
  /\ IF Insertable(j)
     THEN /\ pages' = Append(pages, [version |-> run[j].version, job |-> j])
          /\ run' = [run EXCEPT ![j] = [pc |-> "built", version |-> 0, page |-> Len(pages) + 1]]
          /\ UNCHANGED <<jobs, collisions>>
     ELSE /\ collisions' = collisions + 1
          /\ run' = [run EXCEPT ![j].pc = "idle", ![j].version = 0]
          /\ SetStatus(j, "FAILED")
          /\ UNCHANGED pages
  /\ Unlock(j)
  /\ UNCHANGED <<req, interrupts>>

Finish(j) ==
  /\ run[j].pc \in {"built", "selected"}
  /\ jobs' = [jobs EXCEPT ![j].status = "COMPLETED", ![j].page = run[j].page]
  /\ RunAt(j, "idle")
  /\ UNCHANGED <<pages, req, lock, collisions, interrupts>>

\* Without clusters or sources the daily job fails, without a recovery the retry
\* ends PARTIAL with no page; what it recovered for an earlier page is still there.
FinishWithoutPage(j) ==
  /\ run[j].pc = "running"
  /\ jobs[j].mode # "PAGE_REBUILD"
  /\ \A p \in DOMAIN pages : pages[p].job # j
  /\ SetStatus(j, IF jobs[j].mode = "FULL" THEN "FAILED" ELSE "COMPLETED")
  /\ RunAt(j, "idle")
  /\ UNCHANGED <<pages, req, lock, collisions, interrupts>>

\* A crash or an exception anywhere: the transaction is rolled back, the job is
\* tried again or its attempts are spent.  A page that is not in the checkpoint any
\* more is forgotten: the retry will publish it again.
Interrupt(j) ==
  /\ run[j].pc # "idle"
  /\ interrupts < MaxInterrupts
  /\ interrupts' = interrupts + 1
  /\ \E status \in {"PENDING", "FAILED"} : SetStatus(j, status)
  /\ run' = [run EXCEPT ![j].pc = "idle", ![j].version = 0,
                        ![j].page = IF run[j].pc = "selected" THEN None ELSE @]
  /\ Unlock(j)
  /\ UNCHANGED <<pages, req, collisions>>

Work(j) ==
  \/ Start(j) \/ Reselect(j) \/ EnterBuild(j) \/ ReadVersion(j) \/ Publish(j)
  \/ Finish(j) \/ FinishWithoutPage(j)

Next ==
  \/ \E r \in Requests : Handle(r)
  \/ \E j \in JobIds : Work(j) \/ Interrupt(j)

\* The drain goes on, who gets the lock first is PostgreSQL's affair.  No
\* job waits for a handler, which may stop anywhere.
Fairness == \A j \in JobIds : WF_vars(Work(j))

Spec == Init /\ [][Next]_vars /\ Fairness
-----------------------------------------------------------------------------
\* A key stands for one job: whatever races between the look-up and the insert,
\* requests accepted under one key were given the same job, and every accepted
\* request was given a job of the kind it asked for.
AcceptedMeansMine ==
  \A r, s \in Requests :
    /\ req[r].answer \in Accepted =>
         /\ jobs[req[r].job].mode = Mode(r)
         /\ jobs[req[r].job].key = Ask[r].key
    /\ req[r].answer \in Accepted /\ req[s].answer \in Accepted
         /\ Ask[r].key = Ask[s].key /\ Ask[r].key # NoKey
       => req[r].job = req[s].job

\* Two market-daily jobs of the date are never under way together, replays of
\* failed jobs included.
OneDailyJob == Cardinality({j \in DOMAIN jobs : IsActiveDaily(jobs[j])}) <= 1

\* A daily job and a retry that build at the same time never fail each other: the
\* lock is taken before the version is read, and versions grow with the commits.
VersionsNeverCollide ==
  /\ collisions = 0
  /\ \A p, q \in DOMAIN pages : p < q => pages[p].version < pages[q].version

\* What was accepted ends, with every job's page built under a lock that others
\* wait for.
AcceptedJobsEnd ==
  \A j \in JobIds : (j \in DOMAIN jobs) ~> (j \in DOMAIN jobs /\ jobs[j].status \in Terminal)
=============================================================================
