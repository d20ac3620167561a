------------------------------ MODULE JobQueue ------------------------------
(***************************************************************************)
(* The durable batch queue: the rows of batch_job and batch_job_step_run   *)
(* in PostgreSQL and the workers that claim, lease, run, release and       *)
(* recover them (app/batch/worker.py, app/db/repositories/                 *)
(* batch_job_repo.py and the loops of the three orchestrators).            *)
(*                                                                         *)
(* Every action is one database transaction.  PostgreSQL's now() is the    *)
(* start of the transaction, so a write that ends a step is fenced against *)
(* a clock reading taken any time since the step began; the statements     *)
(* that are a transaction of their own are fenced against the clock as it  *)
(* is.  What a step computes is left out, and so is the number of steps.   *)
(*                                                                         *)
(* An operator Name_Variant is a wrong version of Name, kept to show that  *)
(* the properties below notice it; nothing here uses it.                   *)
(***************************************************************************)
EXTENDS Naturals

CONSTANTS
  Jobs,            \* primary keys of batch_job, handed out in increasing order
  Workers,         \* DurableBatchWorker instances, of one process or of many
  RunMode,         \* RunMode[j]: the orchestrator job j is dispatched to
  MaxAttempts,     \* batch_worker_max_attempts: max_attempts of a new row
  LlmMaxRetries,   \* llm_max_retries
  LeaseSeconds,    \* batch_worker_lease_seconds
  RetryDelay,      \* batch_worker_retry_delay_seconds
  LlmDelays,       \* the delays _llm_retry_delay_seconds can return
  MaxNow,          \* bound: the last clock reading
  MaxReplays       \* bound: replays of failed jobs

MarketDailyModes == {"FULL", "PAGE_REBUILD"}
RunModes == MarketDailyModes \cup {"AI_RETRY", "NEWS_COLLECTION"}

ASSUME JobQueueAssumption ==
  /\ Jobs \subseteq Nat \ {0}
  /\ RunMode \in [Jobs -> RunModes]
  /\ MaxAttempts \in Nat \ {0}
  /\ LlmMaxRetries \in Nat
  /\ LeaseSeconds \in Nat \ {0}
  /\ RetryDelay \in Nat
  /\ LlmDelays \subseteq Nat
  /\ MaxNow \in Nat
  /\ MaxReplays \in Nat

VARIABLES
  \* columns of batch_job
  status,          \* "ABSENT" before the row is inserted
  attempts,        \* attempt_count
  maxAttempts,     \* max_attempts
  leaseToken,      \* lease_token, NoToken when NULL
  leaseUntil,      \* lease_expires_at, 0 when NULL
  availableAt,     \* available_at
  llmRetries,      \* llmRetryCount in checkpoint_json, 0 when missing
  \* batch_job_step_run: the attempts of job j whose step run is RUNNING
  openRuns,
  \* the workers
  pc,              \* where the worker is in run_once
  claim,           \* the row and the token it got from claim_next_job
  since,           \* clock reading when the step it executes began
  lost,            \* lease_lost: its heartbeat was refused or failed
  exhausted,       \* it runs in llm_retry_exhausted_mode
  \* the environment
  now,             \* PostgreSQL's clock
  nextToken,       \* uuid4() never repeats: tokens are handed out in order
  replays,
  \* history
  failures         \* failures[j]: claims of j since it was queued or replayed
                   \* that ended in failure other than an LLM reschedule

columns == <<status, attempts, maxAttempts, leaseToken, leaseUntil,
             availableAt, llmRetries>>
workers == <<pc, claim, since, lost, exhausted>>
vars == <<columns, openRuns, workers, now, nextToken, replays, failures>>

NoToken == 0
NoClaim == [job |-> 0, token |-> NoToken, llm |-> 0]
Settled == {"SUCCESS", "PARTIAL"}
Statuses == {"ABSENT", "PENDING", "RUNNING", "FAILED"} \cup Settled
Places == {"idle", "recovered", "stepping", "executing", "failed", "llmFailed"}
Dispatching == {"stepping", "executing"}
Claimed == Dispatching \cup {"failed", "llmFailed"}

TypeOK ==
  /\ status \in [Jobs -> Statuses]
  /\ attempts \in [Jobs -> Nat]
  /\ maxAttempts \in [Jobs -> Nat]
  /\ leaseToken \in [Jobs -> Nat]
  /\ leaseUntil \in [Jobs -> Nat]
  /\ availableAt \in [Jobs -> Nat]
  /\ llmRetries \in [Jobs -> Nat]
  /\ openRuns \in [Jobs -> SUBSET Nat]
  /\ pc \in [Workers -> Places]
  /\ claim \in [Workers -> [job : Jobs \cup {0}, token : Nat, llm : Nat]]
  /\ since \in [Workers -> Nat]
  /\ lost \in [Workers -> BOOLEAN]
  /\ exhausted \in [Workers -> BOOLEAN]
  /\ now \in Nat
  /\ nextToken \in Nat \ {0}
  /\ replays \in Nat
  /\ failures \in [Jobs -> Nat]

Init ==
  /\ status = [j \in Jobs |-> "ABSENT"]
  /\ attempts = [j \in Jobs |-> 0]
  /\ maxAttempts = [j \in Jobs |-> MaxAttempts]
  /\ leaseToken = [j \in Jobs |-> NoToken]
  /\ leaseUntil = [j \in Jobs |-> 0]
  /\ availableAt = [j \in Jobs |-> 0]
  /\ llmRetries = [j \in Jobs |-> 0]
  /\ openRuns = [j \in Jobs |-> {}]
  /\ pc = [w \in Workers |-> "idle"]
  /\ claim = [w \in Workers |-> NoClaim]
  /\ since = [w \in Workers |-> 0]
  /\ lost = [w \in Workers |-> FALSE]
  /\ exhausted = [w \in Workers |-> FALSE]
  /\ now = 0
  /\ nextToken = 1
  /\ replays = 0
  /\ failures = [j \in Jobs |-> 0]
-----------------------------------------------------------------------------
LeaseValid_ById(w, clock) == TRUE

LeaseValid_NoToken(w, clock) ==
  status[claim[w].job] = "RUNNING" /\ leaseUntil[claim[w].job] > clock

\* The fence of every write a claim makes: the row still runs under the
\* worker's token and its lease had not expired when the transaction began.
LeaseValid(w, clock) ==
  LET j == claim[w].job IN
  /\ status[j] = "RUNNING"
  /\ leaseToken[j] = claim[w].token
  /\ leaseUntil[j] > clock

\* The clock readings the transaction that ends w's step may have started at.
StepClocks(w) == since[w] .. now

Goto(w, place) ==
  /\ pc' = [pc EXCEPT ![w] = place]
  /\ since' = [since EXCEPT ![w] = IF place = "executing" THEN now ELSE 0]

\* run_once returns, or the worker dies: nothing of the claim is remembered.
Forget(w) ==
  /\ Goto(w, "idle")
  /\ claim' = [claim EXCEPT ![w] = NoClaim]
  /\ lost' = [lost EXCEPT ![w] = FALSE]
  /\ exhausted' = [exhausted EXCEPT ![w] = FALSE]

CloseOwnRun_ByJob(w) == openRuns' = [openRuns EXCEPT ![claim[w].job] = {}]

CloseOwnRun(w) ==
  openRuns' = [openRuns EXCEPT ![claim[w].job] = @ \ {claim[w].token}]

ClearLease(j) ==
  /\ leaseToken' = [leaseToken EXCEPT ![j] = NoToken]
  /\ leaseUntil' = [leaseUntil EXCEPT ![j] = 0]

IssueToken_Reused == nextToken' = nextToken

IssueToken == nextToken' = nextToken + 1
-----------------------------------------------------------------------------
(***************************************************************************)
(* The callers of the queue.                                               *)
(***************************************************************************)
Enqueue(j) ==
  /\ status[j] = "ABSENT"
  /\ \A i \in Jobs : i < j => status[i] # "ABSENT"
  /\ status' = [status EXCEPT ![j] = "PENDING"]
  /\ availableAt' = [availableAt EXCEPT ![j] = now]
  /\ UNCHANGED <<attempts, maxAttempts, leaseToken, leaseUntil, llmRetries,
                 openRuns, workers, now, nextToken, replays, failures>>

\* An idempotent replay of a market-daily request revives its failed job.  The
\* widened max_attempts and the checkpoint stay as they are.
Replay(j) ==
  /\ replays < MaxReplays
  /\ RunMode[j] \in MarketDailyModes
  /\ status[j] = "FAILED"
  /\ status' = [status EXCEPT ![j] = "PENDING"]
  /\ attempts' = [attempts EXCEPT ![j] = 0]
  /\ availableAt' = [availableAt EXCEPT ![j] = now]
  /\ ClearLease(j)
  /\ replays' = replays + 1
  /\ failures' = [failures EXCEPT ![j] = 0]
  /\ UNCHANGED <<maxAttempts, llmRetries, openRuns, workers, now, nextToken>>
-----------------------------------------------------------------------------
(***************************************************************************)
(* run_once: recover expired claims, claim, dispatch, release.             *)
(***************************************************************************)

Expired == {j \in Jobs : status[j] = "RUNNING" /\ leaseUntil[j] <= now}
Spent_OffByOne == {j \in Jobs : attempts[j] > maxAttempts[j]}

Spent == {j \in Jobs : attempts[j] >= maxAttempts[j]}

Recover(w) ==
  /\ pc[w] = "idle"
  /\ Goto(w, "recovered")
  /\ status' = [j \in Jobs |-> IF j \notin Expired THEN status[j]
                               ELSE IF j \in Spent THEN "FAILED" ELSE "PENDING"]
  /\ availableAt' = [j \in Jobs |-> IF j \in Expired \ Spent THEN now
                                    ELSE availableAt[j]]
  /\ leaseToken' = [j \in Jobs |-> IF j \in Expired THEN NoToken ELSE leaseToken[j]]
  /\ leaseUntil' = [j \in Jobs |-> IF j \in Expired THEN 0 ELSE leaseUntil[j]]
  /\ openRuns' = [j \in Jobs |-> IF status'[j] = "RUNNING" THEN openRuns[j] ELSE {}]
  /\ failures' = [j \in Jobs |-> IF j \in Expired THEN failures[j] + 1
                                 ELSE failures[j]]
  /\ UNCHANGED <<attempts, maxAttempts, llmRetries, claim, lost, exhausted,
                 now, nextToken, replays>>

Claimable == {j \in Jobs : /\ status[j] = "PENDING"
                           /\ availableAt[j] <= now
                           /\ attempts[j] < maxAttempts[j]}

\* ORDER BY available_at, queued_at, id: ids are handed out in queueing order.
Precedes(i, j) ==
  availableAt[i] < availableAt[j] \/ (availableAt[i] = availableAt[j] /\ i <= j)

Claim(w, j) ==
  /\ pc[w] = "recovered"
  /\ j \in Claimable
  /\ \A i \in Claimable : Precedes(j, i)
  /\ status' = [status EXCEPT ![j] = "RUNNING"]
  /\ attempts' = [attempts EXCEPT ![j] = @ + 1]
  /\ leaseToken' = [leaseToken EXCEPT ![j] = nextToken]
  /\ leaseUntil' = [leaseUntil EXCEPT ![j] = now + LeaseSeconds]
  /\ IssueToken
  /\ claim' = [claim EXCEPT ![w] = [job |-> j, token |-> nextToken,
                                    llm |-> llmRetries[j]]]
  /\ Goto(w, "stepping")
  /\ UNCHANGED <<maxAttempts, availableAt, llmRetries, openRuns, lost, exhausted,
                 now, replays, failures>>

ClaimNothing(w) ==
  /\ pc[w] = "recovered"
  /\ Claimable = {}
  /\ Forget(w)
  /\ UNCHANGED <<columns, openRuns, now, nextToken, replays, failures>>
-----------------------------------------------------------------------------
(***************************************************************************)
(* The dispatched orchestrator.                                            *)
(***************************************************************************)
BeginStep(w) ==
  /\ pc[w] = "stepping"
  /\ LeaseValid(w, now)
  /\ openRuns' = [openRuns EXCEPT ![claim[w].job] = @ \cup {claim[w].token}]
  /\ Goto(w, "executing")
  /\ UNCHANGED <<columns, claim, lost, exhausted, now, nextToken, replays, failures>>

BeginRefused(w) ==
  /\ pc[w] = "stepping"
  /\ ~LeaseValid(w, now)
  /\ Goto(w, "failed")
  /\ UNCHANGED <<columns, openRuns, claim, lost, exhausted, now, nextToken,
                 replays, failures>>

\* The step ends: its checkpoint is saved.  The market-daily orchestrator
\* merges its keys into the checkpoint it reads back; the AI retry
\* orchestrator writes the whole object and so drops llmRetryCount.
SaveCheckpoint(w) ==
  /\ pc[w] = "executing"
  /\ RunMode[claim[w].job] # "NEWS_COLLECTION"
  /\ \E clock \in StepClocks(w) : LeaseValid(w, clock)
  /\ llmRetries' = [llmRetries EXCEPT ![claim[w].job] =
                      IF RunMode[claim[w].job] = "AI_RETRY" THEN 0 ELSE @]
  /\ CloseOwnRun(w)
  /\ Goto(w, "stepping")
  /\ UNCHANGED <<status, attempts, maxAttempts, leaseToken, leaseUntil, availableAt,
                 claim, lost, exhausted, now, nextToken, replays, failures>>

\* The last step ends: the job gets its final status.
Complete(w, outcome) ==
  /\ pc[w] = "executing"
  /\ \E clock \in StepClocks(w) : LeaseValid(w, clock)
  /\ status' = [status EXCEPT ![claim[w].job] = outcome]
  /\ ClearLease(claim[w].job)
  /\ CloseOwnRun(w)
  /\ Forget(w)
  /\ UNCHANGED <<attempts, maxAttempts, availableAt, llmRetries, now, nextToken,
                 replays, failures>>

\* The fence of save_checkpoint or mark_job_completed refuses the write.
WriteRefused(w) ==
  /\ pc[w] = "executing"
  /\ \E clock \in StepClocks(w) : ~LeaseValid(w, clock)
  /\ CloseOwnRun(w)
  /\ Goto(w, "failed")
  /\ UNCHANGED <<columns, claim, lost, exhausted, now, nextToken, replays, failures>>

\* Any exception other than LlmRetryableError, in a step or between two.
StepFails(w) ==
  /\ pc[w] \in Dispatching
  /\ CloseOwnRun(w)
  /\ Goto(w, "failed")
  /\ UNCHANGED <<columns, claim, lost, exhausted, now, nextToken, replays, failures>>

LlmFails_Unbounded(w) ==
  /\ pc[w] = "executing"
  /\ RunMode[claim[w].job] # "NEWS_COLLECTION"
  /\ CloseOwnRun(w)
  /\ Goto(w, "llmFailed")
  /\ UNCHANGED <<columns, claim, lost, exhausted, now, nextToken, replays, failures>>

LlmFails(w) ==
  /\ pc[w] = "executing"
  /\ RunMode[claim[w].job] # "NEWS_COLLECTION"
  /\ ~exhausted[w]
  /\ CloseOwnRun(w)
  /\ \/ /\ claim[w].llm < LlmMaxRetries
        /\ Goto(w, "llmFailed")
        /\ UNCHANGED <<lost, exhausted>>
     \/ /\ claim[w].llm >= LlmMaxRetries
        /\ Goto(w, "stepping")
        /\ lost' = [lost EXCEPT ![w] = FALSE]
        /\ exhausted' = [exhausted EXCEPT ![w] = TRUE]
  /\ UNCHANGED <<columns, claim, now, nextToken, replays, failures>>
-----------------------------------------------------------------------------
(***************************************************************************)
(* The heartbeat task of a dispatch.                                       *)
(***************************************************************************)
Heartbeat(w) ==
  /\ pc[w] \in Dispatching
  /\ ~lost[w]
  /\ LeaseValid(w, now)
  /\ leaseUntil' = [leaseUntil EXCEPT ![claim[w].job] = now + LeaseSeconds]
  /\ UNCHANGED <<status, attempts, maxAttempts, leaseToken, availableAt, llmRetries,
                 openRuns, workers, now, nextToken, replays, failures>>

\* The renewal is refused, or its transaction fails, whatever the lease.
HeartbeatFails(w) ==
  /\ pc[w] \in Dispatching
  /\ ~lost[w]
  /\ lost' = [lost EXCEPT ![w] = TRUE]
  /\ UNCHANGED <<columns, openRuns, pc, claim, since, exhausted, now, nextToken,
                 replays, failures>>

\* The dispatch is cancelled.  CancelledError passes the orchestrator's
\* "except Exception", so the step run stays open.
Cancel(w) ==
  /\ pc[w] \in Dispatching
  /\ lost[w]
  /\ Goto(w, "failed")
  /\ UNCHANGED <<columns, openRuns, claim, lost, exhausted, now, nextToken,
                 replays, failures>>
-----------------------------------------------------------------------------
Requeue_NoWidening(j, extra, delay) ==
  /\ status' = [status EXCEPT ![j] = IF attempts[j] >= maxAttempts[j]
                                     THEN "FAILED" ELSE "PENDING"]
  /\ availableAt' = [availableAt EXCEPT ![j] = now + delay]
  /\ ClearLease(j)
  /\ UNCHANGED maxAttempts

\* release_failed_claim of a claim that still holds its lease.
Requeue(j, extra, delay) ==
  /\ status' = [status EXCEPT ![j] = IF attempts[j] >= maxAttempts[j] + extra
                                     THEN "FAILED" ELSE "PENDING"]
  /\ availableAt' = [availableAt EXCEPT ![j] =
                       IF attempts[j] >= maxAttempts[j] + extra THEN @ ELSE now + delay]
  /\ maxAttempts' = [maxAttempts EXCEPT ![j] = @ + extra]
  /\ ClearLease(j)

ReleaseFailed(w) ==
  /\ pc[w] = "failed"
  /\ LeaseValid(w, now)
  /\ Requeue(claim[w].job, 0, RetryDelay)
  /\ failures' = [failures EXCEPT ![claim[w].job] = @ + 1]
  /\ Forget(w)
  /\ UNCHANGED <<attempts, llmRetries, openRuns, now, nextToken, replays>>

ReleaseLlm(w) ==
  /\ pc[w] = "llmFailed"
  /\ LeaseValid(w, now)
  /\ \E delay \in LlmDelays : Requeue(claim[w].job, 1, delay)
  /\ llmRetries' = [llmRetries EXCEPT ![claim[w].job] = claim[w].llm + 1]
  /\ Forget(w)
  /\ UNCHANGED <<attempts, openRuns, now, nextToken, replays, failures>>

ReleaseRefused(w) ==
  /\ pc[w] \in {"failed", "llmFailed"}
  /\ ~LeaseValid(w, now)
  /\ Forget(w)
  /\ UNCHANGED <<columns, openRuns, now, nextToken, replays, failures>>

\* The process dies, or a database error ends run_once: the row keeps its lease.
Die(w) ==
  /\ pc[w] # "idle"
  /\ Forget(w)
  /\ UNCHANGED <<columns, openRuns, now, nextToken, replays, failures>>

Tick ==
  /\ now < MaxNow
  /\ now' = now + 1
  /\ UNCHANGED <<columns, openRuns, workers, nextToken, replays, failures>>

Dispatch(w) ==
  \/ BeginStep(w) \/ BeginRefused(w)
  \/ SaveCheckpoint(w) \/ WriteRefused(w)
  \/ \E outcome \in Settled \cup {"FAILED"} : Complete(w, outcome)
  \/ StepFails(w) \/ LlmFails(w)
  \/ Heartbeat(w) \/ HeartbeatFails(w) \/ Cancel(w)

Next ==
  \/ \E j \in Jobs : Enqueue(j) \/ Replay(j)
  \/ \E w \in Workers :
       \/ Recover(w) \/ ClaimNothing(w) \/ (\E j \in Jobs : Claim(w, j))
       \/ Dispatch(w)
       \/ ReleaseFailed(w) \/ ReleaseLlm(w) \/ ReleaseRefused(w)
       \/ Die(w)
  \/ Tick

Spec == Init /\ [][Next]_vars
-----------------------------------------------------------------------------
(***************************************************************************)
(* Safety.                                                                 *)
(***************************************************************************)
Holds(w, j) == claim[w].job = j /\ claim[w].token # NoToken
                                /\ claim[w].token = leaseToken[j]

\* No two workers ever hold the running token of one job, however many of them
\* recover, claim and die at the same time (claim_next_job, recover_expired_claims).
OneHolder ==
  \A j \in Jobs : \A v, w \in Workers : Holds(v, j) /\ Holds(w, j) => v = w

\* A queued job can always be claimed again once its delay has passed: no
\* release, recovery or replay leaves one PENDING without an attempt left, which
\* claim_next_job would skip for ever.
NoStrandedJob ==
  \A j \in Jobs : status[j] = "PENDING" => attempts[j] < maxAttempts[j]

\* "a reschedule caused by a transient provider failure does not spend the
\* budget reserved for genuine job failures" (release_failed_claim): a job that
\* may still run has as many attempts left as its genuine failures leave it.
GenuineBudgetKept ==
  \A j \in Jobs :
    status[j] \in {"PENDING", "RUNNING"} =>
      MaxAttempts + attempts[j] <=
        maxAttempts[j] + failures[j] + (IF status[j] = "RUNNING" THEN 1 ELSE 0)

\* The attempts a provider outage can add are bounded.  The market-daily
\* checkpoint carries the count of LLM reschedules to the end, so each one that
\* widened max_attempts is counted; an AI retry forgets the count whenever it
\* saves a checkpoint, and is bounded by its genuine failures as well.
LlmWideningBounded ==
  \A j \in Jobs :
    IF RunMode[j] = "AI_RETRY"
    THEN maxAttempts[j] <= MaxAttempts + LlmMaxRetries * (failures[j] + 1)
    ELSE /\ maxAttempts[j] = MaxAttempts + llmRetries[j]
         /\ llmRetries[j] <= LlmMaxRetries

\* The step run of the attempt that holds the job is open while its step
\* executes: the recovery of another worker never closes it.
HolderRunOpen ==
  \A w \in Workers :
    pc[w] = "executing" /\ Holds(w, claim[w].job)
      => claim[w].token \in openRuns[claim[w].job]

\* A worker whose token is not the row's, because it stalled past its lease and
\* the job was recovered, changes no column of any row by what it does next.
ZombieIsInert ==
  [][\A w \in Workers :
       /\ pc[w] \in Claimed
       /\ leaseToken[claim[w].job] # claim[w].token
       /\ pc'[w] # pc[w]
       => UNCHANGED columns]_vars

\* A claim whose lease is live ends only by what its own worker does.
LiveLeaseNotStolen ==
  [][\A j \in Jobs : \A w \in Workers :
       /\ Holds(w, j)
       /\ leaseUntil[j] > now
       /\ leaseToken'[j] # leaseToken[j]
       => claim'[w] = NoClaim]_vars

\* A lease is extended only before it expires and only while the worker that
\* claimed it still dispatches: a dead worker's job becomes recoverable in time.
OnlyHolderRenews ==
  [][\A j \in Jobs :
       /\ status[j] = "RUNNING"
       /\ leaseUntil'[j] > leaseUntil[j]
       => /\ leaseUntil[j] > now
          /\ \E w \in Workers : Holds(w, j) /\ pc[w] \in Dispatching]_vars

\* A job that ended in SUCCESS or PARTIAL keeps its status, lease columns and
\* counters for ever.
SettledIsFinal ==
  [][\A j \in Jobs :
       status[j] \in Settled =>
         UNCHANGED <<status[j], attempts[j], leaseToken[j], leaseUntil[j],
                     availableAt[j], maxAttempts[j]>>]_vars
-----------------------------------------------------------------------------
(***************************************************************************)
(* Why a token identifies its holder: the inductive invariant.             *)
(***************************************************************************)
TokensIssued ==
  /\ \A j \in Jobs : leaseToken[j] < nextToken
  /\ \A w \in Workers : claim[w].token < nextToken

TokenIffRunning ==
  \A j \in Jobs : leaseToken[j] # NoToken <=> status[j] = "RUNNING"

ClaimIffDispatched ==
  \A w \in Workers :
    IF pc[w] \in Claimed THEN claim[w].token # NoToken /\ claim[w].job \in Jobs
    ELSE claim[w].token = NoToken

ClaimsDistinct ==
  \A v, w \in Workers :
    claim[v].token # NoToken /\ claim[v].token = claim[w].token => v = w

TokenNamesJob ==
  \A w \in Workers : \A j \in Jobs :
    claim[w].token # NoToken /\ claim[w].token = leaseToken[j] => claim[w].job = j

\* A token is handed out once; whatever worker and row still show it belong to
\* the claim it was handed out for.
Ownership ==
  /\ TokensIssued
  /\ TokenIffRunning
  /\ ClaimIffDispatched
  /\ ClaimsDistinct
  /\ TokenNamesJob
-----------------------------------------------------------------------------
(***************************************************************************)
(* The queue implements the job life cycle.                                *)
(***************************************************************************)
PhaseOf(s) ==
  CASE s = "ABSENT" -> "absent"
    [] s = "PENDING" -> "queued"
    [] s = "RUNNING" -> "held"
    [] s = "FAILED" -> "failed"
    [] OTHER -> "done"

GrantBudget(j) ==
  IF RunMode[j] = "AI_RETRY" THEN MaxAttempts * (LlmMaxRetries + 1)
  ELSE MaxAttempts + LlmMaxRetries

Lifecycle == INSTANCE JobLifecycle WITH
  phase <- [j \in Jobs |-> PhaseOf(status[j])],
  epoch <- leaseToken,
  issued <- nextToken - 1,
  tries <- attempts,
  Budget <- [j \in Jobs |-> GrantBudget(j)]

\* Under the mapping status -> phase, lease_token -> epoch, attempt_count ->
\* tries, every transaction of the queue is a step of the life cycle or none.
ImplementsLifecycle == Lifecycle!Spec
=============================================================================
