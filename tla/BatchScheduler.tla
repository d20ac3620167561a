--------------------------- MODULE BatchScheduler ---------------------------
(***************************************************************************)
(* The scheduler that drains the durable queue inside the API process      *)
(* (app/batch/background.py), the finite drain itself                      *)
(* (DurableBatchWorker.run_until_idle) and the requests and restarts that  *)
(* start one (app/main.py, the background tasks of the batch router).      *)
(*                                                                         *)
(* The event loop runs one callback at a time, so every operation of the   *)
(* scheduler is one action; the drain yields between its queries.  One     *)
(* process drains.  Its clock advances while the drain sleeps, executes a  *)
(* job, leaves one or does not run: queries take no time.  Time is kept in *)
(* timers that run down to zero.  What claims and releases do to a row is  *)
(* in JobQueue; here a job is queued, running or ended.  The server is not *)
(* assumed to let its requests finish before it shuts down.                *)
(*                                                                         *)
(* An operator Name_Variant is a wrong version of Name, kept to show that  *)
(* the properties below notice it; nothing here uses it.                   *)
(***************************************************************************)
EXTENDS Integers

CONSTANTS
  Jobs,
  NewsJobs,         \* those a scheduled news collection asks for
  NoJob,            \* no job is being executed
  MaxAttempts,
  LeaseSeconds,     \* batch_worker_lease_seconds, in units of the poll interval
  Delays,           \* delays of a released job
  StartupRecovery,  \* what batch_startup_recovery_enabled may be at a start
  MaxStops,         \* bound: how often the process stops
  MaxErrors         \* bound: database errors the drain meets

ASSUME BatchSchedulerAssumption ==
  /\ NewsJobs \subseteq Jobs
  /\ NoJob \notin Jobs
  /\ MaxAttempts \in Nat \ {0}
  /\ LeaseSeconds \in Nat \ {0}
  /\ Delays \subseteq Nat
  /\ StartupRecovery \subseteq BOOLEAN
  /\ MaxStops \in Nat
  /\ MaxErrors \in Nat

VARIABLES
  phase,      \* "absent", "queued", "running" or "ended"
  timer,      \* time to available_at of a queued job, to lease_expires_at of a
              \* running one
  tries,      \* attempt_count
  handlers,   \* jobs a handler has committed and not yet answered for
  accepted,   \* requests answered whose background task has not run yet
  process,    \* "up", "stopping" in shutdown(), or "down"
  busy,       \* history: the drain was executing a job when shutdown() began
  requested,  \* _drain_requested
  task,       \* where the drain task is in run_until_idle, "none" when done
  doing,      \* the job it executes
  waited,     \* time since wait_started_at, NoWait when None
  callback,   \* a drain task is done and its _drain_finished has not run
  stops, errors,
  left        \* history: why a job may be left to a later request or restart,
              \* "no" when a drain must not leave it

rows == <<phase, timer, tries>>
requests == <<handlers, accepted>>
drain == <<task, doing, waited>>
vars == <<rows, requests, process, busy, requested, drain, callback, stops,
          errors, left>>

NoWait == -1
Unfinished == {j \in Jobs : phase[j] \in {"queued", "running"}}

TypeOK ==
  /\ phase \in [Jobs -> {"absent", "queued", "running", "ended"}]
  /\ timer \in [Jobs -> Nat]
  /\ tries \in [Jobs -> 0 .. MaxAttempts]
  /\ handlers \subseteq Jobs
  /\ accepted \subseteq Jobs
  /\ process \in {"up", "stopping", "down"}
  /\ busy \in BOOLEAN
  /\ requested \in BOOLEAN
  /\ task \in {"none", "run", "execute", "settle", "unwind", "lookup", "sleep"}
  /\ doing \in Jobs \cup {NoJob}
  /\ task \in {"execute", "settle"} => doing # NoJob
  /\ doing # NoJob => task \in {"execute", "settle", "unwind"}
  /\ waited \in NoWait .. LeaseSeconds
  /\ callback \in BOOLEAN
  /\ errors \in Nat
  /\ left \in [Jobs -> {"no", "handler", "delay", "error", "restart"}]

Init ==
  /\ phase = [j \in Jobs |-> "absent"]
  /\ timer = [j \in Jobs |-> 0]
  /\ tries = [j \in Jobs |-> 0]
  /\ handlers = {}
  /\ accepted = {}
  /\ process = "up"
  /\ busy = FALSE
  /\ requested = FALSE
  /\ task = "none"
  /\ doing = NoJob
  /\ waited = NoWait
  /\ callback = FALSE
  /\ stops = 0
  /\ errors = 0
  /\ left = [j \in Jobs |-> "no"]

\* Every job that is left to do may now be left, for this reason.
MayLeaveAll(why) ==
  left' = [j \in Jobs |-> IF j \in Unfinished THEN why ELSE left[j]]
-----------------------------------------------------------------------------
(***************************************************************************)
(* The scheduler.                                                          *)
(***************************************************************************)
\* A drain must end every job but those due later than it waits.
NewTask ==
  /\ task' = "run"
  /\ requested' = FALSE
  /\ left' = [j \in Jobs |-> IF phase[j] = "queued" /\ timer[j] > LeaseSeconds
                             THEN "delay" ELSE "no"]
  /\ UNCHANGED <<doing, waited>>

StartDrain_Forgets ==
  IF process = "up" /\ task = "none" THEN NewTask
  ELSE UNCHANGED <<requested, drain, left>>

StartDrain_WhileStopping ==
  IF task = "none" THEN NewTask
  ELSE requested' = TRUE /\ UNCHANGED <<drain, left>>

\* start_drain: a request that finds a live drain is remembered.
StartDrain ==
  CASE process # "up" -> UNCHANGED <<requested, drain, left>>
    [] process = "up" /\ task = "none" -> NewTask
    [] OTHER -> requested' = TRUE /\ UNCHANGED <<drain, left>>

\* The drain task is done.
EndTask ==
  /\ task' = "none"
  /\ doing' = NoJob
  /\ waited' = NoWait
  /\ callback' = TRUE

\* _drain_finished; start_drain may have started another task before it.
DrainFinished ==
  /\ callback
  /\ callback' = FALSE
  /\ IF requested /\ task = "none" /\ process = "up" THEN NewTask
     ELSE UNCHANGED <<requested, drain, left>>
  /\ UNCHANGED <<rows, requests, process, busy, stops, errors>>

\* What the lease of a job has to run when its heartbeat stops.
LeaseLeft(j) ==
  \E rest \in 0 .. LeaseSeconds : timer' = [timer EXCEPT ![j] = rest]

\* shutdown() cancels the drain once and awaits it.  The CancelledError ends a
\* drain that sleeps or awaits a query; one that awaits its dispatch first
\* cancels that and waits for it; but one that leaves a dispatch may await inside
\* `suppress(CancelledError)` and go on as if nothing had happened.
Shutdown ==
  /\ process = "up"
  /\ stops < MaxStops
  /\ process' = "stopping"
  /\ busy' = (doing # NoJob)
  /\ requested' = FALSE
  /\ \/ /\ task \in {"none", "settle"}
        /\ UNCHANGED <<timer, task, doing>>
     \/ /\ task \in {"run", "lookup", "sleep", "settle"}
        /\ task' = "unwind"
        /\ doing' = NoJob
        /\ UNCHANGED timer
     \/ /\ task = "execute"
        /\ task' = "unwind"
        /\ LeaseLeft(doing)
        /\ UNCHANGED doing
  /\ stops' = stops + 1
  /\ UNCHANGED <<phase, tries, requests, waited, callback, errors, left>>

\* The CancelledError leaves run_until_idle; a job keeps its lease.
Unwound ==
  /\ task = "unwind"
  /\ EndTask
  /\ UNCHANGED <<rows, requests, process, busy, requested, stops, errors, left>>

\* The cancelled dispatch ends with an error, which replaces the CancelledError.
UnwindFails ==
  /\ task = "unwind"
  /\ doing # NoJob
  /\ task' = "settle"
  /\ UNCHANGED <<rows, requests, process, busy, requested, doing, waited,
                 callback, stops, errors, left>>

\* shutdown() returns; then the process is gone.
ShutdownDone ==
  /\ process = "stopping"
  /\ task = "none" /\ ~callback
  /\ process' = "down"
  /\ handlers' = {}
  /\ accepted' = {}
  /\ busy' = FALSE
  /\ UNCHANGED <<rows, requested, drain, callback, stops, errors, left>>

\* The process is killed, perhaps because its shutdown takes too long.
Kill ==
  /\ process = "stopping" \/ (process = "up" /\ stops < MaxStops)
  /\ process' = "down"
  /\ requested' = FALSE
  /\ handlers' = {}
  /\ accepted' = {}
  /\ busy' = FALSE
  /\ task' = "none"
  /\ doing' = NoJob
  /\ waited' = NoWait
  /\ callback' = FALSE
  /\ IF task = "execute" THEN LeaseLeft(doing) ELSE UNCHANGED timer
  /\ stops' = IF process = "up" THEN stops + 1 ELSE stops
  /\ UNCHANGED <<phase, tries, errors, left>>

\* lifespan: a new process; its startup recovery, if enabled, is a drain.
Boot(recovers) ==
  /\ process = "down"
  /\ process' = "up"
  /\ IF recovers THEN NewTask
     ELSE MayLeaveAll("restart") /\ UNCHANGED <<requested, drain>>
  /\ UNCHANGED <<rows, requests, busy, callback, stops, errors>>
-----------------------------------------------------------------------------
(***************************************************************************)
(* The requests.                                                           *)
(***************************************************************************)
\* A handler commits the job ...
Request(j) ==
  /\ process = "up"
  /\ phase[j] = "absent"
  /\ phase' = [phase EXCEPT ![j] = "queued"]
  /\ handlers' = handlers \cup {j}
  /\ UNCHANGED <<timer, tries, accepted, process, busy, requested, drain,
                 callback, stops, errors, left>>

\* ... and adds the background task to its answer;
Answered(j) ==
  /\ j \in handlers
  /\ handlers' = handlers \ {j}
  /\ accepted' = accepted \cup {j}
  /\ UNCHANGED <<rows, process, busy, requested, drain, callback, stops, errors, left>>

\* but the catch-up of missed slots comes between the two, and may raise.
HandlerFails(j) ==
  /\ j \in handlers \cap NewsJobs
  /\ handlers' = handlers \ {j}
  /\ left' = IF j \in Unfinished THEN [left EXCEPT ![j] = "handler"] ELSE left
  /\ UNCHANGED <<rows, accepted, process, busy, requested, drain, callback,
                 stops, errors>>

\* A request that finds its job: one for a slot always asks for a drain, the
\* others only while the job is PENDING.
Repeat(j) ==
  /\ process = "up"
  /\ phase[j] = "queued" \/ (phase[j] # "absent" /\ j \in NewsJobs)
  /\ accepted' = accepted \cup {j}
  /\ UNCHANGED <<rows, handlers, process, busy, requested, drain, callback,
                 stops, errors, left>>

\* schedule_batch_drain.
BackgroundTask(j) ==
  /\ j \in accepted
  /\ accepted' = accepted \ {j}
  /\ StartDrain
  /\ UNCHANGED <<rows, handlers, process, busy, callback, stops, errors>>
-----------------------------------------------------------------------------
(***************************************************************************)
(* The drain.                                                              *)
(***************************************************************************)
Expired == {j \in Jobs : phase[j] = "running" /\ timer[j] = 0}
Spent == {j \in Jobs : tries[j] >= MaxAttempts}

Recovered == [j \in Jobs |-> IF j \notin Expired THEN phase[j]
                             ELSE IF j \in Spent THEN "ended" ELSE "queued"]

Claimable == {j \in Jobs : /\ Recovered[j] = "queued"
                           /\ timer[j] = 0
                           /\ tries[j] < MaxAttempts}

\* run_once finds a job.  The loop is first in, first out: the callback of the
\* last drain ran before the first step of this one.
RunOnce(j) ==
  /\ task = "run" /\ ~callback
  /\ j \in Claimable
  /\ phase' = [Recovered EXCEPT ![j] = "running"]
  /\ timer' = [timer EXCEPT ![j] = LeaseSeconds]
  /\ tries' = [tries EXCEPT ![j] = @ + 1]
  /\ task' = "execute"
  /\ doing' = j
  /\ left' = [left EXCEPT ![j] = "no"]
  /\ UNCHANGED <<requests, process, busy, requested, waited, callback, stops, errors>>

RunOnceIdle ==
  /\ task = "run" /\ ~callback
  /\ Claimable = {}
  /\ phase' = Recovered
  /\ task' = "lookup"
  /\ UNCHANGED <<timer, tries, requests, process, busy, requested, doing, waited,
                 callback, stops, errors, left>>

\* The dispatch is over: the job has ended, or failed, or its lease is lost.  The
\* drain stops the heartbeat and waits for what it started.
Dispatched ==
  /\ task = "execute"
  /\ task' = "settle"
  /\ \/ /\ phase' = [phase EXCEPT ![doing] = "ended"]
        /\ timer' = [timer EXCEPT ![doing] = 0]
     \/ /\ LeaseLeft(doing)
        /\ UNCHANGED phase
  /\ UNCHANGED <<tries, requests, process, busy, requested, doing, waited,
                 callback, stops, errors, left>>

Processed ==
  /\ task' = "run"
  /\ doing' = NoJob
  /\ waited' = NoWait

\* run_once returns; the release of a job whose lease has run out is void.
JobSettled ==
  /\ task = "settle"
  /\ phase[doing] = "ended" \/ timer[doing] = 0
  /\ Processed
  /\ UNCHANGED <<rows, requests, process, busy, requested, callback, stops,
                 errors, left>>

\* The dispatch failed: the job is released for another attempt, if it has one.
JobReleased(delay) ==
  /\ task = "settle"
  /\ phase[doing] = "running" /\ timer[doing] > 0
  /\ IF doing \in Spent
     THEN /\ phase' = [phase EXCEPT ![doing] = "ended"]
          /\ timer' = [timer EXCEPT ![doing] = 0]
          /\ UNCHANGED left
     ELSE /\ phase' = [phase EXCEPT ![doing] = "queued"]
          /\ timer' = [timer EXCEPT ![doing] = delay]
          /\ left' = IF delay > LeaseSeconds THEN [left EXCEPT ![doing] = "delay"]
                     ELSE left
  /\ Processed
  /\ UNCHANGED <<tries, requests, process, busy, requested, callback, stops, errors>>

GivesUp_Early == waited >= LeaseSeconds - 1

GivesUp == waited >= LeaseSeconds

Actionable_PendingOnly == \E j \in Jobs : phase[j] = "queued" /\ tries[j] < MaxAttempts

\* seconds_until_next_actionable_job is not None.
Actionable ==
  \E j \in Jobs : phase[j] = "running" \/ (phase[j] = "queued" /\ tries[j] < MaxAttempts)

LookupDone ==
  /\ task = "lookup"
  /\ IF ~Actionable \/ (waited # NoWait /\ GivesUp) THEN EndTask
     ELSE /\ task' = "sleep"
          /\ waited' = IF waited = NoWait THEN 0 ELSE waited
          /\ UNCHANGED <<doing, callback>>
  /\ UNCHANGED <<rows, requests, process, busy, requested, stops, errors, left>>

\* run_once or the lookup raises; a job whose release fails keeps its lease.
DrainFails ==
  /\ task \in {"run", "settle", "lookup"} /\ ~callback
  /\ errors < MaxErrors
  /\ errors' = errors + 1
  /\ EndTask
  /\ MayLeaveAll("error")
  /\ UNCHANGED <<rows, requests, process, busy, requested, stops>>

\* One poll interval passes.  The heartbeat keeps the lease of the job that is
\* executed; a sleeping drain wakes up.
Tick ==
  LET kept(j) == task = "execute" /\ j = doing IN
  /\ task \notin {"run", "lookup"}
  /\ task = "sleep" \/ \E j \in Jobs : timer[j] > 0 /\ ~kept(j)
  /\ timer' = [j \in Jobs |-> IF kept(j) \/ timer[j] = 0 THEN timer[j]
                              ELSE timer[j] - 1]
  /\ task' = IF task = "sleep" THEN "run" ELSE task
  /\ waited' = IF task = "sleep" THEN waited + 1 ELSE waited
  /\ UNCHANGED <<phase, tries, requests, process, busy, requested, doing,
                 callback, stops, errors, left>>

Drain ==
  \/ \E j \in Jobs : RunOnce(j)
  \/ RunOnceIdle \/ LookupDone
  \/ Dispatched \/ JobSettled \/ \E delay \in Delays : JobReleased(delay)

Handler(j) == Answered(j) \/ HandlerFails(j)
Unwind == Unwound \/ UnwindFails
Start == \E recovers \in StartupRecovery : Boot(recovers)

Next ==
  \/ Drain \/ DrainFails \/ Tick
  \/ \E j \in Jobs : Request(j) \/ Handler(j) \/ Repeat(j) \/ BackgroundTask(j)
  \/ DrainFinished \/ Shutdown \/ Unwind \/ ShutdownDone
  \/ Kill \/ Start

\* The event loop runs every callback and every task, handlers end, time passes,
\* and the container is started again.  Nobody has to send a request.
Spec ==
  /\ Init /\ [][Next]_vars
  /\ WF_vars(Drain) /\ WF_vars(Unwind) /\ WF_vars(DrainFinished) /\ WF_vars(ShutdownDone)
  /\ \A j \in Jobs : WF_vars(Handler(j)) /\ WF_vars(BackgroundTask(j))
  /\ WF_vars(Tick) /\ WF_vars(Start)
-----------------------------------------------------------------------------
SomebodyComes(j) ==
  \/ process # "up"
  \/ task # "none"
  \/ j \in handlers \/ accepted # {}
  \/ requested /\ callback

\* The settings and mishaps that let a job wait for a later request or restart.
MayBeLeft(j) ==
  \/ left[j] = "handler" /\ j \in NewsJobs
  \/ left[j] = "error" /\ errors > 0
  \/ left[j] = "delay" /\ \E delay \in Delays : delay > LeaseSeconds
  \/ left[j] = "restart" /\ FALSE \in StartupRecovery

\* An unfinished job that nobody is going to look at has one of four reasons: the
\* handler of a news slot failed after its commit, a drain met a database error,
\* the job was due later than a drain waits, or the process started with the
\* startup recovery off.  No lease, no delay up to a lease and no request is left,
\* with any settings (run_until_idle, start_drain, _drain_finished).
NoJobForgotten == \A j \in Unfinished : SomebodyComes(j) \/ MayBeLeft(j)

\* While shutdown() waits no drain starts, and only one that was executing a job
\* when it was cancelled may go on to another job; one that slept or looked for
\* work claims nothing more (InProcessBatchScheduler.shutdown).
OnlyABusyDrainGoesOn ==
  /\ process = "stopping" /\ task \notin {"none", "unwind"} => busy
  /\ process = "down" => task = "none"

\* A queued job ends, or may be left for a reason above; and if requests keep
\* coming in, as those of the external scheduler do, it ends whatever the reason
\* and the settings.
QueuedJobsEnd ==
  \A j \in Jobs :
    /\ phase[j] = "queued" ~> phase[j] = "ended" \/ MayBeLeft(j)
    /\ []<><<\E k \in Jobs : Repeat(k)>>_vars => (phase[j] = "queued" ~> phase[j] = "ended")
=============================================================================
