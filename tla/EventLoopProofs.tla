--------------------------- MODULE EventLoopProofs ---------------------------
(***************************************************************************)
(* Theorems about what lives on one event loop: the scheduler with its     *)
(* drain (BatchScheduler), for any number of jobs, attempts, stops and     *)
(* errors and any settings, and the Gemini client the jobs share           *)
(* (LlmClient), for any number of calls and any limits.                    *)
(***************************************************************************)
EXTENDS BatchScheduler, LlmClient, FiniteSetTheorems, SequenceTheorems,
        WellFoundedInduction, TLAPS

(***************************************************************************)
(* The scheduler.                                                          *)
(***************************************************************************)
\* What the types and the shutdown need to be inductive: a drain sleeps only
\* before its limit; it unwinds only in a shutdown, from a job only if it had one.
SleepsInTime == task = "sleep" => waited \in 0 .. LeaseSeconds - 1
UnwindsInShutdown == task = "unwind" => process = "stopping" /\ (doing # NoJob => busy)
DrainInv == TypeOK /\ SleepsInTime /\ UnwindsInShutdown /\ OnlyABusyDrainGoesOn

LEMMA DrainInit == Init => DrainInv
<1> SUFFICES ASSUME Init PROVE DrainInv
  OBVIOUS
<1>1. tries \in [Jobs -> 0 .. MaxAttempts] /\ timer \in [Jobs -> Nat]
  BY BatchSchedulerAssumption DEF Init
<1>2. waited \in NoWait .. LeaseSeconds
  BY BatchSchedulerAssumption DEF Init, NoWait
<1>3. TypeOK
  BY <1>1, <1>2 DEF Init, TypeOK
<1>4. QED
  BY <1>3 DEF Init, DrainInv, SleepsInTime, UnwindsInShutdown, OnlyABusyDrainGoesOn

LEMMA NewTaskType ==
  ASSUME TypeOK, task = "none", NewTask
  PROVE  /\ requested' = FALSE /\ task' = "run" /\ doing' = NoJob
         /\ waited' \in NoWait .. LeaseSeconds
         /\ left' \in [Jobs -> {"no", "handler", "delay", "error", "restart"}]
BY DEF NewTask, TypeOK

LEMMA EndTaskType ==
  ASSUME EndTask
  PROVE  /\ task' = "none" /\ doing' = NoJob /\ callback' = TRUE
         /\ waited' \in NoWait .. LeaseSeconds
BY BatchSchedulerAssumption DEF EndTask, NoWait

LEMMA LeaseLeftType ==
  ASSUME TypeOK, NEW j, LeaseLeft(j)
  PROVE  timer' \in [Jobs -> Nat]
<1>1. PICK rest \in 0 .. LeaseSeconds : timer' = [timer EXCEPT ![j] = rest]
  BY DEF LeaseLeft
<1>2. timer \in [Jobs -> Nat] /\ rest \in Nat
  BY BatchSchedulerAssumption DEF TypeOK
<1>3. QED
  BY <1>1, <1>2

LEMMA MayLeaveAllType ==
  ASSUME TypeOK, NEW why \in {"error", "restart"}, MayLeaveAll(why)
  PROVE  left' \in [Jobs -> {"no", "handler", "delay", "error", "restart"}]
BY DEF MayLeaveAll, TypeOK

LEMMA RecoveredType ==
  ASSUME TypeOK
  PROVE  Recovered \in [Jobs -> {"absent", "queued", "running", "ended"}]
BY DEF Recovered, TypeOK

\* A step that leaves the drain where it is, in the same process.
LEMMA SameDrain ==
  ASSUME DrainInv, UNCHANGED <<process, busy, drain>>
  PROVE  SleepsInTime' /\ UnwindsInShutdown' /\ OnlyABusyDrainGoesOn'
BY DEF DrainInv, drain, SleepsInTime, UnwindsInShutdown, OnlyABusyDrainGoesOn

LEMMA DrainStep == DrainInv /\ [Next]_vars => DrainInv'
<1> SUFFICES ASSUME DrainInv, [Next]_vars PROVE DrainInv'
  OBVIOUS
<1> USE BatchSchedulerAssumption
<1> DEFINE Rest == SleepsInTime' /\ UnwindsInShutdown' /\ OnlyABusyDrainGoesOn'
<1>inv. TypeOK /\ SleepsInTime /\ UnwindsInShutdown /\ OnlyABusyDrainGoesOn
  BY DEF DrainInv
<1>goal. ASSUME TypeOK', Rest PROVE DrainInv'
  BY <1>goal DEF DrainInv
<1>1. ASSUME NEW j \in Jobs, RunOnce(j) PROVE DrainInv'
  <2>1. phase' \in [Jobs -> {"absent", "queued", "running", "ended"}]
    BY <1>1, <1>inv, RecoveredType DEF RunOnce
  <2>2. timer' \in [Jobs -> Nat]
    BY <1>1, <1>inv DEF RunOnce, TypeOK
  <2>3. tries' \in [Jobs -> 0 .. MaxAttempts]
    BY <1>1, <1>inv DEF RunOnce, Claimable, TypeOK
  <2>4. left' \in [Jobs -> {"no", "handler", "delay", "error", "restart"}]
    BY <1>1, <1>inv DEF RunOnce, TypeOK
  <2>5. TypeOK'
    BY <1>1, <1>inv, <2>1, <2>2, <2>3, <2>4 DEF RunOnce, requests, TypeOK
  <2>6. Rest
    BY <1>1, <1>inv
       DEF RunOnce, SleepsInTime, UnwindsInShutdown, OnlyABusyDrainGoesOn
  <2>7. QED
    BY <2>5, <2>6, <1>goal
<1>2. ASSUME RunOnceIdle PROVE DrainInv'
  <2>1. TypeOK'
    BY <1>2, <1>inv, RecoveredType DEF RunOnceIdle, requests, TypeOK
  <2>2. Rest
    BY <1>2, <1>inv
       DEF RunOnceIdle, SleepsInTime, UnwindsInShutdown, OnlyABusyDrainGoesOn
  <2>3. QED
    BY <2>1, <2>2, <1>goal
<1>3. ASSUME LookupDone PROVE DrainInv'
  <2>1. CASE EndTask
    <3>1. TypeOK'
      BY <1>3, <1>inv, <2>1, EndTaskType DEF LookupDone, rows, requests, TypeOK
    <3>2. Rest
      BY <1>3, <1>inv, <2>1
         DEF LookupDone, EndTask, SleepsInTime, UnwindsInShutdown, OnlyABusyDrainGoesOn
    <3>3. QED
      BY <3>1, <3>2, <1>goal
  <2>2. CASE /\ ~(waited # NoWait /\ GivesUp)
             /\ task' = "sleep"
             /\ waited' = IF waited = NoWait THEN 0 ELSE waited
             /\ UNCHANGED <<doing, callback>>
    <3>1. waited' \in 0 .. LeaseSeconds - 1
      BY <2>2, <1>inv DEF GivesUp, TypeOK, NoWait
    <3>2. waited' \in NoWait .. LeaseSeconds
      BY <3>1 DEF NoWait
    <3>3. doing' = NoJob
      BY <1>3, <2>2, <1>inv DEF LookupDone, TypeOK
    <3>4. TypeOK'
      BY <1>3, <2>2, <1>inv, <3>2, <3>3 DEF LookupDone, rows, requests, TypeOK
    <3>5. Rest
      BY <1>3, <2>2, <1>inv, <3>1
         DEF LookupDone, SleepsInTime, UnwindsInShutdown, OnlyABusyDrainGoesOn
    <3>6. QED
      BY <3>4, <3>5, <1>goal
  <2>3. QED
    BY <1>3, <2>1, <2>2 DEF LookupDone
<1>4. ASSUME Dispatched PROVE DrainInv'
  <2>1. phase' \in [Jobs -> {"absent", "queued", "running", "ended"}]
    BY <1>4, <1>inv DEF Dispatched, TypeOK
  <2>2. timer' \in [Jobs -> Nat]
    BY <1>4, <1>inv, LeaseLeftType DEF Dispatched, TypeOK
  <2>3. TypeOK'
    BY <1>4, <1>inv, <2>1, <2>2 DEF Dispatched, requests, TypeOK
  <2>4. Rest
    BY <1>4, <1>inv
       DEF Dispatched, SleepsInTime, UnwindsInShutdown, OnlyABusyDrainGoesOn
  <2>5. QED
    BY <2>3, <2>4, <1>goal
<1>5. ASSUME JobSettled PROVE DrainInv'
  <2>1. waited' \in NoWait .. LeaseSeconds
    BY <1>5 DEF JobSettled, Processed, NoWait
  <2>2. TypeOK'
    BY <1>5, <1>inv, <2>1 DEF JobSettled, Processed, rows, requests, TypeOK
  <2>3. Rest
    BY <1>5, <1>inv
       DEF JobSettled, Processed, SleepsInTime, UnwindsInShutdown, OnlyABusyDrainGoesOn
  <2>4. QED
    BY <2>2, <2>3, <1>goal
<1>6. ASSUME NEW delay \in Delays, JobReleased(delay) PROVE DrainInv'
  <2>1. waited' \in NoWait .. LeaseSeconds
    BY <1>6 DEF JobReleased, Processed, NoWait
  <2>2. phase' \in [Jobs -> {"absent", "queued", "running", "ended"}]
    BY <1>6, <1>inv DEF JobReleased, TypeOK
  <2>3. delay \in Nat
    OBVIOUS
  <2>4. timer' \in [Jobs -> Nat]
    BY <1>6, <1>inv, <2>3 DEF JobReleased, TypeOK
  <2>5. left' \in [Jobs -> {"no", "handler", "delay", "error", "restart"}]
    BY <1>6, <1>inv DEF JobReleased, TypeOK
  <2>6. TypeOK'
    BY <1>6, <1>inv, <2>1, <2>2, <2>4, <2>5 DEF JobReleased, Processed, requests, TypeOK
  <2>7. Rest
    BY <1>6, <1>inv
       DEF JobReleased, Processed, SleepsInTime, UnwindsInShutdown, OnlyABusyDrainGoesOn
  <2>8. QED
    BY <2>6, <2>7, <1>goal
<1>7. ASSUME DrainFinished PROVE DrainInv'
  <2>1. CASE NewTask /\ task = "none" /\ process = "up"
    <3>1. TypeOK'
      BY <1>7, <1>inv, <2>1, NewTaskType DEF DrainFinished, rows, requests, TypeOK
    <3>2. Rest
      BY <1>7, <1>inv, <2>1
         DEF DrainFinished, NewTask, SleepsInTime, UnwindsInShutdown, OnlyABusyDrainGoesOn
    <3>3. QED
      BY <3>1, <3>2, <1>goal
  <2>2. CASE UNCHANGED <<requested, drain, left>>
    <3>1. TypeOK'
      BY <1>7, <1>inv, <2>2 DEF DrainFinished, rows, requests, drain, TypeOK
    <3>2. Rest
      BY <1>7, <2>2, SameDrain DEF DrainFinished
    <3>3. QED
      BY <3>1, <3>2, <1>goal
  <2>3. QED
    BY <1>7, <2>1, <2>2 DEF DrainFinished
<1>8. ASSUME NEW j \in Jobs, BackgroundTask(j) PROVE DrainInv'
  <2>1. CASE NewTask /\ task = "none" /\ process = "up"
    <3>1. TypeOK'
      BY <1>8, <1>inv, <2>1, NewTaskType DEF BackgroundTask, rows, TypeOK
    <3>2. Rest
      BY <1>8, <1>inv, <2>1
         DEF BackgroundTask, NewTask, SleepsInTime, UnwindsInShutdown, OnlyABusyDrainGoesOn
    <3>3. QED
      BY <3>1, <3>2, <1>goal
  <2>2. CASE UNCHANGED <<drain, left>> /\ requested' \in BOOLEAN
    <3>1. TypeOK'
      BY <1>8, <1>inv, <2>2 DEF BackgroundTask, rows, drain, TypeOK
    <3>2. Rest
      BY <1>8, <2>2, SameDrain DEF BackgroundTask
    <3>3. QED
      BY <3>1, <3>2, <1>goal
  <2>3. QED
    BY <1>8, <1>inv, <2>1, <2>2 DEF BackgroundTask, StartDrain, TypeOK
<1>9. ASSUME Tick PROVE DrainInv'
  <2>1. timer' \in [Jobs -> Nat]
    BY <1>9, <1>inv DEF Tick, TypeOK
  <2>2. waited' \in NoWait .. LeaseSeconds
    BY <1>9, <1>inv DEF Tick, TypeOK, SleepsInTime, NoWait
  <2>3. TypeOK'
    BY <1>9, <1>inv, <2>1, <2>2 DEF Tick, requests, TypeOK
  <2>4. Rest
    BY <1>9, <1>inv DEF Tick, SleepsInTime, UnwindsInShutdown, OnlyABusyDrainGoesOn
  <2>5. QED
    BY <2>3, <2>4, <1>goal
<1>10. ASSUME DrainFails PROVE DrainInv'
  <2>1. left' \in [Jobs -> {"no", "handler", "delay", "error", "restart"}]
    BY <1>10, <1>inv, MayLeaveAllType DEF DrainFails
  <2>2. TypeOK'
    BY <1>10, <1>inv, <2>1, EndTaskType DEF DrainFails, rows, requests, TypeOK
  <2>3. Rest
    BY <1>10, <1>inv
       DEF DrainFails, EndTask, SleepsInTime, UnwindsInShutdown, OnlyABusyDrainGoesOn
  <2>4. QED
    BY <2>2, <2>3, <1>goal
<1>11. ASSUME NEW j \in Jobs, Request(j) PROVE DrainInv'
  <2>1. TypeOK'
    BY <1>11, <1>inv DEF Request, drain, TypeOK
  <2>2. QED
    BY <1>11, <2>1, SameDrain, <1>goal DEF Request
<1>12. ASSUME NEW j \in Jobs, Answered(j) PROVE DrainInv'
  <2>1. TypeOK'
    BY <1>12, <1>inv DEF Answered, rows, drain, TypeOK
  <2>2. QED
    BY <1>12, <2>1, SameDrain, <1>goal DEF Answered
<1>13. ASSUME NEW j \in Jobs, HandlerFails(j) PROVE DrainInv'
  <2>1. TypeOK'
    BY <1>13, <1>inv DEF HandlerFails, rows, drain, TypeOK
  <2>2. QED
    BY <1>13, <2>1, SameDrain, <1>goal DEF HandlerFails
<1>14. ASSUME NEW j \in Jobs, Repeat(j) PROVE DrainInv'
  <2>1. TypeOK'
    BY <1>14, <1>inv DEF Repeat, rows, drain, TypeOK
  <2>2. QED
    BY <1>14, <2>1, SameDrain, <1>goal DEF Repeat
<1>15. ASSUME Shutdown PROVE DrainInv'
  <2>1. timer' \in [Jobs -> Nat]
    BY <1>15, <1>inv, LeaseLeftType DEF Shutdown, TypeOK
  <2>2. doing' \in {doing, NoJob} /\ task' \in {"none", "settle", "unwind"}
        /\ (task' = "settle" => doing' # NoJob) /\ (doing' # NoJob => task' \in {"settle", "unwind"})
    BY <1>15, <1>inv DEF Shutdown, TypeOK
  <2>3. TypeOK'
    BY <1>15, <1>inv, <2>1, <2>2 DEF Shutdown, requests, TypeOK
  <2>4. busy' = (doing # NoJob) /\ process' = "stopping"
    BY <1>15 DEF Shutdown
  <2>5. Rest
    BY <2>2, <2>4 DEF SleepsInTime, UnwindsInShutdown, OnlyABusyDrainGoesOn
  <2>6. QED
    BY <2>3, <2>5, <1>goal
<1>16. ASSUME Unwound PROVE DrainInv'
  <2>1. TypeOK'
    BY <1>16, <1>inv, EndTaskType DEF Unwound, rows, requests, TypeOK
  <2>2. Rest
    BY <1>16, <1>inv
       DEF Unwound, EndTask, SleepsInTime, UnwindsInShutdown, OnlyABusyDrainGoesOn
  <2>3. QED
    BY <2>1, <2>2, <1>goal
<1>17. ASSUME UnwindFails PROVE DrainInv'
  <2>1. TypeOK'
    BY <1>17, <1>inv DEF UnwindFails, rows, requests, TypeOK
  <2>2. Rest
    BY <1>17, <1>inv
       DEF UnwindFails, SleepsInTime, UnwindsInShutdown, OnlyABusyDrainGoesOn
  <2>3. QED
    BY <2>1, <2>2, <1>goal
<1>18. ASSUME ShutdownDone PROVE DrainInv'
  <2>1. TypeOK'
    BY <1>18, <1>inv DEF ShutdownDone, rows, drain, TypeOK
  <2>2. Rest
    BY <1>18, <1>inv
       DEF ShutdownDone, drain, SleepsInTime, UnwindsInShutdown, OnlyABusyDrainGoesOn
  <2>3. QED
    BY <2>1, <2>2, <1>goal
<1>19. ASSUME Kill PROVE DrainInv'
  <2>1. timer' \in [Jobs -> Nat]
    BY <1>19, <1>inv, LeaseLeftType DEF Kill, TypeOK
  <2>2. waited' \in NoWait .. LeaseSeconds
    BY <1>19 DEF Kill, NoWait
  <2>3. TypeOK'
    BY <1>19, <1>inv, <2>1, <2>2 DEF Kill, TypeOK
  <2>4. Rest
    BY <1>19 DEF Kill, SleepsInTime, UnwindsInShutdown, OnlyABusyDrainGoesOn
  <2>5. QED
    BY <2>3, <2>4, <1>goal
<1>20. ASSUME NEW recovers \in StartupRecovery, Boot(recovers) PROVE DrainInv'
  <2>1. task = "none" /\ process' = "up"
    BY <1>20, <1>inv DEF Boot, OnlyABusyDrainGoesOn
  <2>2. CASE NewTask
    <3>1. TypeOK'
      BY <1>20, <1>inv, <2>1, <2>2, NewTaskType DEF Boot, rows, requests, TypeOK
    <3>2. Rest
      BY <2>1, <2>2 DEF NewTask, SleepsInTime, UnwindsInShutdown, OnlyABusyDrainGoesOn
    <3>3. QED
      BY <3>1, <3>2, <1>goal
  <2>3. CASE MayLeaveAll("restart") /\ UNCHANGED <<requested, drain>>
    <3>1. left' \in [Jobs -> {"no", "handler", "delay", "error", "restart"}]
      BY <1>inv, <2>3, MayLeaveAllType
    <3>2. TypeOK'
      BY <1>20, <1>inv, <2>1, <2>3, <3>1 DEF Boot, rows, requests, drain, TypeOK
    <3>3. Rest
      BY <2>1, <2>3 DEF drain, SleepsInTime, UnwindsInShutdown, OnlyABusyDrainGoesOn
    <3>4. QED
      BY <3>2, <3>3, <1>goal
  <2>4. QED
    BY <1>20, <2>2, <2>3 DEF Boot
<1>21. CASE UNCHANGED vars
  <2>1. TypeOK'
    BY <1>21, <1>inv DEF vars, rows, requests, drain, TypeOK
  <2>2. QED
    BY <1>21, <2>1, SameDrain, <1>goal DEF vars
<1>22. QED
  BY <1>1, <1>2, <1>3, <1>4, <1>5, <1>6, <1>7, <1>8, <1>9, <1>10, <1>11, <1>12, <1>13,
     <1>14, <1>15, <1>16, <1>17, <1>18, <1>19, <1>20, <1>21
     DEF Next, Drain, Handler, Unwind, Start

LEMMA DrainInvariant == Spec => []DrainInv
BY DrainInit, DrainStep, PTL DEF Spec

\* Every variable of the scheduler keeps its type; a drain never waits longer
\* than one lease (run_until_idle).
THEOREM TypeCorrect == Spec => []TypeOK
<1>1. DrainInv => TypeOK
  BY DEF DrainInv
<1>2. QED
  BY <1>1, DrainInvariant, PTL

\* While shutdown() awaits the drain it cancelled, no callback and no late
\* background task starts another, and the drain goes on to further jobs only if
\* it was executing one; when shutdown() is over no drain is at work
\* (InProcessBatchScheduler.shutdown, _dispatch_with_heartbeat).
THEOREM ShutdownEndsAllOthers == Spec => []OnlyABusyDrainGoesOn
<1>1. DrainInv => OnlyABusyDrainGoesOn
  BY DEF DrainInv
<1>2. QED
  BY <1>1, DrainInvariant, PTL
-----------------------------------------------------------------------------
(***************************************************************************)
(* Why no job is forgotten: a drain that gives up has outwaited every      *)
(* lease and every delay up to a lease that it found, and what came due    *)
(* behind its back was asked for.                                          *)
(***************************************************************************)
\* A job nobody asked for has no timer and has spent nothing.
FreshJobs == \A j \in Jobs : phase[j] = "absent" => timer[j] = 0 /\ tries[j] = 0
\* A queued job has an attempt left.
QueuedCanRun == \A j \in Jobs : phase[j] = "queued" => tries[j] < MaxAttempts
DoingIsKnown == doing # NoJob => phase[doing] # "absent" /\ phase[doing] # "queued"
\* Only a queued job that may be left has more than a lease to wait, and only if
\* some delay is as long.
TimersBounded ==
  \A j \in Jobs : timer[j] > LeaseSeconds => phase[j] = "queued" /\ left[j] # "no"
LongTimers ==
  \A j \in Jobs : timer[j] > LeaseSeconds => \E delay \in Delays : delay > LeaseSeconds
\* A job is only left for what can happen.
LeftForAReason == \A j \in Jobs : left[j] # "no" => MayBeLeft(j)
\* Timers run down at least as fast as the wait grows.
Outwaits ==
  task \in {"run", "lookup", "sleep"} /\ waited # NoWait =>
    \A j \in Unfinished : left[j] = "no" => timer[j] + waited <= LeaseSeconds
NoTaskNoWait == task = "none" => waited = NoWait
\* What the look-up finds due was asked for since the drain looked for work.
DueWasAskedFor ==
  task = "lookup" /\ process = "up" =>
    \A j \in Unfinished : timer[j] = 0 /\ left[j] = "no" =>
      j \in handlers \/ accepted # {} \/ requested

WaitInv ==
  /\ FreshJobs /\ QueuedCanRun /\ DoingIsKnown /\ TimersBounded /\ LongTimers
  /\ LeftForAReason /\ Outwaits /\ NoTaskNoWait /\ DueWasAskedFor
Noticed == \A j \in Unfinished : left[j] = "no" => SomebodyComes(j)
SchedulerInv == DrainInv /\ WaitInv /\ Noticed

LEMMA WaitInit == Init => WaitInv /\ Noticed
<1> SUFFICES ASSUME Init PROVE WaitInv /\ Noticed
  OBVIOUS
<1>1. FreshJobs /\ QueuedCanRun /\ DoingIsKnown /\ NoTaskNoWait /\ DueWasAskedFor
  BY BatchSchedulerAssumption
     DEF Init, FreshJobs, QueuedCanRun, DoingIsKnown, NoTaskNoWait, DueWasAskedFor
<1>2. TimersBounded /\ LongTimers
  BY BatchSchedulerAssumption DEF Init, TimersBounded, LongTimers
<1>3. Outwaits /\ LeftForAReason
  BY DEF Init, Outwaits, LeftForAReason
<1>4. Unfinished = {}
  BY DEF Init, Unfinished
<1>5. QED
  BY <1>1, <1>2, <1>3, <1>4 DEF WaitInv, Noticed

LEMMA RecoveredJobs ==
  ASSUME TypeOK, WaitInv, NEW j \in Jobs
  PROVE  /\ Recovered[j] = "absent" => phase[j] = "absent"
         /\ Recovered[j] = "queued" => tries[j] < MaxAttempts
         /\ Recovered[j] = "running" => phase[j] = "running" /\ timer[j] # 0
         /\ Recovered[j] \in {"queued", "running"} => phase[j] \in {"queued", "running"}
         /\ phase[j] = "queued" => Recovered[j] = "queued"
<1>1. tries[j] \in Nat /\ MaxAttempts \in Nat
  BY BatchSchedulerAssumption DEF TypeOK
<1>2. phase[j] = "queued" => tries[j] < MaxAttempts
  BY DEF WaitInv, QueuedCanRun
<1>3. CASE j \in Expired
  BY <1>1, <1>3 DEF Recovered, Expired, Spent
<1>4. CASE j \notin Expired
  BY <1>2, <1>4 DEF Recovered, Expired
<1>5. QED
  BY <1>3, <1>4

\* A step that leaves the rows and the reasons alone.
LEMMA SameRows ==
  ASSUME WaitInv, UNCHANGED <<rows, left>>, errors' = errors
  PROVE  /\ FreshJobs' /\ QueuedCanRun' /\ TimersBounded' /\ LongTimers' /\ LeftForAReason'
         /\ Unfinished' = Unfinished
         /\ UNCHANGED doing \/ doing' = NoJob => DoingIsKnown'
<1>1. phase' = phase /\ timer' = timer /\ tries' = tries /\ left' = left /\ errors' = errors
  BY DEF rows
<1>2. Unfinished' = Unfinished
  BY <1>1 DEF Unfinished
<1>3. FreshJobs' /\ QueuedCanRun'
  BY <1>1 DEF WaitInv, FreshJobs, QueuedCanRun
<1>4. TimersBounded' /\ LongTimers'
  BY <1>1 DEF WaitInv, TimersBounded, LongTimers
<1>5. LeftForAReason'
  BY <1>1 DEF WaitInv, LeftForAReason, MayBeLeft
<1>6. UNCHANGED doing \/ doing' = NoJob => DoingIsKnown'
  BY <1>1 DEF WaitInv, DoingIsKnown
<1>7. QED
  BY <1>2, <1>3, <1>4, <1>5, <1>6

\* A new drain answers for all that is due within a lease.
LEMMA NewTaskWaits ==
  ASSUME TypeOK, WaitInv, task = "none", NewTask, UNCHANGED rows, errors' = errors
  PROVE  WaitInv' /\ Noticed'
<1>1. phase' = phase /\ timer' = timer /\ tries' = tries /\ errors' = errors
  BY DEF rows
<1>2. FreshJobs' /\ QueuedCanRun'
  BY <1>1 DEF WaitInv, FreshJobs, QueuedCanRun
<1>3. DoingIsKnown'
  BY <1>1 DEF NewTask, WaitInv, DoingIsKnown
<1>4. left' = [j \in Jobs |-> IF phase[j] = "queued" /\ timer[j] > LeaseSeconds
                              THEN "delay" ELSE "no"]
  BY DEF NewTask
<1>5. TimersBounded' /\ LongTimers'
  BY <1>1, <1>4 DEF WaitInv, TimersBounded, LongTimers
<1>6. LeftForAReason'
  BY <1>1, <1>4 DEF WaitInv, LongTimers, LeftForAReason, MayBeLeft
<1>7. task' = "run" /\ waited' = NoWait
  BY DEF NewTask, WaitInv, NoTaskNoWait
<1>8. QED
  BY <1>2, <1>3, <1>5, <1>6, <1>7
     DEF WaitInv, Outwaits, NoTaskNoWait, DueWasAskedFor, Noticed, SomebodyComes

\* When a heartbeat stops, the job keeps part of its lease.
LEMMA LeaseLeftBounded ==
  ASSUME TypeOK, WaitInv, doing # NoJob, LeaseLeft(doing), UNCHANGED <<phase, tries>>
  PROVE  /\ FreshJobs' /\ LongTimers'
         /\ left' = left => TimersBounded'
<1>1. PICK rest \in 0 .. LeaseSeconds : timer' = [timer EXCEPT ![doing] = rest]
  BY DEF LeaseLeft
<1>2. timer \in [Jobs -> Nat] /\ doing \in Jobs /\ phase[doing] # "absent"
  BY DEF TypeOK, WaitInv, DoingIsKnown
<1>3. \A j \in Jobs : timer'[j] = IF j = doing THEN rest ELSE timer[j]
  BY <1>1, <1>2
<1>4. rest <= LeaseSeconds /\ ~(rest > LeaseSeconds)
  BY BatchSchedulerAssumption
<1>5. FreshJobs'
  BY <1>2, <1>3 DEF WaitInv, FreshJobs
<1>6. LongTimers'
  BY <1>3, <1>4 DEF WaitInv, LongTimers
<1>7. left' = left => TimersBounded'
  BY <1>3, <1>4 DEF WaitInv, TimersBounded
<1>8. QED
  BY <1>5, <1>6, <1>7

LEMMA MayLeaveAllTrue ==
  ASSUME TypeOK, WaitInv, NEW why \in {"error", "restart"}, MayLeaveAll(why), UNCHANGED rows,
         why = "error" => errors' > 0,
         why = "restart" => FALSE \in StartupRecovery,
         errors > 0 => errors' > 0
  PROVE  /\ FreshJobs' /\ QueuedCanRun' /\ TimersBounded' /\ LongTimers' /\ LeftForAReason'
         /\ Unfinished' = Unfinished
         /\ \A j \in Unfinished : left'[j] # "no"
<1>1. phase' = phase /\ timer' = timer /\ tries' = tries
  BY DEF rows
<1>2. Unfinished' = Unfinished
  BY <1>1 DEF Unfinished
<1>3. \A j \in Jobs : left'[j] = IF j \in Unfinished THEN why ELSE left[j]
  BY DEF MayLeaveAll
<1>4. FreshJobs' /\ QueuedCanRun'
  BY <1>1 DEF WaitInv, FreshJobs, QueuedCanRun
<1>5. TimersBounded' /\ LongTimers'
  BY <1>1, <1>3 DEF WaitInv, TimersBounded, LongTimers
<1>6. LeftForAReason'
  BY <1>3 DEF WaitInv, LeftForAReason, MayBeLeft
<1>7. \A j \in Unfinished : left'[j] # "no"
  BY <1>3 DEF Unfinished
<1>8. QED
  BY <1>2, <1>4, <1>5, <1>6, <1>7

LEMMA WaitStep ==
  ASSUME SchedulerInv, [Next]_vars
  PROVE  WaitInv' /\ Noticed'
<1> USE BatchSchedulerAssumption
<1> DEFINE Goal == WaitInv' /\ Noticed'
<1> DEFINE Rows == FreshJobs' /\ QueuedCanRun' /\ TimersBounded' /\ LongTimers' /\ LeftForAReason'
<1> DEFINE Waits == Outwaits' /\ NoTaskNoWait' /\ DueWasAskedFor'
<1>inv. /\ TypeOK /\ SleepsInTime /\ UnwindsInShutdown /\ OnlyABusyDrainGoesOn
        /\ WaitInv /\ Noticed
  BY DEF SchedulerInv, DrainInv
<1>types. /\ timer \in [Jobs -> Nat] /\ tries \in [Jobs -> 0 .. MaxAttempts]
       /\ phase \in [Jobs -> {"absent", "queued", "running", "ended"}]
       /\ left \in [Jobs -> {"no", "handler", "delay", "error", "restart"}]
       /\ waited \in NoWait .. LeaseSeconds /\ doing \in Jobs \cup {NoJob}
       /\ (task \in {"execute", "settle"} => doing # NoJob)
       /\ (doing # NoJob => task \in {"execute", "settle", "unwind"})
  BY <1>inv DEF TypeOK
<1>parts. /\ FreshJobs /\ QueuedCanRun /\ DoingIsKnown /\ TimersBounded /\ LongTimers
        /\ LeftForAReason /\ Outwaits /\ NoTaskNoWait /\ DueWasAskedFor
  BY <1>inv DEF WaitInv
<1>goal. ASSUME Rows, DoingIsKnown', Waits, Noticed' PROVE Goal
  BY <1>goal DEF WaitInv
<1>1. ASSUME NEW j \in Jobs, RunOnce(j) PROVE Goal
  <2>1. \A i \in Jobs : /\ phase'[i] = IF i = j THEN "running" ELSE Recovered[i]
                        /\ timer'[i] = IF i = j THEN LeaseSeconds ELSE timer[i]
                        /\ left'[i] = IF i = j THEN "no" ELSE left[i]
    BY <1>1, <1>types DEF RunOnce, Recovered
  <2>2. \A i \in Jobs : i # j => tries'[i] = tries[i]
    BY <1>1, <1>types DEF RunOnce
  <2>3. FreshJobs'
    BY <2>1, <2>2, <1>inv, <1>parts, RecoveredJobs DEF FreshJobs
  <2>4. QueuedCanRun'
    BY <2>1, <2>2, <1>inv, RecoveredJobs DEF QueuedCanRun
  <2>5. TimersBounded' /\ LongTimers'
    BY <2>1, <1>inv, <1>parts, RecoveredJobs DEF TimersBounded, LongTimers
  <2>6. LeftForAReason'
    BY <1>1, <2>1, <1>parts DEF RunOnce, LeftForAReason, MayBeLeft
  <2>7. DoingIsKnown'
    BY <1>1, <2>1 DEF RunOnce, DoingIsKnown
  <2>8. task' = "execute"
    BY <1>1 DEF RunOnce
  <2>9. Waits /\ Noticed'
    BY <2>8 DEF Outwaits, NoTaskNoWait, DueWasAskedFor, Noticed, SomebodyComes
  <2>10. QED
    BY <2>3, <2>4, <2>5, <2>6, <2>7, <2>9, <1>goal
<1>2. ASSUME RunOnceIdle PROVE Goal
  <2>1. /\ phase' = Recovered /\ task' = "lookup" /\ task = "run" /\ Claimable = {}
        /\ UNCHANGED <<timer, tries, left, errors, doing, waited>>
    BY <1>2 DEF RunOnceIdle
  <2>2. FreshJobs'
    BY <2>1, <1>inv, <1>parts, RecoveredJobs DEF FreshJobs
  <2>3. QueuedCanRun'
    BY <2>1, <1>inv, RecoveredJobs DEF QueuedCanRun
  <2>4. TimersBounded' /\ LongTimers'
    BY <2>1, <1>inv, <1>parts, RecoveredJobs DEF TimersBounded, LongTimers
  <2>5. LeftForAReason'
    BY <2>1, <1>parts DEF LeftForAReason, MayBeLeft
  <2>6. DoingIsKnown'
    BY <2>1, <1>types DEF DoingIsKnown
  <2>7. Unfinished' \subseteq Unfinished
    BY <2>1, <1>inv, RecoveredJobs DEF Unfinished
  <2>8. \A i \in Unfinished' : timer'[i] # 0
    BY <2>1, <1>inv, RecoveredJobs DEF Unfinished, Claimable
  <2>9. Outwaits' /\ NoTaskNoWait'
    BY <2>1, <2>7, <1>parts DEF Outwaits, NoTaskNoWait
  <2>10. DueWasAskedFor' /\ Noticed'
    BY <2>1, <2>8 DEF DueWasAskedFor, Noticed, SomebodyComes
  <2>11. QED
    BY <2>2, <2>3, <2>4, <2>5, <2>6, <2>9, <2>10, <1>goal
<1>3. ASSUME LookupDone PROVE Goal
  <2>1. Rows /\ Unfinished' = Unfinished
    BY <1>3, <1>inv, SameRows DEF LookupDone
  <2>2. /\ task = "lookup" /\ UNCHANGED <<process, handlers, accepted, requested, left, timer>>
        /\ doing = NoJob
    BY <1>3, <1>types DEF LookupDone, rows, requests
  <2>3. DoingIsKnown'
    BY <1>3, <2>2 DEF LookupDone, EndTask, DoingIsKnown
  <2>4. CASE EndTask /\ (~Actionable \/ (waited # NoWait /\ GivesUp))
    <3>1. Waits
      BY <2>4 DEF EndTask, Outwaits, NoTaskNoWait, DueWasAskedFor
    <3>2. \A i \in Unfinished : left[i] = "no" => timer[i] = 0
      <4>1. CASE ~Actionable
        BY <4>1, <1>parts DEF Actionable, QueuedCanRun, Unfinished
      <4>2. CASE waited # NoWait /\ GivesUp
        BY <4>2, <2>2, <1>types, <1>parts DEF GivesUp, Outwaits, NoWait, Unfinished
      <4>3. QED
        BY <2>4, <4>1, <4>2
    <3>3. process = "up" => \A i \in Unfinished : left[i] = "no" =>
            i \in handlers \/ accepted # {} \/ requested
      BY <2>2, <3>2, <1>parts DEF DueWasAskedFor
    <3>4. callback' = TRUE
      BY <2>4 DEF EndTask
    <3>5. Noticed'
      BY <2>1, <2>2, <3>3, <3>4 DEF Noticed, SomebodyComes
    <3>6. QED
      BY <2>1, <2>3, <3>1, <3>5, <1>goal
  <2>5. CASE task' = "sleep" /\ waited' = IF waited = NoWait THEN 0 ELSE waited
    <3>1. Outwaits'
      <4>1. CASE waited = NoWait
        BY <2>1, <2>2, <2>5, <4>1, <1>types, <1>parts
           DEF Outwaits, TimersBounded, Unfinished
      <4>2. CASE waited # NoWait
        BY <2>1, <2>2, <2>5, <4>2, <1>parts DEF Outwaits
      <4>3. QED
        BY <4>1, <4>2
    <3>2. NoTaskNoWait' /\ DueWasAskedFor' /\ Noticed'
      BY <2>5 DEF NoTaskNoWait, DueWasAskedFor, Noticed, SomebodyComes
    <3>3. QED
      BY <2>1, <2>3, <3>1, <3>2, <1>goal
  <2>6. QED
    BY <1>3, <2>4, <2>5 DEF LookupDone
<1>4. ASSUME Dispatched PROVE Goal
  <2>1. /\ task' = "settle" /\ doing \in Jobs /\ doing # NoJob
        /\ UNCHANGED <<tries, doing, left, errors>>
    BY <1>4, <1>types DEF Dispatched
  <2>2. Waits /\ Noticed'
    BY <2>1 DEF Outwaits, NoTaskNoWait, DueWasAskedFor, Noticed, SomebodyComes
  <2>3. LeftForAReason'
    BY <2>1, <1>parts DEF LeftForAReason, MayBeLeft
  <2>4. CASE /\ phase' = [phase EXCEPT ![doing] = "ended"]
             /\ timer' = [timer EXCEPT ![doing] = 0]
    <3>1. FreshJobs' /\ QueuedCanRun' /\ DoingIsKnown'
      BY <2>1, <2>4, <1>types, <1>parts DEF FreshJobs, QueuedCanRun, DoingIsKnown
    <3>2. TimersBounded' /\ LongTimers'
      BY <2>1, <2>4, <1>types, <1>parts DEF TimersBounded, LongTimers
    <3>3. QED
      BY <2>2, <2>3, <3>1, <3>2, <1>goal
  <2>5. CASE LeaseLeft(doing) /\ UNCHANGED phase
    <3>1. FreshJobs' /\ LongTimers' /\ TimersBounded'
      BY <2>1, <2>5, <1>inv, LeaseLeftBounded
    <3>2. QueuedCanRun' /\ DoingIsKnown'
      BY <2>1, <2>5, <1>parts DEF QueuedCanRun, DoingIsKnown
    <3>3. QED
      BY <2>2, <2>3, <3>1, <3>2, <1>goal
  <2>6. QED
    BY <1>4, <2>4, <2>5 DEF Dispatched
<1>5. ASSUME JobSettled PROVE Goal
  <2>1. Rows
    BY <1>5, <1>inv, SameRows DEF JobSettled
  <2>2. task' = "run" /\ doing' = NoJob /\ waited' = NoWait
    BY <1>5 DEF JobSettled, Processed
  <2>3. QED
    BY <2>1, <2>2, <1>goal
       DEF DoingIsKnown, Outwaits, NoTaskNoWait, DueWasAskedFor, Noticed, SomebodyComes
<1>6. ASSUME NEW delay \in Delays, JobReleased(delay) PROVE Goal
  <2>1. /\ task' = "run" /\ doing' = NoJob /\ waited' = NoWait /\ doing \in Jobs
        /\ UNCHANGED <<tries, errors>>
    BY <1>6, <1>types DEF JobReleased, Processed
  <2>2. DoingIsKnown' /\ Waits /\ Noticed'
    BY <2>1
       DEF DoingIsKnown, Outwaits, NoTaskNoWait, DueWasAskedFor, Noticed, SomebodyComes
  <2>3. CASE doing \in Spent
    <3>1. /\ phase' = [phase EXCEPT ![doing] = "ended"]
          /\ timer' = [timer EXCEPT ![doing] = 0] /\ left' = left
      BY <1>6, <2>3 DEF JobReleased
    <3>2. FreshJobs' /\ QueuedCanRun'
      BY <2>1, <3>1, <1>types, <1>parts DEF FreshJobs, QueuedCanRun
    <3>3. TimersBounded' /\ LongTimers'
      BY <2>1, <3>1, <1>types, <1>parts DEF TimersBounded, LongTimers
    <3>4. LeftForAReason'
      BY <2>1, <3>1, <1>parts DEF LeftForAReason, MayBeLeft
    <3>5. QED
      BY <2>2, <3>2, <3>3, <3>4, <1>goal
  <2>4. CASE doing \notin Spent
    <3>1. /\ phase' = [phase EXCEPT ![doing] = "queued"]
          /\ timer' = [timer EXCEPT ![doing] = delay]
          /\ left' = IF delay > LeaseSeconds THEN [left EXCEPT ![doing] = "delay"] ELSE left
      BY <1>6, <2>4 DEF JobReleased
    <3>2. FreshJobs' /\ QueuedCanRun'
      BY <2>1, <2>4, <3>1, <1>types, <1>parts DEF Spent, FreshJobs, QueuedCanRun
    <3>3. TimersBounded' /\ LongTimers'
      BY <2>1, <3>1, <1>types, <1>parts DEF TimersBounded, LongTimers
    <3>4. LeftForAReason'
      BY <2>1, <3>1, <1>types, <1>parts DEF LeftForAReason, MayBeLeft
    <3>5. QED
      BY <2>2, <3>2, <3>3, <3>4, <1>goal
  <2>5. QED
    BY <2>3, <2>4
<1>7. ASSUME DrainFinished PROVE Goal
  <2>1. UNCHANGED <<rows, handlers, accepted, process, errors>>
    BY <1>7 DEF DrainFinished, requests
  <2>2. CASE NewTask /\ task = "none"
    BY <2>1, <2>2, <1>inv, NewTaskWaits
  <2>3. CASE /\ UNCHANGED <<requested, drain, left>>
             /\ ~(requested /\ task = "none" /\ process = "up")
    <3>1. Rows /\ Unfinished' = Unfinished /\ DoingIsKnown'
      BY <2>1, <2>3, <1>inv, SameRows DEF drain
    <3>2. UNCHANGED <<task, waited, timer, left, requested>>
      BY <2>1, <2>3 DEF drain, rows
    <3>3. Waits
      BY <2>1, <3>1, <3>2, <1>parts DEF Outwaits, NoTaskNoWait, DueWasAskedFor
    <3>4. Noticed'
      BY <2>1, <2>3, <3>1, <3>2, <1>inv DEF Noticed, SomebodyComes
    <3>5. QED
      BY <3>1, <3>3, <3>4, <1>goal
  <2>4. QED
    BY <1>7, <2>2, <2>3 DEF DrainFinished
<1>8. ASSUME NEW j \in Jobs, BackgroundTask(j) PROVE Goal
  <2>1. UNCHANGED <<rows, handlers, process, errors, callback>>
    BY <1>8 DEF BackgroundTask
  <2>2. CASE process # "up" /\ UNCHANGED <<requested, drain, left>>
    <3>1. Rows /\ Unfinished' = Unfinished /\ DoingIsKnown'
      BY <2>1, <2>2, <1>inv, SameRows DEF drain
    <3>2. UNCHANGED <<task, waited, timer, left>>
      BY <2>1, <2>2 DEF drain, rows
    <3>3. Waits /\ Noticed'
      BY <2>1, <2>2, <3>1, <3>2, <1>parts
         DEF Outwaits, NoTaskNoWait, DueWasAskedFor, Noticed, SomebodyComes
    <3>4. QED
      BY <3>1, <3>3, <1>goal
  <2>3. CASE task = "none" /\ NewTask
    BY <2>1, <2>3, <1>inv, NewTaskWaits
  <2>4. CASE task # "none" /\ requested' = TRUE /\ UNCHANGED <<drain, left>>
    <3>1. Rows /\ Unfinished' = Unfinished /\ DoingIsKnown'
      BY <2>1, <2>4, <1>inv, SameRows DEF drain
    <3>2. UNCHANGED <<task, waited, timer, left>>
      BY <2>1, <2>4 DEF drain, rows
    <3>3. Waits /\ Noticed'
      BY <2>1, <2>4, <3>1, <3>2, <1>parts
         DEF Outwaits, NoTaskNoWait, DueWasAskedFor, Noticed, SomebodyComes
    <3>4. QED
      BY <3>1, <3>3, <1>goal
  <2>5. QED
    BY <1>8, <2>2, <2>3, <2>4 DEF BackgroundTask, StartDrain
<1>9. ASSUME Tick PROVE Goal
  <2>1. /\ UNCHANGED <<phase, tries, process, handlers, accepted, requested, doing, callback,
                       errors, left>>
        /\ task \notin {"run", "lookup"}
    BY <1>9 DEF Tick, requests
  <2>2. \A i \in Jobs : /\ timer'[i] \in {timer[i], timer[i] - 1} /\ timer'[i] \in Nat
                        /\ task = "sleep" /\ timer[i] # 0 => timer'[i] = timer[i] - 1
    BY <1>9, <1>types DEF Tick
  <2>3. FreshJobs' /\ QueuedCanRun' /\ DoingIsKnown'
    BY <2>1, <2>2, <1>types, <1>parts DEF FreshJobs, QueuedCanRun, DoingIsKnown
  <2>4. \A i \in Jobs : timer'[i] > LeaseSeconds => timer[i] > LeaseSeconds
    BY <2>2, <1>types
  <2>5. TimersBounded' /\ LongTimers'
    BY <2>1, <2>4, <1>parts DEF TimersBounded, LongTimers
  <2>6. LeftForAReason'
    BY <2>1, <1>parts DEF LeftForAReason, MayBeLeft
  <2>7. Unfinished' = Unfinished
    BY <2>1 DEF Unfinished
  <2>8. CASE task = "sleep"
    <3>1. /\ waited \in 0 .. LeaseSeconds - 1 /\ task' = "run" /\ waited' = waited + 1
          /\ waited # NoWait
      BY <1>9, <2>8, <1>inv DEF Tick, SleepsInTime, NoWait
    <3>2. \A i \in Unfinished : left[i] = "no" => timer[i] + waited <= LeaseSeconds
      BY <2>8, <3>1, <1>parts DEF Outwaits
    <3>3. \A i \in Unfinished : left[i] = "no" => timer'[i] + waited' <= LeaseSeconds
      BY <2>2, <2>8, <3>1, <3>2, <1>types DEF Unfinished
    <3>4. Waits /\ Noticed'
      BY <2>1, <2>7, <3>1, <3>3
         DEF Outwaits, NoTaskNoWait, DueWasAskedFor, Noticed, SomebodyComes
    <3>5. QED
      BY <2>3, <2>5, <2>6, <3>4, <1>goal
  <2>9. CASE task # "sleep"
    <3>1. task' = task /\ waited' = waited
      BY <1>9, <2>9 DEF Tick
    <3>2. Waits
      BY <2>1, <2>9, <3>1, <1>parts DEF Outwaits, NoTaskNoWait, DueWasAskedFor
    <3>3. Noticed'
      BY <2>1, <2>7, <3>1, <1>inv DEF Noticed, SomebodyComes
    <3>4. QED
      BY <2>3, <2>5, <2>6, <3>2, <3>3, <1>goal
  <2>10. QED
    BY <2>8, <2>9
<1>10. ASSUME DrainFails PROVE Goal
  <2>1. errors' > 0 /\ UNCHANGED rows /\ MayLeaveAll("error")
    BY <1>10, <1>inv DEF DrainFails, TypeOK
  <2>2. Rows /\ Unfinished' = Unfinished /\ \A i \in Unfinished : left'[i] # "no"
    BY <2>1, <1>inv, MayLeaveAllTrue
  <2>3. task' = "none" /\ doing' = NoJob /\ waited' = NoWait
    BY <1>10 DEF DrainFails, EndTask
  <2>4. DoingIsKnown' /\ Waits /\ Noticed'
    BY <2>2, <2>3 DEF DoingIsKnown, Outwaits, NoTaskNoWait, DueWasAskedFor, Noticed
  <2>5. QED
    BY <2>2, <2>4, <1>goal
<1>11. ASSUME NEW j \in Jobs, Request(j) PROVE Goal
  <2>1. /\ phase[j] = "absent" /\ phase' = [phase EXCEPT ![j] = "queued"]
        /\ handlers' = handlers \cup {j}
        /\ UNCHANGED <<timer, tries, accepted, process, requested, task, doing, waited,
                       callback, errors, left>>
    BY <1>11 DEF Request, drain
  <2>2. timer[j] = 0 /\ tries[j] = 0
    BY <2>1, <1>parts DEF FreshJobs
  <2>3. FreshJobs' /\ QueuedCanRun'
    BY <2>1, <2>2, <1>types, <1>parts DEF FreshJobs, QueuedCanRun
  <2>4. DoingIsKnown'
    BY <2>1, <1>types, <1>parts DEF DoingIsKnown
  <2>5. TimersBounded' /\ LongTimers'
    BY <2>1, <2>2, <1>types, <1>parts DEF TimersBounded, LongTimers
  <2>6. LeftForAReason'
    BY <2>1, <1>parts DEF LeftForAReason, MayBeLeft
  <2>7. Unfinished' = Unfinished \cup {j}
    BY <2>1, <1>types DEF Unfinished
  <2>8. Outwaits' /\ NoTaskNoWait'
    BY <2>1, <2>2, <2>7, <1>types, <1>parts DEF Outwaits, NoTaskNoWait, NoWait
  <2>9. DueWasAskedFor'
    BY <2>1, <2>7, <1>parts DEF DueWasAskedFor
  <2>10. Noticed'
    BY <2>1, <2>7, <1>inv DEF Noticed, SomebodyComes
  <2>11. QED
    BY <2>3, <2>4, <2>5, <2>6, <2>8, <2>9, <2>10, <1>goal
<1>12. ASSUME NEW j \in Jobs, Answered(j) \/ Repeat(j) PROVE Goal
  <2>1. /\ accepted' # {} /\ UNCHANGED <<rows, left, drain, process, errors>>
    BY <1>12 DEF Answered, Repeat
  <2>2. Rows /\ Unfinished' = Unfinished /\ DoingIsKnown'
    BY <2>1, <1>inv, SameRows DEF drain
  <2>3. UNCHANGED <<task, waited, timer, left>>
    BY <2>1 DEF drain, rows
  <2>4. Waits /\ Noticed'
    BY <2>1, <2>2, <2>3, <1>parts
       DEF Outwaits, NoTaskNoWait, DueWasAskedFor, Noticed, SomebodyComes
  <2>5. QED
    BY <2>2, <2>4, <1>goal
<1>13. ASSUME NEW j \in Jobs, HandlerFails(j) PROVE Goal
  <2>1. /\ UNCHANGED <<phase, timer, tries, accepted, process, requested, task, doing, waited,
                       callback, errors>>
        /\ handlers' = handlers \ {j} /\ j \in NewsJobs
        /\ left' = IF j \in Unfinished THEN [left EXCEPT ![j] = "handler"] ELSE left
    BY <1>13 DEF HandlerFails, rows, drain
  <2>2. \A i \in Jobs : left'[i] = IF i = j /\ j \in Unfinished THEN "handler" ELSE left[i]
    BY <2>1, <1>types
  <2>3. FreshJobs' /\ QueuedCanRun' /\ DoingIsKnown'
    BY <2>1, <1>parts DEF FreshJobs, QueuedCanRun, DoingIsKnown
  <2>4. TimersBounded' /\ LongTimers'
    BY <2>1, <2>2, <1>parts DEF TimersBounded, LongTimers
  <2>5. LeftForAReason'
    BY <2>1, <2>2, <1>parts DEF LeftForAReason, MayBeLeft
  <2>6. Unfinished' = Unfinished /\ Unfinished \subseteq Jobs
    BY <2>1 DEF Unfinished
  <2>7. Waits
    BY <2>1, <2>2, <2>6, <1>parts DEF Outwaits, NoTaskNoWait, DueWasAskedFor
  <2>8. Noticed'
    BY <2>1, <2>2, <2>6, <1>inv DEF Noticed, SomebodyComes
  <2>9. QED
    BY <2>3, <2>4, <2>5, <2>7, <2>8, <1>goal
<1>14. ASSUME Shutdown PROVE Goal
  <2>1. /\ process' = "stopping" /\ task' \in {"none", "settle", "unwind"}
        /\ doing' \in {doing, NoJob} /\ (task' = "none" => task = "none")
        /\ UNCHANGED <<phase, tries, waited, errors, left>>
    BY <1>14 DEF Shutdown
  <2>2. QueuedCanRun' /\ DoingIsKnown'
    BY <2>1, <1>parts DEF QueuedCanRun, DoingIsKnown
  <2>3. LeftForAReason'
    BY <2>1, <1>parts DEF LeftForAReason, MayBeLeft
  <2>4. FreshJobs' /\ TimersBounded' /\ LongTimers'
    <3>1. CASE UNCHANGED timer
      BY <2>1, <3>1, <1>parts DEF FreshJobs, TimersBounded, LongTimers
    <3>2. CASE task = "execute" /\ LeaseLeft(doing)
      BY <2>1, <3>2, <1>inv, <1>types, LeaseLeftBounded
    <3>3. QED
      BY <1>14, <3>1, <3>2 DEF Shutdown
  <2>5. Waits /\ Noticed'
    BY <2>1, <1>parts DEF Outwaits, NoTaskNoWait, DueWasAskedFor, Noticed, SomebodyComes
  <2>6. QED
    BY <2>2, <2>3, <2>4, <2>5, <1>goal
<1>15. ASSUME Unwound PROVE Goal
  <2>1. Rows
    BY <1>15, <1>inv, SameRows DEF Unwound
  <2>2. task' = "none" /\ doing' = NoJob /\ waited' = NoWait /\ process' # "up"
    BY <1>15, <1>inv DEF Unwound, EndTask, UnwindsInShutdown
  <2>3. QED
    BY <2>1, <2>2, <1>goal
       DEF DoingIsKnown, Outwaits, NoTaskNoWait, DueWasAskedFor, Noticed, SomebodyComes
<1>16. ASSUME UnwindFails PROVE Goal
  <2>1. Rows /\ DoingIsKnown'
    BY <1>16, <1>inv, SameRows DEF UnwindFails
  <2>2. task' = "settle"
    BY <1>16 DEF UnwindFails
  <2>3. QED
    BY <2>1, <2>2, <1>goal
       DEF Outwaits, NoTaskNoWait, DueWasAskedFor, Noticed, SomebodyComes
<1>17. ASSUME ShutdownDone PROVE Goal
  <2>1. Rows /\ DoingIsKnown'
    BY <1>17, <1>inv, SameRows DEF ShutdownDone, drain
  <2>2. task' = "none" /\ waited' = NoWait /\ process' = "down"
    BY <1>17, <1>parts DEF ShutdownDone, drain, NoTaskNoWait
  <2>3. QED
    BY <2>1, <2>2, <1>goal
       DEF Outwaits, NoTaskNoWait, DueWasAskedFor, Noticed, SomebodyComes
<1>18. ASSUME Kill PROVE Goal
  <2>1. /\ process' = "down" /\ task' = "none" /\ doing' = NoJob /\ waited' = NoWait
        /\ UNCHANGED <<phase, tries, errors, left>>
    BY <1>18 DEF Kill
  <2>2. QueuedCanRun' /\ DoingIsKnown'
    BY <2>1, <1>parts DEF QueuedCanRun, DoingIsKnown
  <2>3. LeftForAReason'
    BY <2>1, <1>parts DEF LeftForAReason, MayBeLeft
  <2>4. FreshJobs' /\ TimersBounded' /\ LongTimers'
    <3>1. CASE UNCHANGED timer
      BY <2>1, <3>1, <1>parts DEF FreshJobs, TimersBounded, LongTimers
    <3>2. CASE task = "execute" /\ LeaseLeft(doing)
      BY <2>1, <3>2, <1>inv, <1>types, LeaseLeftBounded
    <3>3. QED
      BY <1>18, <3>1, <3>2 DEF Kill
  <2>5. QED
    BY <2>1, <2>2, <2>3, <2>4, <1>goal
       DEF Outwaits, NoTaskNoWait, DueWasAskedFor, Noticed, SomebodyComes
<1>19. ASSUME NEW recovers \in StartupRecovery, Boot(recovers) PROVE Goal
  <2>1. task = "none" /\ waited = NoWait /\ UNCHANGED <<rows, errors>>
    BY <1>19, <1>inv, <1>parts DEF Boot, OnlyABusyDrainGoesOn, NoTaskNoWait
  <2>2. CASE NewTask
    BY <2>1, <2>2, <1>inv, NewTaskWaits
  <2>3. CASE recovers = FALSE /\ MayLeaveAll("restart") /\ UNCHANGED drain
    <3>1. FALSE \in StartupRecovery
      BY <2>3
    <3>2. Rows /\ Unfinished' = Unfinished /\ \A i \in Unfinished : left'[i] # "no"
      BY <2>1, <2>3, <3>1, <1>inv, MayLeaveAllTrue
    <3>3. task' = "none" /\ waited' = NoWait /\ doing' = NoJob
      BY <2>1, <2>3, <1>types DEF drain
    <3>4. DoingIsKnown' /\ Waits /\ Noticed'
      BY <3>2, <3>3 DEF DoingIsKnown, Outwaits, NoTaskNoWait, DueWasAskedFor, Noticed
    <3>5. QED
      BY <3>2, <3>4, <1>goal
  <2>4. recovers \in BOOLEAN
    OBVIOUS
  <2>5. QED
    BY <1>19, <2>2, <2>3, <2>4 DEF Boot
<1>20. CASE UNCHANGED vars
  <2>1. UNCHANGED <<rows, left, errors, process, handlers, accepted, requested, task, doing,
                    waited, callback>>
    BY <1>20 DEF vars, drain, requests
  <2>2. Rows /\ Unfinished' = Unfinished /\ DoingIsKnown'
    BY <2>1, <1>inv, SameRows
  <2>3. timer' = timer
    BY <2>1 DEF rows
  <2>4. Waits
    BY <2>1, <2>2, <2>3, <1>parts DEF Outwaits, NoTaskNoWait, DueWasAskedFor
  <2>5. Noticed'
    BY <2>1, <2>2, <1>inv DEF Noticed, SomebodyComes
  <2>6. QED
    BY <2>2, <2>4, <2>5, <1>goal
<1>21. QED
  BY <1>1, <1>2, <1>3, <1>4, <1>5, <1>6, <1>7, <1>8, <1>9, <1>10, <1>11, <1>12, <1>13,
     <1>14, <1>15, <1>16, <1>17, <1>18, <1>19, <1>20
     DEF Next, Drain, Handler, Unwind, Start

\* An unfinished job that nobody is going to look at has one of the four reasons of
\* MayBeLeft, with any lease, delays and startup setting: no request is lost between
\* the last look-up of a drain and its end, no lease and no delay up to a lease is
\* given up (InProcessBatchScheduler, run_until_idle).
THEOREM NoJobIsForgotten == Spec => []NoJobForgotten
<1>1. Init => SchedulerInv
  BY DrainInit, WaitInit DEF SchedulerInv
<1>2. SchedulerInv /\ [Next]_vars => SchedulerInv'
  BY DrainStep, WaitStep DEF SchedulerInv
<1>3. SchedulerInv => NoJobForgotten
  BY DEF SchedulerInv, WaitInv, LeftForAReason, Noticed, NoJobForgotten, Unfinished
<1>4. QED
  BY <1>1, <1>2, <1>3, PTL DEF Spec
-----------------------------------------------------------------------------
(***************************************************************************)
(* Finite sums.  The prover has no induction, so a fact about every finite *)
(* set is proved by looking at a smallest set that would violate it.       *)
(***************************************************************************)
\* A set of subsets of a finite set has a smallest member.
LEMMA SmallestSubset ==
  ASSUME NEW S, IsFiniteSet(S), NEW T, T \subseteq SUBSET S, T # {}
  PROVE  \E s \in T : \A t \in T : t \subseteq s => t = s
<1>1. IsWellFoundedOn(StrictSubsetOrdering(S), SUBSET S)
  BY FS_StrictSubsetOrderingWellFounded, FS_FiniteSubsetsOfFinite
<1>2. \E s \in T : \A t \in T : ~ (<<t, s>> \in StrictSubsetOrdering(S))
  BY <1>1, WFMin
<1>. QED  BY <1>2 DEF StrictSubsetOrdering

\* The least-number principle, for a set of numbers.
LEMMA LeastNumber ==
  ASSUME NEW T, T \subseteq Nat, T # {}
  PROVE  \E n \in T : \A m \in T : n <= m
<1>1. PICK top \in T : TRUE
  OBVIOUS
<1>. DEFINE below == {0 .. m : m \in {k \in T : k <= top}}
<1>2. IsFiniteSet(0 .. top)
  BY FS_Interval
<1>3. below \subseteq SUBSET (0 .. top) /\ below # {}
  BY <1>1
<1>4. PICK s \in below : \A t \in below : t \subseteq s => t = s
  <2>. DEFINE all == 0 .. top
  <2>1. IsFiniteSet(all) /\ below \subseteq SUBSET all /\ below # {}
    BY <1>2, <1>3
  <2>. HIDE DEF below, all
  <2>. QED  BY <2>1, SmallestSubset
<1>5. PICK n \in T : n <= top /\ s = 0 .. n
  BY <1>4
<1>6. ASSUME NEW m \in T, m < n  PROVE FALSE
  <2>1. 0 .. m \in below
    BY <1>5, <1>6
  <2>2. 0 .. m \subseteq s
    BY <1>5, <1>6
  <2>3. 0 .. m = s
    BY <2>1, <2>2, <1>4
  <2>4. n \in 0 .. m
    BY <2>3, <1>5
  <2>. QED  BY <2>4, <1>6
<1>. QED  BY <1>5, <1>6

Pick(s) == CHOOSE x \in s : TRUE

\* g adds up f on every subset of S.
Adds(g, f, S) ==
  g = [s \in SUBSET S |-> IF s = {} THEN 0 ELSE f[Pick(s)] + g[s \ {Pick(s)}]]

LEMMA SumIsAdded ==
  ASSUME NEW f, NEW S
  PROVE  SumOf(f, S) = (CHOOSE g : Adds(g, f, S))[S]
BY DEF SumOf, MapThenSumSet, MapThenFoldSet, Adds, Pick

LEMMA AddsUnique ==
  ASSUME NEW f, NEW S, IsFiniteSet(S), NEW R, S \subseteq R,
         NEW g, Adds(g, f, S), NEW h, Adds(h, f, R)
  PROVE  \A s \in SUBSET S : g[s] = h[s]
<1>. DEFINE bad == {s \in SUBSET S : g[s] # h[s]}
<1>. SUFFICES ASSUME bad # {}  PROVE FALSE
  OBVIOUS
<1>1. PICK s \in bad : \A t \in bad : t \subseteq s => t = s
  <2>1. bad \subseteq SUBSET S
    OBVIOUS
  <2>. HIDE DEF bad
  <2>. QED  BY <2>1, SmallestSubset
<1>2. s # {}
  BY DEF Adds
<1>3. Pick(s) \in s
  BY <1>2 DEF Pick
<1>4. s \ {Pick(s)} \notin bad /\ s \ {Pick(s)} \in SUBSET S
  BY <1>1, <1>3
<1>5. g[s] = f[Pick(s)] + g[s \ {Pick(s)}]
  BY <1>2 DEF Adds
<1>6. h[s] = f[Pick(s)] + h[s \ {Pick(s)}]
  BY <1>2 DEF Adds
<1>. QED  BY <1>1, <1>4, <1>5, <1>6

\* The recursion over the subsets of a finite set has a solution.
LEMMA AddsExists ==
  ASSUME NEW f, NEW S, IsFiniteSet(S)
  PROVE  \E g : Adds(g, f, S)
<1>. DEFINE bad == {s \in SUBSET S : ~ \E g : Adds(g, f, s)}
<1>. SUFFICES ASSUME bad # {}  PROVE FALSE
  OBVIOUS
<1>1. PICK R \in bad : \A t \in bad : t \subseteq R => t = R
  <2>1. bad \subseteq SUBSET S
    OBVIOUS
  <2>. HIDE DEF bad
  <2>. QED  BY <2>1, SmallestSubset
<1>. DEFINE of == [s \in SUBSET R |-> (CHOOSE g : Adds(g, f, s))]
            G == [s \in SUBSET R |-> IF s = {} THEN 0
                    ELSE f[Pick(s)] + of[s \ {Pick(s)}][s \ {Pick(s)}]]
<1>2. \A s \in SUBSET R : s # R => Adds(of[s], f, s)
  BY <1>1
<1>3. ASSUME NEW s \in SUBSET R, s # {}
      PROVE  G[s \ {Pick(s)}] = of[s \ {Pick(s)}][s \ {Pick(s)}]
  <2>. DEFINE t == s \ {Pick(s)}
  <2>1. Pick(s) \in s
    BY <1>3 DEF Pick
  <2>2. t \in SUBSET R /\ t # R
    BY <2>1
  <2>3. Adds(of[t], f, t)
    BY <1>2, <2>2
  <2>4. CASE t = {}
    BY <2>2, <2>3, <2>4 DEF Adds
  <2>5. CASE t # {}
    <3>. DEFINE u == t \ {Pick(t)}
    <3>1. Pick(t) \in t
      BY <2>5 DEF Pick
    <3>2. u \in SUBSET t /\ u \in SUBSET R /\ u # R
      BY <3>1, <2>2
    <3>3. of[t][t] = f[Pick(t)] + of[t][u]
      BY <2>3, <2>5 DEF Adds
    <3>4. Adds(of[u], f, u)
      BY <1>2, <3>2
    <3>5. IsFiniteSet(u)
      BY <3>2, FS_Subset
    <3>6. of[u][u] = of[t][u]
      <4>. HIDE DEF of, u, t
      <4>. QED  BY <3>2, <3>4, <3>5, <2>3, AddsUnique
    <3>7. G[t] = f[Pick(t)] + of[u][u]
      BY <2>2, <2>5
    <3>. QED  BY <3>3, <3>6, <3>7
  <2>. QED  BY <2>4, <2>5
<1>4. Adds(G, f, R)
  <2>1. \A s \in SUBSET R :
          G[s] = IF s = {} THEN 0 ELSE f[Pick(s)] + G[s \ {Pick(s)}]
    <3>1. SUFFICES ASSUME NEW s \in SUBSET R
                   PROVE  G[s] = IF s = {} THEN 0 ELSE f[Pick(s)] + G[s \ {Pick(s)}]
      OBVIOUS
    <3>2. G[s] = IF s = {} THEN 0 ELSE f[Pick(s)] + of[s \ {Pick(s)}][s \ {Pick(s)}]
      <4>. HIDE DEF of
      <4>. QED  OBVIOUS
    <3>3. s # {} => G[s \ {Pick(s)}] = of[s \ {Pick(s)}][s \ {Pick(s)}]
      BY <1>3
    <3>. HIDE DEF G, of
    <3>. QED  BY <3>2, <3>3
  <2>2. G = [s \in SUBSET R |-> G[s]]
    OBVIOUS
  <2>. HIDE DEF G
  <2>. QED  BY <2>1, <2>2 DEF Adds
<1>. QED  BY <1>1, <1>4

LEMMA SumAdds ==
  ASSUME NEW f, NEW S, IsFiniteSet(S), NEW g, Adds(g, f, S)
  PROVE  \A s \in SUBSET S : SumOf(f, s) = g[s]
<1>. SUFFICES ASSUME NEW s \in SUBSET S  PROVE SumOf(f, s) = g[s]
  OBVIOUS
<1>1. IsFiniteSet(s)
  BY FS_Subset
<1>. DEFINE h == CHOOSE h : Adds(h, f, s)
<1>2. Adds(h, f, s)
  BY <1>1, AddsExists
<1>3. SumOf(f, s) = h[s]
  BY SumIsAdded
<1>. HIDE DEF h
<1>. QED  BY <1>1, <1>2, <1>3, AddsUnique

LEMMA SumEmpty ==
  ASSUME NEW f
  PROVE  SumOf(f, {}) = 0
<1>1. IsFiniteSet({})
  BY FS_EmptySet
<1>2. PICK g : Adds(g, f, {})
  BY <1>1, AddsExists
<1>3. SumOf(f, {}) = g[{}]
  BY <1>1, <1>2, SumAdds
<1>. QED  BY <1>2, <1>3 DEF Adds

LEMMA SumPick ==
  ASSUME NEW f, NEW S, IsFiniteSet(S), S # {}
  PROVE  SumOf(f, S) = f[Pick(S)] + SumOf(f, S \ {Pick(S)})
<1>1. PICK g : Adds(g, f, S)
  BY AddsExists
<1>2. SumOf(f, S) = g[S] /\ SumOf(f, S \ {Pick(S)}) = g[S \ {Pick(S)}]
  BY <1>1, SumAdds
<1>. QED  BY <1>1, <1>2 DEF Adds

LEMMA SumType ==
  ASSUME NEW f, NEW S, IsFiniteSet(S), \A x \in S : f[x] \in Int
  PROVE  SumOf(f, S) \in Int
<1>. DEFINE bad == {s \in SUBSET S : SumOf(f, s) \notin Int}
<1>. SUFFICES ASSUME bad # {}  PROVE FALSE
  OBVIOUS
<1>1. PICK s \in bad : \A t \in bad : t \subseteq s => t = s
  <2>1. bad \subseteq SUBSET S
    OBVIOUS
  <2>. HIDE DEF bad
  <2>. QED  BY <2>1, SmallestSubset
<1>2. s # {}
  BY SumEmpty
<1>3. Pick(s) \in s
  BY <1>2 DEF Pick
<1>4. SumOf(f, s \ {Pick(s)}) \in Int
  BY <1>1, <1>3
<1>5. IsFiniteSet(s)
  BY FS_Subset
<1>. QED  BY <1>1, <1>2, <1>3, <1>4, <1>5, SumPick

\* The order of the summands does not matter.
LEMMA SumRemove ==
  ASSUME NEW f, NEW S, IsFiniteSet(S), \A x \in S : f[x] \in Int, NEW x \in S
  PROVE  SumOf(f, S) = f[x] + SumOf(f, S \ {x})
<1>. DEFINE bad == {s \in SUBSET S : \E y \in s : SumOf(f, s) # f[y] + SumOf(f, s \ {y})}
<1>. SUFFICES ASSUME bad # {}  PROVE FALSE
  OBVIOUS
<1>1. PICK s \in bad : \A t \in bad : t \subseteq s => t = s
  <2>1. bad \subseteq SUBSET S
    OBVIOUS
  <2>. HIDE DEF bad
  <2>. QED  BY <2>1, SmallestSubset
<1>2. PICK y \in s : SumOf(f, s) # f[y] + SumOf(f, s \ {y})
  BY <1>1
<1>. DEFINE p == Pick(s)
<1>3. p \in s
  BY <1>2 DEF Pick
<1>4. IsFiniteSet(s) /\ IsFiniteSet(s \ {y}) /\ IsFiniteSet(s \ {p})
  BY FS_Subset
<1>5. SumOf(f, s) = f[p] + SumOf(f, s \ {p})
  BY <1>2, <1>4, SumPick
<1>6. p # y
  BY <1>2, <1>5
<1>7. SumOf(f, s \ {p}) = f[y] + SumOf(f, (s \ {p}) \ {y})
  <2>1. s \ {p} \notin bad /\ s \ {p} \in SUBSET S /\ y \in s \ {p}
    BY <1>1, <1>3, <1>6
  <2>. QED  BY <2>1
<1>8. SumOf(f, s \ {y}) = f[p] + SumOf(f, (s \ {y}) \ {p})
  <2>1. s \ {y} \notin bad /\ s \ {y} \in SUBSET S /\ p \in s \ {y}
    BY <1>1, <1>2, <1>3, <1>6
  <2>. QED  BY <2>1
<1>9. SumOf(f, (s \ {p}) \ {y}) = SumOf(f, (s \ {y}) \ {p})
  <2>1. (s \ {p}) \ {y} = (s \ {y}) \ {p}
    OBVIOUS
  <2>. HIDE DEF p
  <2>. QED  BY <2>1
<1>10. IsFiniteSet((s \ {y}) \ {p})
  BY <1>4, FS_Subset
<1>11. SumOf(f, (s \ {y}) \ {p}) \in Int
  BY <1>10, SumType
<1>12. f[p] \in Int /\ f[y] \in Int
  BY <1>3
<1>. HIDE DEF p, bad
<1>. QED  BY <1>2, <1>5, <1>7, <1>8, <1>9, <1>11, <1>12

\* A sum of more is more.
LEMMA SumMonotone ==
  ASSUME NEW f, NEW g, NEW S, IsFiniteSet(S),
         \A x \in S : f[x] \in Int /\ g[x] \in Int /\ f[x] <= g[x]
  PROVE  SumOf(f, S) <= SumOf(g, S)
<1>. DEFINE bad == {s \in SUBSET S : ~(SumOf(f, s) <= SumOf(g, s))}
<1>. SUFFICES ASSUME bad # {}  PROVE FALSE
  OBVIOUS
<1>1. PICK s \in bad : \A t \in bad : t \subseteq s => t = s
  <2>1. bad \subseteq SUBSET S
    OBVIOUS
  <2>. HIDE DEF bad
  <2>. QED  BY <2>1, SmallestSubset
<1>2. PICK x \in s : TRUE
  BY SumEmpty
<1>3. IsFiniteSet(s) /\ IsFiniteSet(s \ {x})
  BY FS_Subset
<1>4. /\ SumOf(f, s) = f[x] + SumOf(f, s \ {x})
      /\ SumOf(g, s) = g[x] + SumOf(g, s \ {x})
  BY <1>2, <1>3, SumRemove
<1>5. SumOf(f, s \ {x}) \in Int /\ SumOf(g, s \ {x}) \in Int
  BY <1>3, SumType
<1>6. SumOf(f, s \ {x}) <= SumOf(g, s \ {x})
  BY <1>1, <1>2
<1>7. ~(SumOf(f, s) <= SumOf(g, s))
  BY <1>1
<1>8. f[x] \in Int /\ g[x] \in Int /\ f[x] <= g[x]
  BY <1>2
<1>. HIDE DEF bad
<1>. QED  BY <1>4, <1>5, <1>6, <1>7, <1>8

LEMMA SumSame ==
  ASSUME NEW f, NEW g, NEW S, IsFiniteSet(S),
         \A x \in S : f[x] \in Int /\ g[x] = f[x]
  PROVE  SumOf(f, S) = SumOf(g, S)
<1>1. SumOf(f, S) <= SumOf(g, S) /\ SumOf(g, S) <= SumOf(f, S)
  BY SumMonotone
<1>2. SumOf(f, S) \in Int /\ SumOf(g, S) \in Int
  BY SumType
<1>. QED  BY <1>1, <1>2

LEMMA SumPlus ==
  ASSUME NEW f, NEW g, NEW h, NEW S, IsFiniteSet(S),
         \A x \in S : f[x] \in Int /\ g[x] \in Int /\ h[x] = f[x] + g[x]
  PROVE  SumOf(h, S) = SumOf(f, S) + SumOf(g, S)
<1>. DEFINE bad == {s \in SUBSET S : SumOf(h, s) # SumOf(f, s) + SumOf(g, s)}
<1>. SUFFICES ASSUME bad # {}  PROVE FALSE
  OBVIOUS
<1>1. PICK s \in bad : \A t \in bad : t \subseteq s => t = s
  <2>1. bad \subseteq SUBSET S
    OBVIOUS
  <2>. HIDE DEF bad
  <2>. QED  BY <2>1, SmallestSubset
<1>2. PICK x \in s : TRUE
  <2>1. SumOf(f, {}) = 0 /\ SumOf(g, {}) = 0 /\ SumOf(h, {}) = 0
    BY SumEmpty
  <2>2. {} \notin bad
    BY <2>1
  <2>. QED  BY <2>2
<1>3. IsFiniteSet(s) /\ IsFiniteSet(s \ {x})
  BY FS_Subset
<1>4. /\ SumOf(f, s) = f[x] + SumOf(f, s \ {x})
      /\ SumOf(g, s) = g[x] + SumOf(g, s \ {x})
      /\ SumOf(h, s) = h[x] + SumOf(h, s \ {x})
  BY <1>2, <1>3, SumRemove
<1>5. SumOf(f, s \ {x}) \in Int /\ SumOf(g, s \ {x}) \in Int
  BY <1>3, SumType
<1>6. SumOf(h, s \ {x}) = SumOf(f, s \ {x}) + SumOf(g, s \ {x})
  BY <1>1, <1>2
<1>7. SumOf(h, s) # SumOf(f, s) + SumOf(g, s)
  BY <1>1
<1>8. f[x] \in Int /\ g[x] \in Int /\ h[x] = f[x] + g[x]
  BY <1>2
<1>. HIDE DEF bad
<1>. QED  BY <1>4, <1>5, <1>6, <1>7, <1>8

LEMMA SumNat ==
  ASSUME NEW f, NEW S, IsFiniteSet(S), \A x \in S : f[x] \in Nat
  PROVE  SumOf(f, S) \in Nat
<1>. DEFINE zero == [x \in S |-> 0]
<1>1. SumOf(zero, S) = SumOf(zero, S) + SumOf(zero, S)
  BY SumPlus
<1>2. SumOf(zero, S) \in Int /\ SumOf(f, S) \in Int
  BY SumType
<1>3. SumOf(zero, S) <= SumOf(f, S)
  BY SumMonotone
<1>. QED  BY <1>1, <1>2, <1>3

\* What is summed falls into two parts.
LEMMA SumSplit ==
  ASSUME NEW f, NEW S, IsFiniteSet(S), \A x \in S : f[x] \in Int, NEW E, E \subseteq S
  PROVE  SumOf(f, S) = SumOf(f, S \ E) + SumOf(f, E)
<1>. DEFINE bad == {s \in SUBSET E : SumOf(f, S) # SumOf(f, S \ s) + SumOf(f, s)}
<1>. SUFFICES ASSUME bad # {}  PROVE FALSE
  OBVIOUS
<1>1. PICK s \in bad : \A t \in bad : t \subseteq s => t = s
  <2>1. bad \subseteq SUBSET E /\ IsFiniteSet(E)
    BY FS_Subset
  <2>. HIDE DEF bad
  <2>. QED  BY <2>1, SmallestSubset
<1>0. S \ {} = S /\ SumOf(f, S) \in Int
  BY SumType
<1>2. PICK x \in s : TRUE
  <2>1. SumOf(f, {}) = 0 /\ SumOf(f, S \ {}) = SumOf(f, S)
    BY <1>0, SumEmpty
  <2>2. SumOf(f, S) = SumOf(f, S \ {}) + SumOf(f, {})
    BY <2>1, <1>0
  <2>3. {} \notin bad
    BY <2>2
  <2>. QED  BY <2>3
<1>. DEFINE less == s \ {x}
            rest == S \ less
<1>3. IsFiniteSet(s) /\ IsFiniteSet(less) /\ IsFiniteSet(rest) /\ IsFiniteSet(S \ s)
  BY FS_Subset
<1>4. SumOf(f, s) = f[x] + SumOf(f, less)
  BY <1>2, <1>3, SumRemove
<1>5. SumOf(f, rest) = f[x] + SumOf(f, S \ s)
  <2>1. x \in rest /\ rest \ {x} = S \ s
    BY <1>2
  <2>. HIDE DEF rest
  <2>. QED  BY <2>1, <1>3, SumRemove
<1>6. SumOf(f, less) \in Int /\ SumOf(f, S \ s) \in Int /\ f[x] \in Int
  BY <1>2, <1>3, SumType
<1>7. SumOf(f, S) = SumOf(f, rest) + SumOf(f, less)
  BY <1>1, <1>2
<1>8. SumOf(f, S) # SumOf(f, S \ s) + SumOf(f, s)
  BY <1>1
<1>. HIDE DEF bad, less, rest
<1>. QED  BY <1>4, <1>5, <1>6, <1>7, <1>8
-----------------------------------------------------------------------------
(***************************************************************************)
(* The size of a prompt.                                                   *)
(***************************************************************************)
\* Every article has an estimate.
ArticleCount(c) == Len(ArticleTokens[c])

LEMMA PromptType ==
  ASSUME NEW c \in Calls, NEW n \in 0 .. ArticleCount(c)
  PROVE  PromptTokens(c, n) \in Nat
<1>1. ArticleTokens[c] \in Seq(Nat) /\ BaseTokens[c] \in Nat
  BY LlmClientAssumption
<1>2. IsFiniteSet(1 .. n)
  BY FS_Interval
<1>3. \A i \in 1 .. n : ArticleTokens[c][i] \in Nat
  BY <1>1 DEF ArticleCount
<1>4. SumOf(ArticleTokens[c], 1 .. n) \in Nat
  BY <1>2, <1>3, SumNat
<1>. QED  BY <1>1, <1>4 DEF PromptTokens

\* More articles make no smaller prompt.
LEMMA PromptGrows ==
  ASSUME NEW c \in Calls, NEW m \in 0 .. ArticleCount(c), NEW n \in 0 .. m
  PROVE  PromptTokens(c, n) <= PromptTokens(c, m)
<1>. DEFINE f == ArticleTokens[c]
<1>1. f \in Seq(Nat) /\ BaseTokens[c] \in Nat /\ ArticleCount(c) \in Nat
  BY LlmClientAssumption DEF ArticleCount
<1>2. IsFiniteSet(1 .. m) /\ IsFiniteSet((1 .. m) \ (1 .. n)) /\ IsFiniteSet(1 .. n)
  <2>1. IsFiniteSet(1 .. m) /\ IsFiniteSet(1 .. n)
    BY <1>1, FS_Interval
  <2>. QED  BY <2>1, FS_Subset
<1>3. \A i \in 1 .. m : f[i] \in Nat
  BY <1>1 DEF ArticleCount
<1>4. 1 .. n \subseteq 1 .. m
  OBVIOUS
<1>5. SumOf(f, 1 .. m) = SumOf(f, (1 .. m) \ (1 .. n)) + SumOf(f, 1 .. n)
  <2>. DEFINE all == 1 .. m
              some == 1 .. n
  <2>1. IsFiniteSet(all) /\ some \subseteq all /\ \A i \in all : f[i] \in Int
    BY <1>2, <1>3, <1>4
  <2>2. SumOf(f, all) = SumOf(f, all \ some) + SumOf(f, some)
    <3>. HIDE DEF all, some, f
    <3>. QED  BY <2>1, SumSplit
  <2>. QED  BY <2>2
<1>6. SumOf(f, (1 .. m) \ (1 .. n)) \in Nat /\ SumOf(f, 1 .. n) \in Nat
  <2>. HIDE DEF f
  <2>1. \A i \in (1 .. m) \ (1 .. n) : f[i] \in Nat
    BY <1>3
  <2>2. \A i \in 1 .. n : f[i] \in Nat
    BY <1>3, <1>4
  <2>. QED  BY <1>2, <2>1, <2>2, SumNat
<1>. HIDE DEF f
<1>7. /\ PromptTokens(c, n) = BaseTokens[c] + SumOf(f, 1 .. n)
      /\ PromptTokens(c, m) = BaseTokens[c] + SumOf(f, 1 .. m)
  BY DEF PromptTokens, f
<1>. QED  BY <1>1, <1>5, <1>6, <1>7

\* s answers the binary search for every pair of bounds.
Bounds(c) == (0 .. ArticleCount(c)) \X (0 .. ArticleCount(c))
Middle(b) == (b[1] + b[2] + 1) \div 2

Searches(s, c) ==
  s = [b \in Bounds(c) |->
         IF b[1] >= b[2] THEN b[1]
         ELSE IF PromptTokens(c, Middle(b)) <= Tpm
              THEN s[<<Middle(b), b[2]>>] ELSE s[<<b[1], Middle(b) - 1>>]]

\* The largest count from low to high that fits, low if none does.
IsLargestFit(c, low, high, n) ==
  /\ n \in low .. high
  /\ n = low \/ PromptTokens(c, n) <= Tpm
  /\ \A k \in n + 1 .. high : ~(PromptTokens(c, k) <= Tpm)

LargestFit(c, low, high) ==
  IF low >= high THEN low ELSE CHOOSE n \in low .. high : IsLargestFit(c, low, high, n)

LEMMA LargestFitExists ==
  ASSUME NEW c \in Calls, NEW high \in 0 .. ArticleCount(c), NEW low \in 0 .. high
  PROVE  /\ LargestFit(c, low, high) \in low .. high
         /\ IsLargestFit(c, low, high, LargestFit(c, low, high))
<1>1. ArticleCount(c) \in Nat
  BY LlmClientAssumption DEF ArticleCount
<1>. DEFINE T == {n \in low .. high : \A k \in n + 1 .. high : ~(PromptTokens(c, k) <= Tpm)}
<1>2. high \in T /\ T \subseteq Nat
  BY <1>1
<1>3. PICK n \in T : \A m \in T : n <= m
  <2>. HIDE DEF T
  <2>. QED  BY <1>2, LeastNumber
<1>4. ASSUME n # low  PROVE PromptTokens(c, n) <= Tpm
  <2>1. n - 1 \in low .. high /\ n - 1 \notin T
    BY <1>1, <1>3, <1>4
  <2>2. PICK k \in n .. high : PromptTokens(c, k) <= Tpm
    BY <2>1
  <2>3. k = n
    BY <1>3, <2>2
  <2>. QED  BY <2>2, <2>3
<1>5. n \in low .. high /\ IsLargestFit(c, low, high, n)
  BY <1>3, <1>4 DEF IsLargestFit
<1>6. low >= high => n = low /\ LargestFit(c, low, high) = low
  BY <1>5, <1>1 DEF LargestFit
<1>. QED  BY <1>5, <1>6 DEF LargestFit

LEMMA LargestFitUnique ==
  ASSUME NEW c \in Calls, NEW high \in 0 .. ArticleCount(c), NEW low \in 0 .. high,
         NEW m, NEW n, IsLargestFit(c, low, high, m), IsLargestFit(c, low, high, n)
  PROVE  m = n
<1>1. ArticleCount(c) \in Nat
  BY LlmClientAssumption DEF ArticleCount
<1>. QED  BY <1>1 DEF IsLargestFit

\* The fits are the small counts: what the middle tells of the rest.
LEMMA FitsAreSmall ==
  ASSUME NEW c \in Calls, NEW m \in 0 .. ArticleCount(c), NEW n \in 0 .. m,
         PromptTokens(c, m) <= Tpm
  PROVE  PromptTokens(c, n) <= Tpm
<1>1. Tpm \in Nat /\ ArticleCount(c) \in Nat
  BY LlmClientAssumption DEF ArticleCount
<1>2. PromptTokens(c, n) \in Nat /\ PromptTokens(c, m) \in Nat
  BY <1>1, PromptType
<1>. QED  BY <1>1, <1>2, PromptGrows

\* Halving keeps the answer.
LEMMA HalvingKeepsTheFit ==
  ASSUME NEW c \in Calls, NEW high \in 0 .. ArticleCount(c), NEW low \in 0 .. high, low < high
  PROVE  LET mid == Middle(<<low, high>>) IN
         /\ mid \in low + 1 .. high
         /\ PromptTokens(c, mid) <= Tpm => LargestFit(c, low, high) = LargestFit(c, mid, high)
         /\ ~(PromptTokens(c, mid) <= Tpm)
              => LargestFit(c, low, high) = LargestFit(c, low, mid - 1)
<1>. DEFINE all == ArticleCount(c)
            m == Middle(<<low, high>>)
<1>1. all \in Nat
  BY LlmClientAssumption DEF ArticleCount
<1>2. m \in low + 1 .. high
  BY <1>1 DEF Middle
<1>. HIDE DEF m, all
<1>3. IsLargestFit(c, low, high, LargestFit(c, low, high))
  BY <1>1, LargestFitExists DEF all
<1>4. CASE PromptTokens(c, m) <= Tpm
  <2>1. /\ LargestFit(c, m, high) \in m .. high
        /\ IsLargestFit(c, m, high, LargestFit(c, m, high))
    BY <1>1, <1>2, LargestFitExists DEF all
  <2>2. IsLargestFit(c, low, high, LargestFit(c, m, high))
    BY <1>1, <1>2, <1>4, <2>1 DEF IsLargestFit, all
  <2>. QED  BY <1>1, <1>2, <1>3, <1>4, <2>2, LargestFitUnique DEF all, m
<1>5. CASE ~(PromptTokens(c, m) <= Tpm)
  <2>1. /\ LargestFit(c, low, m - 1) \in low .. m - 1
        /\ IsLargestFit(c, low, m - 1, LargestFit(c, low, m - 1))
    <3>1. m - 1 \in 0 .. ArticleCount(c) /\ low \in 0 .. m - 1
      BY <1>1, <1>2 DEF all
    <3>. QED  BY <3>1, LargestFitExists
  <2>2. ASSUME NEW k \in m .. high  PROVE ~(PromptTokens(c, k) <= Tpm)
    <3>1. k \in 0 .. ArticleCount(c) /\ m \in 0 .. k
      BY <1>1, <1>2 DEF all
    <3>. QED  BY <1>5, <3>1, FitsAreSmall
  <2>3. IsLargestFit(c, low, high, LargestFit(c, low, m - 1))
    BY <1>1, <1>2, <2>1, <2>2 DEF IsLargestFit, all
  <2>. QED  BY <1>1, <1>2, <1>3, <1>5, <2>3, LargestFitUnique DEF all, m
<1>. QED  BY <1>2, <1>4, <1>5 DEF m

\* The recursion of the search has a solution, and only one.
LEMMA SearchExists ==
  ASSUME NEW c \in Calls
  PROVE  Searches([b \in Bounds(c) |-> LargestFit(c, b[1], b[2])], c)
<1>. DEFINE s == [b \in Bounds(c) |-> LargestFit(c, b[1], b[2])]
            step(b) == IF b[1] >= b[2] THEN b[1]
                       ELSE IF PromptTokens(c, Middle(b)) <= Tpm
                            THEN s[<<Middle(b), b[2]>>] ELSE s[<<b[1], Middle(b) - 1>>]
<1>1. ArticleCount(c) \in Nat
  BY LlmClientAssumption DEF ArticleCount
<1>2. ASSUME NEW b \in Bounds(c)  PROVE s[b] = step(b)
  <2>0. b = <<b[1], b[2]>> /\ b[1] \in 0 .. ArticleCount(c) /\ b[2] \in 0 .. ArticleCount(c)
    BY DEF Bounds
  <2>1. s[b] = LargestFit(c, b[1], b[2])
    OBVIOUS
  <2>2. CASE b[1] >= b[2]
    BY <2>1, <2>2 DEF LargestFit
  <2>3. CASE b[1] < b[2]
    <3>. DEFINE m == Middle(b)
    <3>1. /\ m \in b[1] + 1 .. b[2]
          /\ PromptTokens(c, m) <= Tpm => LargestFit(c, b[1], b[2]) = LargestFit(c, m, b[2])
          /\ ~(PromptTokens(c, m) <= Tpm)
               => LargestFit(c, b[1], b[2]) = LargestFit(c, b[1], m - 1)
      <4>1. b[1] \in 0 .. b[2]
        BY <1>1, <2>0, <2>3
      <4>. QED  BY <2>0, <2>3, <4>1, HalvingKeepsTheFit
    <3>. HIDE DEF m
    <3>2. <<m, b[2]>> \in Bounds(c) /\ <<b[1], m - 1>> \in Bounds(c)
      BY <1>1, <2>0, <3>1 DEF Bounds
    <3>3. /\ s[<<m, b[2]>>] = LargestFit(c, m, b[2])
          /\ s[<<b[1], m - 1>>] = LargestFit(c, b[1], m - 1)
      BY <3>2
    <3>4. ~(b[1] >= b[2])
      BY <1>1, <2>0, <2>3
    <3>. HIDE DEF s
    <3>. QED  BY <2>1, <3>1, <3>3, <3>4 DEF m
  <2>. QED  BY <1>1, <2>0, <2>2, <2>3
<1>3. s = [b \in Bounds(c) |-> s[b]]
  OBVIOUS
<1>. HIDE DEF s
<1>4. s = [b \in Bounds(c) |-> step(b)]
  BY <1>2, <1>3
<1>. QED  BY <1>4 DEF Searches, s

LEMMA SearchUnique ==
  ASSUME NEW c \in Calls, NEW s, Searches(s, c), NEW b \in Bounds(c)
  PROVE  s[b] = LargestFit(c, b[1], b[2])
<1>. DEFINE g == [d \in Bounds(c) |-> LargestFit(c, d[1], d[2])]
            bad == {n \in Nat : \E d \in Bounds(c) : d[2] - d[1] = n /\ s[d] # g[d]}
<1>1. ArticleCount(c) \in Nat
  BY LlmClientAssumption DEF ArticleCount
<1>2. Searches(g, c)
  BY SearchExists
<1>3. ASSUME NEW h, Searches(h, c), NEW d \in Bounds(c)
      PROVE  h[d] = IF d[1] >= d[2] THEN d[1]
                    ELSE IF PromptTokens(c, Middle(d)) <= Tpm
                         THEN h[<<Middle(d), d[2]>>] ELSE h[<<d[1], Middle(d) - 1>>]
  BY <1>3 DEF Searches
<1>. HIDE DEF g
<1>4. bad = {}
  <2>. SUFFICES ASSUME bad # {}  PROVE FALSE
    OBVIOUS
  <2>1. PICK n \in bad : \A m \in bad : n <= m
    <3>1. bad \subseteq Nat
      OBVIOUS
    <3>. HIDE DEF bad
    <3>. QED  BY <3>1, LeastNumber
  <2>2. PICK d \in Bounds(c) : d[2] - d[1] = n /\ s[d] # g[d]
    BY <2>1
  <2>3. ASSUME NEW e \in Bounds(c), e[1] <= e[2], e[2] - e[1] < n
        PROVE  s[e] = g[e]
    <3>1. e[2] - e[1] \in Nat
      BY <1>1, <2>3 DEF Bounds
    <3>2. e[2] - e[1] \notin bad
      BY <3>1, <2>1, <2>3
    <3>. QED  BY <3>1, <3>2
  <2>. DEFINE i == d[1]
              j == d[2]
              m == Middle(d)
  <2>4. d = <<i, j>> /\ i \in 0 .. ArticleCount(c) /\ j \in 0 .. ArticleCount(c)
    BY DEF Bounds
  <2>5. ~(i >= j)
    BY <1>2, <1>3, <2>2
  <2>6. m \in i + 1 .. j
    BY <1>1, <2>4, <2>5 DEF Middle
  <2>7. n = j - i
    BY <2>2
  <2>. HIDE DEF i, j, m, bad
  <2>8. /\ <<m, j>> \in Bounds(c) /\ <<m, j>>[1] = m /\ <<m, j>>[2] = j
        /\ <<i, m - 1>> \in Bounds(c) /\ <<i, m - 1>>[1] = i /\ <<i, m - 1>>[2] = m - 1
    BY <1>1, <2>4, <2>6 DEF Bounds
  <2>9. s[<<m, j>>] = g[<<m, j>>]
    BY <1>1, <2>3, <2>4, <2>5, <2>6, <2>7, <2>8
  <2>10. s[<<i, m - 1>>] = g[<<i, m - 1>>]
    BY <1>1, <2>3, <2>4, <2>5, <2>6, <2>7, <2>8
  <2>11. /\ s[d] = IF i >= j THEN i ELSE IF PromptTokens(c, m) <= Tpm
                                       THEN s[<<m, j>>] ELSE s[<<i, m - 1>>]
         /\ g[d] = IF i >= j THEN i ELSE IF PromptTokens(c, m) <= Tpm
                                       THEN g[<<m, j>>] ELSE g[<<i, m - 1>>]
    BY <1>2, <1>3 DEF i, j, m
  <2>. QED  BY <2>2, <2>9, <2>10, <2>11
<1>5. b = <<b[1], b[2]>> /\ b[1] \in 0 .. ArticleCount(c) /\ b[2] \in 0 .. ArticleCount(c)
  BY DEF Bounds
<1>6. CASE b[1] >= b[2]
  BY <1>3, <1>6 DEF LargestFit
<1>7. CASE b[1] < b[2]
  <2>1. b[2] - b[1] \in Nat /\ b[2] - b[1] \notin bad
    BY <1>1, <1>4, <1>5, <1>7
  <2>2. s[b] = g[b]
    BY <2>1
  <2>. QED  BY <2>2 DEF g
<1>. QED  BY <1>1, <1>5, <1>6, <1>7

\* FitArticles keeps the most articles whose prompt fits, none if not even the
\* smallest does: _fit_articles_prompt's binary search finds the maximum.
LEMMA FitIsLargest ==
  ASSUME NEW c \in Calls
  PROVE  IsLargestFit(c, 0, ArticleCount(c), FitArticles(c))
<1>. DEFINE all == ArticleCount(c)
            s == CHOOSE s : Searches(s, c)
<1>1. all \in Nat
  BY LlmClientAssumption DEF ArticleCount
<1>2. Searches(s, c)
  BY SearchExists
<1>3. <<0, all>> \in Bounds(c)
  BY <1>1 DEF Bounds
<1>. HIDE DEF s
<1>4. s[<<0, all>>] = LargestFit(c, 0, all)
  BY <1>2, <1>3, SearchUnique
<1>5. IsLargestFit(c, 0, all, LargestFit(c, 0, all))
  BY <1>1, LargestFitExists
<1>6. FitArticles(c) = IF PromptTokens(c, all) <= Tpm THEN all ELSE s[<<0, all>>]
  BY DEF FitArticles, s, Searches, ArticleCount, Middle, Bounds
<1>7. PromptTokens(c, all) <= Tpm => IsLargestFit(c, 0, all, all)
  BY <1>1 DEF IsLargestFit
<1>. QED  BY <1>4, <1>5, <1>6, <1>7

LEMMA EstimateType ==
  ASSUME NEW c \in Calls
  PROVE  Kept(c) \in 0 .. ArticleCount(c) /\ Estimate(c) \in Nat
<1>1. ArticleCount(c) \in Nat
  BY LlmClientAssumption DEF ArticleCount
<1>2. FitArticles(c) \in 0 .. ArticleCount(c)
  BY FitIsLargest DEF IsLargestFit
<1>3. Kept(c) \in 0 .. ArticleCount(c)
  BY <1>1, <1>2 DEF Kept, ArticleCount
<1>. QED  BY <1>3, PromptType DEF Estimate

-----------------------------------------------------------------------------
(***************************************************************************)
(* The deques of ages and the queues of the locks.                         *)
(***************************************************************************)
\* n of the ages have reached the limit before the first that has not.
Leads(ages, limit, n) ==
  /\ n \in 0 .. Len(ages)
  /\ \A i \in 1 .. n : ages[i] >= limit
  /\ n < Len(ages) => ages[n + 1] < limit

LEMMA LeadExists ==
  ASSUME NEW ages \in Seq(Nat), NEW limit \in Nat
  PROVE  \E n : Leads(ages, limit, n)
<1>. DEFINE T == {n \in 0 .. Len(ages) : n < Len(ages) => ages[n + 1] < limit}
<1>1. Len(ages) \in T /\ T \subseteq Nat
  OBVIOUS
<1>2. PICK n \in T : \A m \in T : n <= m
  <2>. HIDE DEF T
  <2>. QED  BY <1>1, LeastNumber
<1>3. ASSUME NEW i \in 1 .. n  PROVE ages[i] >= limit
  <2>1. n \in 0 .. Len(ages) /\ Len(ages) \in Nat
    OBVIOUS
  <2>2. i - 1 \in 0 .. Len(ages) /\ i - 1 < n /\ ~(n <= i - 1)
    BY <2>1
  <2>3. i - 1 \notin T
    <3>. HIDE DEF T
    <3>. QED  BY <1>2, <2>2
  <2>. QED  BY <2>2, <2>3
<1>. QED  BY <1>2, <1>3 DEF Leads

\* What is left of a deque once those n are dropped.
LEMMA SinceIsTail ==
  ASSUME NEW ages \in Seq(Nat), NEW limit \in Nat, NEW n, Leads(ages, limit, n)
  PROVE  /\ Since(ages, limit) \in Seq(Nat)
         /\ Len(Since(ages, limit)) = Len(ages) - n
         /\ \A i \in 1 .. Len(ages) - n : Since(ages, limit)[i] = ages[n + i]
<1>. DEFINE dropped == CHOOSE m : Leads(ages, limit, m)
            S == SubSeq(ages, n + 1, Len(ages))
<1>1. Leads(ages, limit, dropped)
  OBVIOUS
<1>2. dropped = n
  BY <1>1 DEF Leads
<1>3. Since(ages, limit) = SubSeq(ages, dropped + 1, Len(ages))
  <2>1. dropped = CHOOSE m \in 0 .. Len(ages) :
                    /\ \A i \in 1 .. m : ages[i] >= limit
                    /\ m < Len(ages) => ages[m + 1] < limit
    BY DEF Leads
  <2>. HIDE DEF dropped
  <2>. QED  BY <2>1 DEF Since
<1>4. n \in 0 .. Len(ages)
  BY DEF Leads
<1>5. \A i \in n + 1 .. Len(ages) : ages[i] \in Nat
  BY <1>4
<1>6. /\ S \in Seq(Nat)
      /\ Len(S) = IF n + 1 <= Len(ages) THEN Len(ages) - (n + 1) + 1 ELSE 0
      /\ \A i \in 1 .. Len(ages) - (n + 1) + 1 : S[i] = ages[n + 1 + i - 1]
  <2>1. n + 1 \in Int /\ Len(ages) \in Int
    BY <1>4
  <2>. QED  BY <1>5, <2>1, SubSeqProperties
<1>7. Since(ages, limit) = S
  BY <1>2, <1>3
<1>8. Len(ages) \in Nat
  OBVIOUS
<1>. HIDE DEF S, dropped
<1>. QED  BY <1>4, <1>6, <1>7, <1>8

LEMMA SinceType ==
  ASSUME NEW ages \in Seq(Nat), NEW limit \in Nat
  PROVE  Since(ages, limit) \in Seq(Nat)
BY LeadExists, SinceIsTail

LEMMA WithoutType ==
  ASSUME NEW queue \in Seq(Calls), NEW c
  PROVE  Without(queue, c) \in Seq(Calls)
<1>1. CASE ~ \E i \in 1 .. Len(queue) : queue[i] = c
  BY <1>1 DEF Without, RemoveFirst
<1>2. CASE \E i \in 1 .. Len(queue) : queue[i] = c
  <2>. DEFINE I == {i \in 1 .. Len(queue) : queue[i] = c}
  <2>1. I # {} /\ I \subseteq Nat
    BY <1>2
  <2>2. PICK n \in I : \A m \in I : n <= m
    <3>. HIDE DEF I
    <3>. QED  BY <2>1, LeastNumber
  <2>3. Min(I) \in I
    <3>. HIDE DEF I
    <3>. QED  BY <2>2 DEF Min
  <2>4. SelectInSeq(queue, LAMBDA v : v = c) = Min(I)
    BY <2>1 DEF SelectInSeq
  <2>5. Without(queue, c) = RemoveAt(queue, Min(I))
    BY <1>2, <2>4 DEF Without, RemoveFirst
  <2>. DEFINE k == Min(I)
  <2>6. k \in 1 .. Len(queue)
    BY <2>3
  <2>. HIDE DEF k, I
  <2>7. SubSeq(queue, 1, k - 1) \in Seq(Calls) /\ SubSeq(queue, k + 1, Len(queue)) \in Seq(Calls)
    BY <2>6
  <2>. QED  BY <2>5, <2>7 DEF RemoveAt, k
<1>. QED  BY <1>1, <1>2

-----------------------------------------------------------------------------
(***************************************************************************)
(* The window of requests.                                                 *)
(***************************************************************************)
\* The deque of the limiter, pruned, is the history: newest last, all of them
\* in the window.
SlotsInv ==
  /\ granted = Live(slots)
  /\ Len(granted) <= Rpm
  /\ \A i \in 1 .. Len(granted) : granted[i] < Window
  /\ \A i, j \in 1 .. Len(granted) : i < j => granted[i] >= granted[j]

LEMMA SlotsInit == LCInit => SlotsInv
<1>. SUFFICES ASSUME LCInit  PROVE SlotsInv
  OBVIOUS
<1>1. slots = <<>> /\ granted = <<>> /\ <<>> \in Seq(Nat) /\ Len(<<>>) = 0
  BY DEF LCInit
<1>2. Window \in Nat /\ Rpm \in Nat
  BY LlmClientAssumption
<1>3. Leads(<<>>, Window, 0)
  BY DEF Leads
<1>4. Live(slots) \in Seq(Nat) /\ Len(Live(slots)) = 0
  <2>. DEFINE e == <<>>
  <2>1. e \in Seq(Nat) /\ Leads(e, Window, 0) /\ Len(e) = 0 /\ slots = e
    BY <1>1, <1>3
  <2>. HIDE DEF e
  <2>2. Since(e, Window) \in Seq(Nat) /\ Len(Since(e, Window)) = Len(e) - 0
    BY <1>2, <2>1, SinceIsTail
  <2>. QED  BY <2>1, <2>2 DEF Live
<1>5. Live(slots) = <<>>
  BY <1>4
<1>. QED  BY <1>1, <1>2, <1>5 DEF SlotsInv

\* A granted slot is in the window, after the others.
LEMMA SlotGranted ==
  ASSUME LCTypeOK, SlotsInv, NEW c \in Calls, GrantSlot(c)
  PROVE  SlotsInv'
<1>. DEFINE s == slots'
<1>1. Window \in Nat \ {0} /\ Rpm \in Nat
  BY LlmClientAssumption
<1>2. granted \in Seq(Nat) /\ Len(granted) \in Nat /\ s = Append(granted, 0) /\ granted' = s
      /\ Len(granted) < Rpm
  BY DEF GrantSlot, SlotsInv, LCTypeOK
<1>3. /\ s \in Seq(Nat) /\ Len(s) = Len(granted) + 1
      /\ \A i \in 1 .. Len(granted) : s[i] = granted[i]
      /\ s[Len(granted) + 1] = 0
  BY <1>2, AppendProperties
<1>4. \A i \in 1 .. Len(s) : s[i] < Window
  BY <1>1, <1>2, <1>3 DEF SlotsInv
<1>5. \A i, j \in 1 .. Len(s) : i < j => s[i] >= s[j]
  <2>. HIDE DEF s
  <2>1. SUFFICES ASSUME NEW i \in 1 .. Len(s), NEW j \in 1 .. Len(s), i < j
        PROVE  s[i] >= s[j]
    OBVIOUS
  <2>2. i \in 1 .. Len(granted) /\ s[i] = granted[i] /\ s[i] \in Nat
    BY <1>2, <1>3, <2>1
  <2>3. CASE j = Len(granted) + 1
    BY <1>3, <2>2, <2>3
  <2>4. CASE j # Len(granted) + 1
    <3>1. j \in 1 .. Len(granted) /\ s[j] = granted[j]
      BY <1>2, <1>3, <2>4
    <3>. QED  BY <2>1, <2>2, <3>1 DEF SlotsInv
  <2>. QED  BY <2>3, <2>4
<1>6. Live(s) = s
  <2>1. Leads(s, Window, 0)
    BY <1>3, <1>4 DEF Leads
  <2>. HIDE DEF s
  <2>2. Live(s) \in Seq(Nat) /\ Len(Live(s)) = Len(s) /\ \A i \in 1 .. Len(s) : Live(s)[i] = s[i]
    BY <1>1, <1>3, <2>1, SinceIsTail DEF Live
  <2>. QED  BY <1>3, <2>2
<1>7. Live(slots)' = s
  BY <1>6 DEF Live
<1>. QED  BY <1>1, <1>2, <1>3, <1>4, <1>5, <1>7 DEF SlotsInv

\* Time drops the same slots from the deque and from the history.
LEMMA SlotsAge ==
  ASSUME LCTypeOK, SlotsInv, TimePasses
  PROVE  /\ SlotsInv'
         /\ slots' \in Seq(Nat) /\ granted' \in Seq(Nat)
<1>. DEFINE s == slots'
            h == [i \in DOMAIN granted |-> granted[i] + 1]
            g == granted'
<1>1. Window \in Nat \ {0} /\ Rpm \in Nat
  BY LlmClientAssumption
<1>2. slots \in Seq(Nat) /\ granted \in Seq(Nat) /\ Len(granted) \in Nat /\ Len(slots) \in Nat
  BY DEF LCTypeOK
<1>3. s \in Seq(Nat) /\ Len(s) = Len(slots) /\ \A i \in 1 .. Len(slots) : s[i] = Older(slots[i], Window)
  <2>1. DOMAIN slots = 1 .. Len(slots)
    BY <1>2
  <2>2. s = [i \in 1 .. Len(slots) |-> Older(slots[i], Window)]
    BY <2>1 DEF TimePasses
  <2>3. \A i \in 1 .. Len(slots) : Older(slots[i], Window) \in Nat
    BY <1>1, <1>2 DEF Older
  <2>. HIDE DEF s
  <2>. QED  BY <1>2, <2>2, <2>3
<1>4. h \in Seq(Nat) /\ Len(h) = Len(granted) /\ \A i \in 1 .. Len(granted) : h[i] = granted[i] + 1
  <2>1. DOMAIN granted = 1 .. Len(granted)
    BY <1>2
  <2>2. \A i \in 1 .. Len(granted) : granted[i] + 1 \in Nat
    BY <1>2
  <2>. QED  BY <1>2, <2>1, <2>2
<1>5. g = Since(h, Window)
  BY DEF TimePasses
<1>6. PICK n : Leads(slots, Window, n)
  BY <1>1, <1>2, LeadExists
<1>7. /\ n \in 0 .. Len(slots) /\ Len(granted) = Len(slots) - n
      /\ \A i \in 1 .. Len(granted) : granted[i] = slots[n + i]
  <2>1. /\ Len(Live(slots)) = Len(slots) - n
        /\ \A i \in 1 .. Len(slots) - n : Live(slots)[i] = slots[n + i]
    BY <1>1, <1>2, <1>6, SinceIsTail DEF Live
  <2>. QED  BY <1>6, <2>1 DEF Leads, SlotsInv
<1>. HIDE DEF s, h, g
<1>8. PICK m : Leads(h, Window, m)
  BY <1>1, <1>4, LeadExists
<1>9. m \in 0 .. Len(granted)
  BY <1>4, <1>8 DEF Leads
<1>10. /\ g \in Seq(Nat) /\ Len(g) = Len(granted) - m
       /\ \A i \in 1 .. Len(granted) - m : g[i] = granted[m + i] + 1
  <2>1. /\ g \in Seq(Nat) /\ Len(g) = Len(granted) - m
        /\ \A i \in 1 .. Len(granted) - m : g[i] = h[m + i]
    BY <1>1, <1>4, <1>5, <1>8, SinceIsTail
  <2>2. \A i \in 1 .. Len(granted) - m : m + i \in 1 .. Len(granted)
    BY <1>2, <1>9
  <2>. QED  BY <1>4, <2>1, <2>2
<1>11. \A i \in 1 .. Len(g) : g[i] < Window
  <2>1. SUFFICES ASSUME NEW i \in 1 .. Len(g)  PROVE g[i] < Window
    OBVIOUS
  <2>2. m < Len(granted) /\ m + 1 \in 1 .. Len(granted) /\ m + i \in 1 .. Len(granted)
    BY <1>2, <1>9, <1>10
  <2>3. granted[m + 1] + 1 < Window
    BY <1>4, <1>8, <2>2 DEF Leads
  <2>4. granted[m + 1] >= granted[m + i]
    <3>1. CASE i = 1
      BY <1>2, <2>2, <3>1
    <3>2. CASE i # 1
      <4>1. m + 1 < m + i
        BY <1>9, <3>2
      <4>. QED  BY <2>2, <4>1 DEF SlotsInv
    <3>. QED  BY <3>1, <3>2
  <2>5. granted[m + 1] \in Nat /\ granted[m + i] \in Nat
    BY <1>2, <2>2
  <2>6. g[i] = granted[m + i] + 1
    BY <1>10
  <2>. QED  BY <1>1, <2>3, <2>4, <2>5, <2>6
<1>12. \A i, j \in 1 .. Len(g) : i < j => g[i] >= g[j]
  <2>1. SUFFICES ASSUME NEW i \in 1 .. Len(g), NEW j \in 1 .. Len(g), i < j
        PROVE  g[i] >= g[j]
    OBVIOUS
  <2>2. m + i \in 1 .. Len(granted) /\ m + j \in 1 .. Len(granted) /\ m + i < m + j
    BY <1>2, <1>9, <1>10, <2>1
  <2>3. granted[m + i] >= granted[m + j]
    BY <2>2 DEF SlotsInv
  <2>4. granted[m + i] \in Nat /\ granted[m + j] \in Nat
    BY <1>2, <2>2
  <2>5. g[i] = granted[m + i] + 1 /\ g[j] = granted[m + j] + 1
    BY <1>10
  <2>. QED  BY <2>3, <2>4, <2>5
<1>13. Leads(s, Window, n + m)
  <2>1. n + m \in 0 .. Len(s)
    BY <1>2, <1>3, <1>7, <1>9
  <2>2. ASSUME NEW i \in 1 .. n + m  PROVE s[i] >= Window
    <3>1. i \in 1 .. Len(slots) /\ s[i] = Older(slots[i], Window) /\ slots[i] \in Nat
      BY <1>2, <1>3, <2>1
    <3>2. CASE i <= n
      BY <1>1, <1>6, <1>7, <3>1, <3>2 DEF Leads, Older
    <3>3. CASE i > n
      <4>1. i - n \in 1 .. m /\ i - n \in 1 .. Len(granted) /\ n + (i - n) = i
        BY <1>2, <1>7, <1>9, <3>3
      <4>2. granted[i - n] = slots[i] /\ h[i - n] = granted[i - n] + 1
        BY <1>4, <1>7, <4>1
      <4>3. h[i - n] >= Window
        BY <1>8, <4>1 DEF Leads
      <4>. QED  BY <1>1, <3>1, <4>2, <4>3 DEF Older
    <3>. QED  BY <1>7, <1>9, <3>2, <3>3
  <2>3. ASSUME n + m < Len(s)  PROVE s[n + m + 1] < Window
    <3>1. m < Len(granted) /\ m + 1 \in 1 .. Len(granted) /\ n + m + 1 \in 1 .. Len(slots)
          /\ n + (m + 1) = n + m + 1
      BY <1>2, <1>3, <1>7, <1>9, <2>3
    <3>2. granted[m + 1] = slots[n + m + 1]
      BY <1>7, <3>1
    <3>3. granted[m + 1] + 1 < Window
      BY <1>4, <1>8, <3>1 DEF Leads
    <3>4. s[n + m + 1] = Older(slots[n + m + 1], Window) /\ slots[n + m + 1] \in Nat
      BY <1>2, <1>3, <3>1
    <3>. QED  BY <1>1, <3>2, <3>3, <3>4 DEF Older
  <2>. QED  BY <2>1, <2>2, <2>3 DEF Leads
<1>14. Live(s) = g
  <2>1. /\ Live(s) \in Seq(Nat) /\ Len(Live(s)) = Len(s) - (n + m)
        /\ \A i \in 1 .. Len(s) - (n + m) : Live(s)[i] = s[n + m + i]
    BY <1>1, <1>3, <1>13, SinceIsTail DEF Live
  <2>2. Len(s) - (n + m) = Len(g)
    BY <1>2, <1>3, <1>7, <1>9, <1>10
  <2>3. ASSUME NEW i \in 1 .. Len(g)  PROVE s[n + m + i] = g[i]
    <3>1. m + i \in 1 .. Len(granted) /\ n + m + i \in 1 .. Len(slots) /\ n + (m + i) = n + m + i
      BY <1>2, <1>7, <1>9, <1>10
    <3>2. granted[m + i] = slots[n + m + i] /\ granted[m + i] < Window
      BY <1>7, <3>1 DEF SlotsInv
    <3>3. s[n + m + i] = Older(slots[n + m + i], Window) /\ g[i] = granted[m + i] + 1
      BY <1>3, <1>10, <3>1
    <3>. QED  BY <3>2, <3>3 DEF Older
  <2>. QED  BY <1>10, <2>1, <2>2, <2>3
<1>15. Live(slots)' = g
  BY <1>14 DEF Live, s
<1>16. Len(g) <= Rpm
  BY <1>1, <1>2, <1>9, <1>10 DEF SlotsInv
<1>. QED  BY <1>3, <1>10, <1>11, <1>12, <1>15, <1>16 DEF SlotsInv, g, s

-----------------------------------------------------------------------------
(***************************************************************************)
(* The reservations.                                                       *)
(***************************************************************************)
ReservationType(rs) ==
  /\ DOMAIN rs \subseteq Calls
  /\ rs \in [DOMAIN rs -> [age : Nat, tokens : Nat]]

LEMMA TokensType ==
  ASSUME NEW rs, ReservationType(rs), NEW S, S \subseteq DOMAIN rs
  PROVE  TokensOf(rs, S) \in Nat
<1>1. IsFiniteSet(S)
  BY LlmClientAssumption, FS_Subset DEF ReservationType
<1>. DEFINE f == [c \in DOMAIN rs |-> rs[c].tokens]
<1>2. \A c \in S : f[c] \in Nat
  BY DEF ReservationType
<1>. HIDE DEF f
<1>3. SumOf(f, S) \in Nat
  BY <1>1, <1>2, SumNat
<1>. QED  BY <1>3 DEF TokensOf, f

\* Reservations that agree but for one call.
LEMMA TokensAdd ==
  ASSUME NEW rs, ReservationType(rs), NEW qs, ReservationType(qs),
         NEW D, NEW c, c \notin D, NEW E, E = D \cup {c},
         E \subseteq DOMAIN rs, D \subseteq DOMAIN qs,
         \A d \in D : rs[d].tokens = qs[d].tokens
  PROVE  /\ TokensOf(rs, E) = rs[c].tokens + TokensOf(qs, D)
         /\ TokensOf(qs, D) \in Nat /\ rs[c].tokens \in Nat
<1>. DEFINE f == [d \in DOMAIN rs |-> rs[d].tokens]
            g == [d \in DOMAIN qs |-> qs[d].tokens]
<1>1. IsFiniteSet(E) /\ IsFiniteSet(D)
  BY LlmClientAssumption, FS_Subset DEF ReservationType
<1>2. \A d \in E : f[d] \in Int
  BY DEF ReservationType
<1>3. \A d \in D : f[d] \in Int /\ g[d] = f[d]
  BY DEF ReservationType
<1>4. c \in E /\ E \ {c} = D /\ f[c] = rs[c].tokens /\ rs[c].tokens \in Nat
  BY DEF ReservationType
<1>5. TokensOf(qs, D) \in Nat
  BY TokensType
<1>. HIDE DEF f, g
<1>6. SumOf(f, E) = f[c] + SumOf(f, D)
  BY <1>1, <1>2, <1>4, SumRemove
<1>7. SumOf(f, D) = SumOf(g, D)
  BY <1>1, <1>3, SumSame
<1>. QED  BY <1>4, <1>5, <1>6, <1>7 DEF TokensOf, f, g

ReservedInv == reserved = TokensOf(reservations, DOMAIN reservations)

\* Popping takes off what the popped reservations had added.
LEMMA PrunedIsLive ==
  ASSUME ReservationType(reservations), ReservedInv
  PROVE  /\ ReservationType(LiveReservations)
         /\ DOMAIN LiveReservations = DOMAIN reservations \ Popped
         /\ \A c \in DOMAIN LiveReservations : LiveReservations[c] = reservations[c]
         /\ Pruned = TokensOf(LiveReservations, DOMAIN LiveReservations)
         /\ Pruned \in Nat
<1>. DEFINE D == DOMAIN reservations
            f == [c \in D |-> reservations[c].tokens]
            live == D \ Popped
            g == [c \in live |-> LiveReservations[c].tokens]
<1>1. IsFiniteSet(D) /\ Popped \subseteq D
  BY LlmClientAssumption, FS_Subset DEF ReservationType, Popped
<1>2. DOMAIN LiveReservations = live /\ \A c \in live : LiveReservations[c] = reservations[c]
  BY DEF LiveReservations, Restrict
<1>3. LiveReservations = [c \in live |-> reservations[c]]
  BY DEF LiveReservations, Restrict
<1>4. ReservationType(LiveReservations)
  BY <1>2, <1>3 DEF ReservationType
<1>5. \A c \in D : f[c] \in Int
  BY DEF ReservationType
<1>6. \A c \in live : f[c] \in Int /\ g[c] = f[c]
  BY <1>2 DEF ReservationType
<1>7. TokensOf(LiveReservations, live) = SumOf(g, live)
      /\ TokensOf(reservations, D) = SumOf(f, D)
      /\ TokensOf(reservations, Popped) = SumOf(f, Popped)
  BY <1>2 DEF TokensOf
<1>8. IsFiniteSet(live) /\ IsFiniteSet(Popped)
  BY <1>1, FS_Subset
<1>. HIDE DEF f, g
<1>9. SumOf(f, D) = SumOf(f, D \ Popped) + SumOf(f, Popped)
  BY <1>1, <1>5, SumSplit
<1>. HIDE DEF D, live
<1>10. SumOf(f, live) = SumOf(g, live)
  BY <1>6, <1>8, SumSame
<1>11. SumOf(f, live) \in Int /\ SumOf(f, Popped) \in Int
  <2>1. \A c \in Popped : f[c] \in Int
    BY <1>1, <1>5
  <2>. QED  BY <1>6, <1>8, <2>1, SumType
<1>12. Pruned = TokensOf(LiveReservations, live)
  BY <1>7, <1>9, <1>10, <1>11 DEF Pruned, ReservedInv, D, live
<1>13. TokensOf(LiveReservations, live) \in Nat
  BY <1>2, <1>4, TokensType
<1>. QED  BY <1>2, <1>4, <1>12, <1>13 DEF D, live

\* The deque and the counter agree after each of the limiter's two operations.
LEMMA GrantedIsReserved ==
  ASSUME ReservationType(reservations), ReservedInv, NEW c \in Calls, GrantTokens(c),
         c \notin DOMAIN reservations
  PROVE  /\ ReservedInv' /\ ReservationType(reservations')
         /\ DOMAIN reservations' = DOMAIN LiveReservations \cup {c}
         /\ reservations'[c] = [age |-> 0, tokens |-> Estimate(c)]
         /\ \A d \in DOMAIN LiveReservations : d # c /\ reservations'[d] = reservations[d]
<1>. DEFINE held == LiveReservations
            D == DOMAIN held
            rs == WithReservation(c)
<1>1. /\ ReservationType(held) /\ D \subseteq DOMAIN reservations
      /\ \A d \in D : held[d] = reservations[d]
      /\ Pruned = TokensOf(held, D)
  BY PrunedIsLive
<1>2. Estimate(c) \in Nat
  BY EstimateType
<1>3. /\ DOMAIN rs = D \cup {c} /\ rs[c] = [age |-> 0, tokens |-> Estimate(c)]
      /\ \A d \in D : d # c /\ rs[d] = held[d]
  BY <1>1 DEF WithReservation
<1>4. ReservationType(rs)
  <2>1. \A d \in D \cup {c} : rs[d] \in [age : Nat, tokens : Nat]
    BY <1>1, <1>2, <1>3 DEF ReservationType
  <2>2. D \cup {c} \subseteq Calls
    BY <1>1 DEF ReservationType
  <2>3. rs = [d \in DOMAIN rs |-> rs[d]]
    BY DEF WithReservation
  <2>. HIDE DEF rs
  <2>. QED  BY <1>3, <2>1, <2>2, <2>3 DEF ReservationType
<1>. HIDE DEF D, rs, held
<1>5. TokensOf(rs, DOMAIN rs) = rs[c].tokens + TokensOf(held, D)
      /\ TokensOf(held, D) \in Nat
  <2>1. c \notin D /\ D \cup {c} \subseteq DOMAIN rs /\ D \subseteq DOMAIN held
        /\ \A d \in D : rs[d].tokens = held[d].tokens
    BY <1>3 DEF D
  <2>2. ReservationType(held) /\ ReservationType(rs)
    BY <1>1, <1>4
  <2>3. c \notin D
    BY <2>1
  <2>4. DOMAIN rs = D \cup {c} /\ DOMAIN rs \subseteq DOMAIN rs
    BY <1>3 DEF D
  <2>5. D \subseteq DOMAIN held
    BY <2>1
  <2>6. \A d \in D : rs[d].tokens = held[d].tokens
    BY <2>1
  <2>. QED  BY <2>2, <2>3, <2>4, <2>5, <2>6, TokensAdd
<1>6. reservations' = rs /\ reserved' = Pruned + Estimate(c)
  BY DEF GrantTokens, rs
<1>7. reserved' = TokensOf(rs, DOMAIN rs)
  BY <1>1, <1>2, <1>3, <1>5, <1>6
<1>. QED  BY <1>1, <1>3, <1>4, <1>6, <1>7 DEF ReservedInv, D, held

LEMMA ReconciledIsReserved ==
  ASSUME ReservationType(reservations), ReservedInv, NEW c \in Calls, ReportUsage(c),
         usage[c] \in Nat
  PROVE  /\ ReservedInv' /\ ReservationType(reservations')
         /\ DOMAIN reservations' = DOMAIN LiveReservations
         /\ \A d \in DOMAIN LiveReservations : d # c => reservations'[d] = reservations[d]
         /\ c \in DOMAIN LiveReservations =>
              reservations'[c] = [age |-> reservations[c].age, tokens |-> usage[c]]
<1>. DEFINE held == LiveReservations
            D == DOMAIN held
            rs == [held EXCEPT ![c].tokens = usage[c]]
<1>1. /\ ReservationType(held) /\ \A d \in D : held[d] = reservations[d]
      /\ Pruned = TokensOf(held, D) /\ Pruned \in Nat
  BY PrunedIsLive
<1>2. CASE c \notin D
  BY <1>1, <1>2 DEF ReportUsage, ReservedInv
<1>3. CASE c \in D
  <2>1. reservations' = rs /\ reserved' = Pruned + usage[c] - reservations[c].tokens
    BY <1>3 DEF ReportUsage, Reconcile
  <2>. HIDE DEF held
  <2>2. /\ DOMAIN rs = D
        /\ rs[c] = [age |-> held[c].age, tokens |-> usage[c]]
        /\ \A d \in D : d # c => rs[d] = held[d]
        /\ rs \in [D -> [age : Nat, tokens : Nat]]
    BY <1>1, <1>3 DEF ReservationType
  <2>3. ReservationType(rs)
    BY <1>1, <2>2 DEF ReservationType
  <2>. DEFINE E == D \ {c}
  <2>4. D = E \cup {c} /\ c \notin E
    BY <1>3
  <2>. HIDE DEF rs, D, E
  <2>5. TokensOf(rs, D) = rs[c].tokens + TokensOf(held, E)
        /\ TokensOf(held, E) \in Nat
    <3>1. D \subseteq DOMAIN rs /\ E \subseteq DOMAIN held
          /\ \A d \in E : rs[d].tokens = held[d].tokens
      BY <2>2, <2>4 DEF E, D
    <3>. QED  BY <1>1, <2>3, <2>4, <3>1, TokensAdd
  <2>6. TokensOf(held, D) = held[c].tokens + TokensOf(held, E)
        /\ held[c].tokens \in Nat
    <3>1. D \subseteq DOMAIN held /\ E \subseteq DOMAIN held
      BY <2>4 DEF D
    <3>. QED  BY <1>1, <2>4, <3>1, TokensAdd
  <2>7. reserved' = TokensOf(rs, DOMAIN rs)
    <3>1. rs[c].tokens = usage[c] /\ held[c].tokens = reservations[c].tokens
      BY <1>1, <1>3, <2>2
    <3>2. DOMAIN rs = D
      BY <2>2
    <3>3. usage[c] \in Nat /\ Pruned = TokensOf(held, D)
      BY <1>1
    <3>. QED  BY <2>1, <2>5, <2>6, <3>1, <3>2, <3>3
  <2>. QED  BY <1>1, <1>3, <2>1, <2>2, <2>3, <2>7 DEF ReservedInv, D, held
<1>. QED  BY <1>2, <1>3

LEMMA AgedIsReserved ==
  ASSUME ReservationType(reservations), ReservedInv, TimePasses
  PROVE  ReservedInv' /\ ReservationType(reservations')
<1>. DEFINE D == DOMAIN reservations
            rs == reservations'
            f == [c \in D |-> reservations[c].tokens]
            g == [c \in DOMAIN rs |-> rs[c].tokens]
<1>1. Window \in Nat
  BY LlmClientAssumption
<1>2. rs = [c \in D |-> [reservations[c] EXCEPT !.age = Older(@, Window)]]
  BY DEF TimePasses
<1>3. \A c \in D : /\ rs[c] \in [age : Nat, tokens : Nat]
                   /\ rs[c].tokens = reservations[c].tokens
  BY <1>1, <1>2 DEF ReservationType, Older
<1>4. ReservationType(rs) /\ DOMAIN rs = D
  BY <1>2, <1>3 DEF ReservationType
<1>5. f = g
  BY <1>3, <1>4
<1>6. TokensOf(rs, DOMAIN rs) = TokensOf(reservations, D)
  BY <1>4, <1>5 DEF TokensOf
<1>. QED  BY <1>4, <1>6 DEF ReservedInv, TimePasses

-----------------------------------------------------------------------------
(***************************************************************************)
(* Types.                                                                  *)
(***************************************************************************)
LEMMA LlmTypeInit == LCInit => LCTypeOK /\ ReservedInv
<1>. SUFFICES ASSUME LCInit  PROVE LCTypeOK /\ ReservedInv
  OBVIOUS
<1>1. Window \in Nat
  BY LlmClientAssumption
<1>2. TokensOf(<<>>, {}) = 0
  BY SumEmpty DEF TokensOf
<1>3. reservations = <<>> /\ DOMAIN reservations = {}
  BY DEF LCInit
<1>4. reservations \in [{} -> [age : Nat, tokens : Nat]]
  BY <1>3
<1>. QED  BY <1>1, <1>2, <1>3, <1>4 DEF LCInit, LCTypeOK, ReservedInv, NotSpent

\* The call's local variables, wherever it goes.
CallsType ==
  /\ pc \in [Calls -> {"idle", "ended"} \cup InFlight]
  /\ attempt \in [Calls -> Nat]
  /\ wait \in [Calls -> Nat]
  /\ usage \in [Calls -> Nat]

LEMMA EndType ==
  ASSUME LCTypeOK, NEW c \in Calls, End(c)
  PROVE  CallsType'
<1>. USE DEF End, Goto, LCTypeOK
<1>1. pc' \in [Calls -> {"idle", "ended"} \cup InFlight]
  OBVIOUS
<1>2. attempt' \in [Calls -> Nat]
  OBVIOUS
<1>3. wait' \in [Calls -> Nat]
  OBVIOUS
<1>4. usage' \in [Calls -> Nat]
  OBVIOUS
<1>. QED  BY <1>1, <1>2, <1>3, <1>4 DEF CallsType

LEMMA GotoType ==
  ASSUME LCTypeOK, NEW c \in Calls, NEW place \in InFlight, Goto(c, place)
  PROVE  pc' \in [Calls -> {"idle", "ended"} \cup InFlight]
BY DEF Goto, LCTypeOK

LEMMA HalfOpenType ==
  ASSUME LCTypeOK, HalfOpen
  PROVE  rejections' \in Nat /\ openFor' \in {Closed} \cup Nat
BY LlmClientAssumption DEF HalfOpen, LCTypeOK

\* A call that waits for tokens holds none.
ReservesOnce == \A c \in Calls : pc[c] = "tokens" => c \notin DOMAIN reservations

LEMMA LlmTypeStep ==
  LCTypeOK /\ ReservedInv /\ SlotsInv /\ ReservesOnce /\ [LCNext]_lcVars
    => LCTypeOK' /\ ReservedInv'
<1>. SUFFICES ASSUME LCTypeOK, ReservedInv, SlotsInv, ReservesOnce, [LCNext]_lcVars
     PROVE  LCTypeOK' /\ ReservedInv'
  OBVIOUS
<1>. USE DEF rateLimiter, tokenLimiter, circuit, calls, InFlight
<1>0. /\ Window \in Nat /\ Reset \in Nat /\ Threshold \in Nat \ {0}
      /\ Actuals \subseteq Nat /\ Backoffs \subseteq Nat
  BY LlmClientAssumption
<1>a. ReservationType(reservations)
  BY DEF LCTypeOK, ReservationType
<1>1. ASSUME NEW c \in Calls, Begin(c)  PROVE LCTypeOK' /\ ReservedInv'
  <2>1. rejections' \in Nat /\ openFor' \in {Closed} \cup Nat
    BY <1>1, HalfOpenType DEF Begin
  <2>2. pc' \in [Calls -> {"idle", "ended"} \cup InFlight]
    BY <1>1, GotoType DEF Begin
  <2>3. slotQueue' \in Seq(Calls)
    BY <1>1 DEF Begin, LCTypeOK
  <2>. QED  BY <1>1, <2>1, <2>2, <2>3 DEF Begin, LCTypeOK, ReservedInv
<1>2. ASSUME NEW c \in Calls, Refused(c)  PROVE LCTypeOK' /\ ReservedInv'
  <2>1. rejections' \in Nat /\ openFor' \in {Closed} \cup Nat
    BY <1>2, HalfOpenType DEF Refused, LCTypeOK
  <2>2. CallsType'
    BY <1>2, EndType DEF Refused
  <2>. QED  BY <1>2, <2>1, <2>2 DEF Refused, CallsType, LCTypeOK, ReservedInv
<1>3. ASSUME NEW c \in Calls, GrantSlot(c)  PROVE LCTypeOK' /\ ReservedInv'
  <2>1. slots' \in Seq(Nat) /\ granted' \in Seq(Nat) /\ slotQueue' \in Seq(Calls)
    BY <1>3 DEF GrantSlot, LCTypeOK, SlotsInv
  <2>2. CallsType' /\ tokenQueue' \in Seq(Calls)
    <3>1. CASE /\ attempt' = [attempt EXCEPT ![c] = @ + 1]
               /\ Goto(c, "sent")
               /\ UNCHANGED <<wait, usage, tokenQueue>>
      <4>1. attempt' \in [Calls -> Nat]
        BY <3>1 DEF LCTypeOK
      <4>. QED  BY <3>1, <4>1, GotoType DEF CallsType, LCTypeOK
    <3>2. CASE /\ Goto(c, "tokens")
               /\ tokenQueue' = Append(tokenQueue, c)
               /\ UNCHANGED <<attempt, wait, usage>>
      <4>1. tokenQueue' \in Seq(Calls)
        BY <3>2 DEF LCTypeOK
      <4>2. pc' \in [Calls -> {"idle", "ended"} \cup InFlight]
        <5>1. "tokens" \in InFlight
          OBVIOUS
        <5>. QED  BY <3>2, <5>1, GotoType
      <4>. QED  BY <3>2, <4>1, <4>2 DEF CallsType, LCTypeOK
    <3>3. CASE End(c) /\ UNCHANGED tokenQueue
      BY <3>3, EndType DEF LCTypeOK
    <3>. QED  BY <1>3, <3>1, <3>2, <3>3 DEF GrantSlot
  <2>. QED  BY <1>3, <2>1, <2>2 DEF GrantSlot, CallsType, LCTypeOK, ReservedInv
<1>4. ASSUME NEW c \in Calls, GrantTokens(c)  PROVE LCTypeOK' /\ ReservedInv'
  <2>0. c \notin DOMAIN reservations
    BY <1>4 DEF GrantTokens, ReservesOnce
  <2>1. ReservedInv' /\ ReservationType(reservations')
    BY <1>a, <1>4, <2>0, GrantedIsReserved
  <2>2. Pruned \in Nat /\ Estimate(c) \in Nat
    BY <1>a, PrunedIsLive, EstimateType
  <2>3. reserved' \in Nat /\ spent' \in [Calls -> [age : Nat, tokens : Nat]]
    <3>1. reserved' \in Nat
      BY <1>4, <2>2 DEF GrantTokens
    <3>2. [age |-> 0, tokens |-> Estimate(c)] \in [age : Nat, tokens : Nat]
      BY <2>2
    <3>. QED  BY <1>4, <3>1, <3>2 DEF GrantTokens, LCTypeOK
  <2>4. tokenQueue' \in Seq(Calls)
    BY <1>4 DEF GrantTokens, LCTypeOK
  <2>5. /\ pc' \in [Calls -> {"idle", "ended"} \cup InFlight]
        /\ attempt' \in [Calls -> Nat]
    BY <1>4 DEF GrantTokens, Goto, LCTypeOK
  <2>. QED  BY <1>4, <2>1, <2>3, <2>4, <2>5 DEF GrantTokens, ReservationType, LCTypeOK
<1>5. ASSUME NEW c \in Calls, Answer(c)  PROVE LCTypeOK' /\ ReservedInv'
  <2>1. CASE End(c) /\ UNCHANGED <<tokenQueue, spent>>
    BY <1>5, <2>1, EndType DEF Answer, RecordSuccess, CallsType, LCTypeOK, ReservedInv
  <2>2. CASE /\ \E tokens \in Actuals :
                  /\ usage' = [usage EXCEPT ![c] = tokens]
                  /\ spent' = [spent EXCEPT ![c].tokens = tokens]
             /\ tokenQueue' = Append(tokenQueue, c)
             /\ Goto(c, "reconcile")
             /\ UNCHANGED <<attempt, wait>>
    <3>1. PICK t \in Actuals : /\ usage' = [usage EXCEPT ![c] = t]
                               /\ spent' = [spent EXCEPT ![c].tokens = t]
      BY <2>2
    <3>2. t \in Nat
      BY <1>0
    <3>3. usage' \in [Calls -> Nat]
      BY <3>1, <3>2 DEF LCTypeOK
    <3>4. spent' \in [Calls -> [age : Nat, tokens : Nat]]
      <4>1. [spent[c] EXCEPT !.tokens = t] \in [age : Nat, tokens : Nat]
        BY <3>2 DEF LCTypeOK
      <4>2. spent' = [spent EXCEPT ![c] = [spent[c] EXCEPT !.tokens = t]]
        BY <3>1
      <4>. QED  BY <4>1, <4>2 DEF LCTypeOK
    <3>5. pc' \in [Calls -> {"idle", "ended"} \cup InFlight]
      <4>1. "reconcile" \in InFlight
        OBVIOUS
      <4>. QED  BY <2>2, <4>1, GotoType
    <3>6. tokenQueue' \in Seq(Calls)
      BY <2>2 DEF LCTypeOK
    <3>. QED  BY <1>5, <2>2, <3>3, <3>4, <3>5, <3>6
              DEF Answer, RecordSuccess, LCTypeOK, ReservedInv
  <2>. QED  BY <1>5, <2>1, <2>2 DEF Answer
<1>6. ASSUME NEW c \in Calls, ReportUsage(c)  PROVE LCTypeOK' /\ ReservedInv'
  <2>1. ReservedInv' /\ ReservationType(reservations')
    BY <1>a, <1>6, ReconciledIsReserved DEF LCTypeOK
  <2>2. reserved' \in Nat
    BY <2>1, TokensType DEF ReservedInv
  <2>3. tokenQueue' \in Seq(Calls)
    BY <1>6 DEF ReportUsage, LCTypeOK
  <2>4. CallsType'
    BY <1>6, EndType DEF ReportUsage
  <2>. QED  BY <1>6, <2>1, <2>2, <2>3, <2>4
            DEF ReportUsage, CallsType, ReservationType, LCTypeOK
<1>7. ASSUME NEW c \in Calls, ConfigurationError(c)  PROVE LCTypeOK' /\ ReservedInv'
  <2>1. CallsType'
    BY <1>7, EndType DEF ConfigurationError
  <2>2. rejections' \in Nat /\ openFor' \in {Closed} \cup Nat
    BY <1>7 DEF ConfigurationError, RecordRejection, LCTypeOK
  <2>. QED  BY <1>7, <2>1, <2>2 DEF ConfigurationError, CallsType, LCTypeOK, ReservedInv
<1>8. ASSUME NEW c \in Calls, OtherError(c)  PROVE LCTypeOK' /\ ReservedInv'
  BY <1>8, EndType DEF OtherError, CallsType, LCTypeOK, ReservedInv
<1>9. ASSUME NEW c \in Calls, TransientError(c)  PROVE LCTypeOK' /\ ReservedInv'
  <2>1. CallsType'
    <3>1. CASE End(c)
      BY <3>1, EndType
    <3>2. CASE /\ \E delay \in Backoffs : wait' = [wait EXCEPT ![c] = delay]
               /\ Goto(c, "backoff")
               /\ UNCHANGED <<attempt, usage>>
      <4>1. wait' \in [Calls -> Nat]
        BY <1>0, <3>2 DEF LCTypeOK
      <4>. QED  BY <3>2, <4>1, GotoType DEF CallsType, LCTypeOK
    <3>. QED  BY <1>9, <3>1, <3>2 DEF TransientError
  <2>. QED  BY <1>9, <2>1 DEF TransientError, CallsType, LCTypeOK, ReservedInv
<1>10. ASSUME NEW c \in Calls, BackoffEnds(c)  PROVE LCTypeOK' /\ ReservedInv'
  <2>1. pc' \in [Calls -> {"idle", "ended"} \cup InFlight]
    <3>1. "slot" \in InFlight
      OBVIOUS
    <3>. QED  BY <1>10, <3>1, GotoType DEF BackoffEnds
  <2>2. slotQueue' \in Seq(Calls)
    BY <1>10 DEF BackoffEnds, LCTypeOK
  <2>. QED  BY <1>10, <2>1, <2>2 DEF BackoffEnds, LCTypeOK, ReservedInv
<1>11. ASSUME NEW c \in Calls, Cancel(c)  PROVE LCTypeOK' /\ ReservedInv'
  <2>1. slotQueue' \in Seq(Calls) /\ tokenQueue' \in Seq(Calls)
    BY <1>11, WithoutType DEF Cancel, LCTypeOK
  <2>. QED  BY <1>11, <2>1, EndType DEF Cancel, CallsType, LCTypeOK, ReservedInv
<1>12. ASSUME TimePasses  PROVE LCTypeOK' /\ ReservedInv'
  <2>1. slots' \in Seq(Nat) /\ granted' \in Seq(Nat)
    BY <1>12, SlotsAge
  <2>2. ReservedInv' /\ ReservationType(reservations')
    BY <1>a, <1>12, AgedIsReserved
  <2>3. openFor' \in {Closed} \cup Nat
    BY <1>0, <1>12 DEF TimePasses, LCTypeOK, Older, Closed
  <2>4. wait' \in [Calls -> Nat]
    BY <1>12 DEF TimePasses, LCTypeOK
  <2>5. spent' \in [Calls -> [age : Nat, tokens : Nat]]
    <3>1. \A c \in Calls : spent[c] \in [age : Nat, tokens : Nat]
      BY DEF LCTypeOK
    <3>2. \A c \in Calls : (IF spent[c].age + 1 < Window
                            THEN [spent[c] EXCEPT !.age = @ + 1] ELSE NotSpent)
                              \in [age : Nat, tokens : Nat]
      BY <1>0, <3>1 DEF NotSpent
    <3>. QED  BY <1>12, <3>2 DEF TimePasses
  <2>. QED  BY <1>12, <2>1, <2>2, <2>3, <2>4, <2>5 DEF TimePasses, ReservationType, LCTypeOK
<1>13. CASE UNCHANGED lcVars
  BY <1>13 DEF lcVars, LCTypeOK, ReservedInv
<1>. QED
  BY <1>1, <1>2, <1>3, <1>4, <1>5, <1>6, <1>7, <1>8, <1>9, <1>10, <1>11, <1>12, <1>13
     DEF LCNext, Verdict

-----------------------------------------------------------------------------
(***************************************************************************)
(* The window of tokens.                                                   *)
(***************************************************************************)
InWindow == {c \in Calls : spent[c].age < Window}

\* What a call has spent, up to its estimate.
Capped == [c \in Calls |-> IF spent[c].tokens <= Estimate(c) THEN spent[c].tokens
                           ELSE Estimate(c)]

\* The reservation of call c and what it has spent: the deque holds no less than
\* the history charges for, until both leave the window at the same moment.
ReservationInv(c) ==
  IF c \in DOMAIN reservations
  THEN /\ pc[c] \in {"slot", "sent", "backoff", "reconcile", "ended"}
       /\ pc[c] \in {"slot", "sent", "backoff"} => attempt[c] > 0
       /\ spent[c].age = reservations[c].age
       /\ spent[c].age <= Window
       /\ pc[c] # "ended" => reservations[c].tokens = Estimate(c)
       /\ spent[c].age < Window =>
            /\ Capped[c] <= reservations[c].tokens
            /\ pc[c] \in {"slot", "sent", "backoff"} => spent[c].tokens = Estimate(c)
            /\ pc[c] = "reconcile" => spent[c].tokens = usage[c]
  ELSE spent[c].age = Window

TokensInv ==
  /\ ReservedInv
  /\ \A c \in Calls : ReservationInv(c)
  /\ SumOf(Capped, InWindow) <= Tpm

LEMMA CappedType ==
  ASSUME LCTypeOK, NEW c \in Calls
  PROVE  /\ Capped[c] \in Nat /\ Estimate(c) \in Nat
         /\ Capped[c] <= Estimate(c) /\ Capped[c] <= spent[c].tokens
         /\ spent[c].tokens \in Nat /\ spent[c].age \in Nat
BY EstimateType DEF Capped, LCTypeOK

LEMMA TokensInit == LCInit => (\A c \in Calls : ReservationInv(c)) /\ SumOf(Capped, InWindow) <= Tpm
<1>. SUFFICES ASSUME LCInit
     PROVE  (\A c \in Calls : ReservationInv(c)) /\ SumOf(Capped, InWindow) <= Tpm
  OBVIOUS
<1>1. Window \in Nat /\ Tpm \in Nat
  BY LlmClientAssumption
<1>2. \A c \in Calls : spent[c].age = Window
  BY DEF LCInit, NotSpent
<1>3. DOMAIN reservations = {}
  BY DEF LCInit
<1>4. InWindow = {}
  BY <1>1, <1>2 DEF InWindow
<1>5. SumOf(Capped, InWindow) = 0
  BY <1>4, SumEmpty
<1>. QED  BY <1>1, <1>2, <1>3, <1>5 DEF ReservationInv

LEMMA InvMeansOnce ==
  ASSUME \A c \in Calls : ReservationInv(c)
  PROVE  ReservesOnce
BY DEF ReservesOnce, ReservationInv

\* What another call's step leaves of call d: its reservation, unless it is popped.
LEMMA ReservationKept ==
  ASSUME NEW d \in Calls, ReservationInv(d), LCTypeOK,
         pc'[d] = pc[d], attempt'[d] = attempt[d], usage'[d] = usage[d],
         spent'[d] = spent[d],
         d \in DOMAIN reservations' =>
           d \in DOMAIN reservations /\ reservations'[d] = reservations[d],
         d \in DOMAIN reservations /\ d \notin DOMAIN reservations' =>
           reservations[d].age >= Window
  PROVE  ReservationInv(d)'
<1>1. Capped'[d] = Capped[d]
  BY DEF Capped
<1>2. CASE d \in DOMAIN reservations'
  BY <1>1, <1>2 DEF ReservationInv
<1>3. CASE d \notin DOMAIN reservations'
  <2>1. Window \in Nat /\ spent[d].age \in Nat
    BY LlmClientAssumption DEF LCTypeOK
  <2>. QED  BY <1>3, <2>1 DEF ReservationInv
<1>. QED  BY <1>2, <1>3

LEMMA ReservationEnds ==
  ASSUME NEW c \in Calls, ReservationInv(c), LCTypeOK, End(c), spent' = spent,
         reservations' = reservations
  PROVE  ReservationInv(c)'
<1>1. Capped'[c] = Capped[c]
  BY DEF Capped
<1>2. pc'[c] = "ended"
  BY DEF End, Goto, LCTypeOK
<1>. QED  BY <1>1, <1>2 DEF ReservationInv

\* The steps that leave the reservations and the history alone.
LEMMA ReservationQuiet ==
  ASSUME \A d \in Calls : ReservationInv(d), LCTypeOK, NEW c \in Calls,
         spent' = spent, reservations' = reservations, ReservationInv(c)',
         \A d \in Calls \ {c} : /\ pc'[d] = pc[d] /\ attempt'[d] = attempt[d]
                                /\ usage'[d] = usage[d]
  PROVE  /\ \A d \in Calls : ReservationInv(d)'
         /\ SumOf(Capped, InWindow)' = SumOf(Capped, InWindow)
<1>1. ASSUME NEW d \in Calls  PROVE ReservationInv(d)'
  <2>1. CASE d = c
    BY <2>1
  <2>2. CASE d # c
    BY <2>2, ReservationKept
  <2>. QED  BY <2>1, <2>2
<1>2. Capped' = Capped /\ InWindow' = InWindow
  BY DEF Capped, InWindow
<1>. QED  BY <1>1, <1>2

LEMMA EndElsewhere ==
  ASSUME LCTypeOK, NEW c \in Calls, End(c)
  PROVE  \A d \in Calls \ {c} : /\ pc'[d] = pc[d] /\ attempt'[d] = attempt[d]
                                /\ usage'[d] = usage[d]
BY DEF End, Goto, LCTypeOK

LEMMA TokensEnd ==
  ASSUME \A d \in Calls : ReservationInv(d), LCTypeOK, NEW c \in Calls,
         spent' = spent, reservations' = reservations, End(c)
  PROVE  /\ \A d \in Calls : ReservationInv(d)'
         /\ SumOf(Capped, InWindow)' = SumOf(Capped, InWindow)
<1>1. ReservationInv(c)'
  BY ReservationEnds
<1>. QED  BY <1>1, EndElsewhere, ReservationQuiet

\* The estimate of a granted call fits beside all that is charged for: each
\* charge is below its reservation, and the reservations add up to Pruned.
LEMMA TokensGranted ==
  ASSUME LCTypeOK, TokensInv, NEW c \in Calls, GrantTokens(c)
  PROVE  /\ \A d \in Calls : ReservationInv(d)'
         /\ SumOf(Capped, InWindow)' <= Tpm
<1>. DEFINE held == LiveReservations
            E == DOMAIN held
            f == [d \in E |-> held[d].tokens]
<1>0. Window \in Nat \ {0} /\ Tpm \in Nat
  BY LlmClientAssumption
<1>1. ReservationType(reservations) /\ ReservedInv
  BY DEF LCTypeOK, ReservationType, TokensInv
<1>2. c \notin DOMAIN reservations /\ spent[c].age = Window
  BY DEF GrantTokens, TokensInv, ReservationInv
<1>3. /\ ReservationType(held)
      /\ E = DOMAIN reservations \ Popped
      /\ \A d \in E : held[d] = reservations[d]
      /\ Pruned = TokensOf(held, E) /\ Pruned \in Nat
  BY <1>1, PrunedIsLive
<1>4. /\ DOMAIN reservations' = E \cup {c}
      /\ reservations'[c] = [age |-> 0, tokens |-> Estimate(c)]
      /\ \A d \in E : d # c /\ reservations'[d] = reservations[d]
  BY <1>1, <1>2, GrantedIsReserved
<1>5. /\ spent'[c] = [age |-> 0, tokens |-> Estimate(c)]
      /\ pc'[c] = "sent" /\ attempt'[c] = 1
      /\ \A d \in Calls \ {c} : /\ pc'[d] = pc[d] /\ attempt'[d] = attempt[d]
                                /\ usage'[d] = usage[d] /\ spent'[d] = spent[d]
  BY DEF GrantTokens, Goto, LCTypeOK
<1>6. Estimate(c) \in Nat
  BY EstimateType
<1>7. Capped'[c] = Estimate(c) /\ \A d \in Calls \ {c} : Capped'[d] = Capped[d]
  BY <1>5, <1>6 DEF Capped
<1>8. ReservationInv(c)'
  BY <1>0, <1>4, <1>5, <1>6, <1>7 DEF ReservationInv
<1>9. ASSUME NEW d \in Calls \ {c}  PROVE ReservationInv(d)'
  <2>1. d \in DOMAIN reservations' =>
          d \in DOMAIN reservations /\ reservations'[d] = reservations[d]
    BY <1>3, <1>4
  <2>2. d \in DOMAIN reservations /\ d \notin DOMAIN reservations' =>
          reservations[d].age >= Window
    BY <1>3, <1>4 DEF Popped
  <2>3. ReservationInv(d)
    BY DEF TokensInv
  <2>. QED  BY <1>5, <2>1, <2>2, <2>3, ReservationKept
<1>10. InWindow = E
  <2>1. ASSUME NEW d \in Calls  PROVE d \in InWindow <=> d \in E
    <3>1. ReservationInv(d) /\ (d \in DOMAIN reservations => reservations[d].age \in Nat)
      BY <1>1 DEF TokensInv, ReservationType
    <3>. QED  BY <1>0, <1>3, <3>1 DEF ReservationInv, InWindow, Popped
  <2>2. E \subseteq Calls
    BY <1>3 DEF ReservationType
  <2>. HIDE DEF E
  <2>. QED  BY <2>1, <2>2 DEF InWindow
<1>11. InWindow' = InWindow \cup {c} /\ c \notin InWindow
  BY <1>0, <1>2, <1>5 DEF InWindow
<1>12. IsFiniteSet(InWindow') /\ IsFiniteSet(InWindow)
  BY LlmClientAssumption, FS_Subset DEF InWindow
<1>13. \A d \in Calls : Capped[d] \in Nat /\ Capped'[d] \in Nat
  BY <1>6, <1>7, CappedType
<1>. DEFINE now == InWindow
            then == InWindow'
            cap == Capped
            capN == Capped'
<1>14. SumOf(capN, then) = capN[c] + SumOf(capN, now)
  <2>1. c \in then /\ then \ {c} = now /\ \A d \in then : capN[d] \in Int
    BY <1>11, <1>13 DEF InWindow
  <2>2. IsFiniteSet(then)
    BY <1>12
  <2>. HIDE DEF now, then, capN
  <2>. QED  BY <2>1, <2>2, SumRemove
<1>15. SumOf(capN, now) <= SumOf(f, now) /\ SumOf(capN, now) \in Int /\ SumOf(f, now) \in Int
  <2>1. \A d \in now : capN[d] \in Int /\ f[d] \in Int /\ capN[d] <= f[d]
    <3>1. SUFFICES ASSUME NEW d \in now  PROVE capN[d] \in Int /\ f[d] \in Int /\ capN[d] <= f[d]
      OBVIOUS
    <3>2. d \in E /\ d \in DOMAIN reservations /\ d \in Calls /\ d # c /\ spent[d].age < Window
      BY <1>3, <1>10, <1>11 DEF InWindow
    <3>3. f[d] = reservations[d].tokens /\ f[d] \in Nat
      BY <1>1, <1>3, <3>2 DEF ReservationType
    <3>4. Capped[d] <= reservations[d].tokens
      BY <3>2 DEF TokensInv, ReservationInv
    <3>. HIDE DEF f
    <3>. QED  BY <1>7, <1>13, <3>2, <3>3, <3>4
  <2>2. IsFiniteSet(now)
    BY <1>12
  <2>. HIDE DEF now, capN, f
  <2>. QED  BY <2>1, <2>2, SumMonotone, SumType
<1>16. SumOf(f, now) = Pruned
  BY <1>3, <1>10 DEF TokensOf
<1>17. Pruned + Estimate(c) <= Tpm
  BY DEF GrantTokens
<1>18. SumOf(Capped, InWindow)' = SumOf(capN, then)
  OBVIOUS
<1>19. capN[c] = Estimate(c)
  BY <1>7
<1>20. SumOf(Capped, InWindow)' <= Tpm
  <2>. HIDE DEF capN, then, now, f
  <2>. QED  BY <1>0, <1>3, <1>6, <1>14, <1>15, <1>16, <1>17, <1>18, <1>19
<1>. QED  BY <1>8, <1>9, <1>20

\* A usage report moves the charge, up to the estimate, only down.
LEMMA TokensReported ==
  ASSUME LCTypeOK, TokensInv, NEW c \in Calls, pc[c] = "sent", NEW t \in Nat,
         usage' = [usage EXCEPT ![c] = t], spent' = [spent EXCEPT ![c].tokens = t],
         Goto(c, "reconcile"), attempt' = attempt, reservations' = reservations
  PROVE  /\ \A d \in Calls : ReservationInv(d)'
         /\ SumOf(Capped, InWindow)' <= Tpm
<1>1. /\ pc'[c] = "reconcile" /\ usage'[c] = t
      /\ spent'[c].tokens = t /\ spent'[c].age = spent[c].age
      /\ \A d \in Calls \ {c} : /\ pc'[d] = pc[d] /\ attempt'[d] = attempt[d]
                                /\ usage'[d] = usage[d] /\ spent'[d] = spent[d]
  BY DEF Goto, LCTypeOK
<1>2. /\ Capped'[c] <= Estimate(c) /\ Capped'[c] \in Nat /\ Estimate(c) \in Nat
      /\ \A d \in Calls \ {c} : Capped'[d] = Capped[d]
  BY <1>1, EstimateType DEF Capped
<1>3. ReservationInv(c)'
  <2>1. ReservationInv(c)
    BY DEF TokensInv
  <2>. QED  BY <1>1, <1>2, <2>1 DEF ReservationInv
<1>4. ASSUME NEW d \in Calls \ {c}  PROVE ReservationInv(d)'
  <2>1. ReservationInv(d)
    BY DEF TokensInv
  <2>. QED  BY <1>1, <2>1, ReservationKept
<1>5. InWindow' = InWindow
  BY <1>1 DEF InWindow
<1>6. IsFiniteSet(InWindow)
  BY LlmClientAssumption, FS_Subset DEF InWindow
<1>. DEFINE now == InWindow
            cap == Capped
            capN == Capped'
<1>7. \A d \in now : capN[d] \in Int /\ cap[d] \in Int /\ capN[d] <= cap[d]
  <2>1. SUFFICES ASSUME NEW d \in now  PROVE capN[d] \in Int /\ cap[d] \in Int /\ capN[d] <= cap[d]
    OBVIOUS
  <2>2. d \in Calls /\ spent[d].age < Window /\ Capped[d] \in Nat
    BY CappedType DEF InWindow
  <2>3. CASE d # c
    BY <1>2, <2>2, <2>3
  <2>4. CASE d = c
    <3>1. ReservationInv(c) /\ Window \in Nat
      BY LlmClientAssumption DEF TokensInv
    <3>2. spent[c].tokens = Estimate(c)
      BY <2>2, <2>4, <3>1 DEF ReservationInv
    <3>3. Capped[c] = Estimate(c)
      BY <1>2, <3>2 DEF Capped
    <3>. QED  BY <1>2, <2>4, <3>3
  <2>. QED  BY <2>3, <2>4
<1>8. SumOf(capN, now) <= SumOf(cap, now) /\ SumOf(capN, now) \in Int /\ SumOf(cap, now) \in Int
  <2>1. IsFiniteSet(now)
    BY <1>6
  <2>. HIDE DEF now, cap, capN
  <2>. QED  BY <1>7, <2>1, SumMonotone, SumType
<1>9. SumOf(cap, now) <= Tpm /\ Tpm \in Nat
  BY LlmClientAssumption DEF TokensInv
<1>10. SumOf(Capped, InWindow)' = SumOf(capN, now)
  BY <1>5
<1>11. SumOf(Capped, InWindow)' <= Tpm
  <2>. HIDE DEF now, cap, capN
  <2>. QED  BY <1>8, <1>9, <1>10
<1>. QED  BY <1>3, <1>4, <1>11

LEMMA TokensReconciled ==
  ASSUME LCTypeOK, TokensInv, NEW c \in Calls, ReportUsage(c)
  PROVE  /\ \A d \in Calls : ReservationInv(d)'
         /\ SumOf(Capped, InWindow)' = SumOf(Capped, InWindow)
<1>0. Window \in Nat
  BY LlmClientAssumption
<1>1. ReservationType(reservations) /\ ReservedInv /\ usage[c] \in Nat
  BY DEF LCTypeOK, ReservationType, TokensInv
<1>2. /\ DOMAIN LiveReservations = DOMAIN reservations \ Popped
      /\ \A d \in DOMAIN LiveReservations : LiveReservations[d] = reservations[d]
  BY <1>1, PrunedIsLive
<1>3. /\ DOMAIN reservations' = DOMAIN LiveReservations
      /\ \A d \in DOMAIN LiveReservations : d # c => reservations'[d] = reservations[d]
      /\ c \in DOMAIN LiveReservations =>
           reservations'[c] = [age |-> reservations[c].age, tokens |-> usage[c]]
  BY <1>1, ReconciledIsReserved
<1>4. spent' = spent /\ End(c) /\ pc[c] = "reconcile"
  BY DEF ReportUsage
<1>5. Capped' = Capped /\ InWindow' = InWindow
  BY <1>4 DEF Capped, InWindow
<1>6. ReservationInv(c)'
  <2>1. ReservationInv(c)
    BY DEF TokensInv
  <2>2. pc'[c] = "ended"
    BY <1>4 DEF End, Goto, LCTypeOK
  <2>3. Capped[c] <= spent[c].tokens
    BY CappedType
  <2>4. CASE c \in DOMAIN LiveReservations
    <3>1. /\ c \in DOMAIN reservations' /\ c \in DOMAIN reservations
          /\ reservations'[c].age = reservations[c].age
          /\ reservations'[c].tokens = usage[c]
      BY <1>2, <1>3, <2>4
    <3>2. spent[c].age < Window => Capped[c] <= usage[c]
      BY <1>4, <2>1, <2>3, <3>1 DEF ReservationInv
    <3>. QED  BY <1>4, <1>5, <2>1, <2>2, <3>1, <3>2 DEF ReservationInv
  <2>5. CASE c \notin DOMAIN LiveReservations
    <3>1. c \notin DOMAIN reservations'
      BY <1>3, <2>5
    <3>2. c \in DOMAIN reservations => reservations[c].age >= Window
      BY <1>2, <2>5 DEF Popped
    <3>3. spent[c].age = Window
      BY <1>0, <2>1, <3>2, CappedType DEF ReservationInv
    <3>. QED  BY <1>4, <3>1, <3>3 DEF ReservationInv
  <2>. QED  BY <2>4, <2>5
<1>7. ASSUME NEW d \in Calls \ {c}  PROVE ReservationInv(d)'
  <2>1. d \in DOMAIN reservations' =>
          d \in DOMAIN reservations /\ reservations'[d] = reservations[d]
    BY <1>2, <1>3
  <2>2. d \in DOMAIN reservations /\ d \notin DOMAIN reservations' =>
          reservations[d].age >= Window
    BY <1>2, <1>3 DEF Popped
  <2>3. ReservationInv(d) /\ pc'[d] = pc[d] /\ attempt'[d] = attempt[d] /\ usage'[d] = usage[d]
    BY <1>4, EndElsewhere DEF TokensInv
  <2>. QED  BY <1>4, <2>1, <2>2, <2>3, ReservationKept
<1>. QED  BY <1>5, <1>6, <1>7

\* A reservation and its charge age together.
LEMMA TokensAge ==
  ASSUME LCTypeOK, TokensInv, TimePasses
  PROVE  /\ \A d \in Calls : ReservationInv(d)'
         /\ SumOf(Capped, InWindow)' <= Tpm
<1>0. Window \in Nat \ {0} /\ Tpm \in Nat
  BY LlmClientAssumption
<1>1. \A d \in Calls : spent'[d] = IF spent[d].age + 1 < Window
                                   THEN [spent[d] EXCEPT !.age = @ + 1] ELSE NotSpent
  BY DEF TimePasses
<1>2. ASSUME NEW d \in Calls
      PROVE  /\ spent[d].age + 1 < Window =>
                  /\ spent'[d].age = spent[d].age + 1
                  /\ spent'[d].tokens = spent[d].tokens /\ Capped'[d] = Capped[d]
             /\ ~(spent[d].age + 1 < Window) => spent'[d].age = Window
             /\ spent[d].age \in Nat
  <2>1. spent[d] \in [age : Nat, tokens : Nat]
    BY DEF LCTypeOK
  <2>2. CASE spent[d].age + 1 < Window
    <3>1. spent'[d].age = spent[d].age + 1 /\ spent'[d].tokens = spent[d].tokens
      BY <1>1, <2>1, <2>2
    <3>. QED  BY <2>1, <2>2, <3>1 DEF Capped
  <2>3. CASE ~(spent[d].age + 1 < Window)
    <3>1. spent'[d] = NotSpent /\ NotSpent.age = Window
      BY <1>1, <2>3 DEF NotSpent
    <3>2. spent'[d].age = Window /\ spent[d].age \in Nat
      BY <2>1, <3>1
    <3>. QED  BY <2>3, <3>2
  <2>. QED  BY <2>2, <2>3
<1>3. ASSUME NEW d \in Calls  PROVE ReservationInv(d)'
  <2>1. ReservationInv(d)
    BY DEF TokensInv
  <2>2. DOMAIN reservations' = DOMAIN reservations /\ pc' = pc /\ attempt' = attempt
        /\ usage' = usage
    BY DEF TimePasses
  <2>3. CASE d \in DOMAIN reservations
    <3>1. /\ reservations'[d].age = Older(reservations[d].age, Window)
          /\ reservations'[d].tokens = reservations[d].tokens
          /\ reservations[d].age \in Nat
      BY <2>3 DEF TimePasses, LCTypeOK
    <3>2. spent[d].age = reservations[d].age /\ spent[d].age <= Window
      BY <2>1, <2>3 DEF ReservationInv
    <3>3. reservations'[d].age = spent'[d].age /\ spent'[d].age <= Window
      BY <1>0, <1>2, <3>1, <3>2 DEF Older
    <3>4. spent'[d].age < Window =>
            spent[d].age < Window /\ spent'[d].tokens = spent[d].tokens /\ Capped'[d] = Capped[d]
      BY <1>0, <1>2
    <3>. QED  BY <2>1, <2>2, <2>3, <3>1, <3>3, <3>4 DEF ReservationInv
  <2>4. CASE d \notin DOMAIN reservations
    <3>1. spent[d].age = Window
      BY <2>1, <2>4 DEF ReservationInv
    <3>2. spent'[d].age = Window
      BY <1>0, <1>2, <3>1
    <3>. QED  BY <2>2, <2>4, <3>2 DEF ReservationInv
  <2>. QED  BY <2>3, <2>4
<1>. DEFINE now == InWindow
            then == InWindow'
            gone == now \ then
            cap == Capped
            capN == Capped'
<1>4. then \subseteq now /\ \A d \in then : capN[d] = cap[d]
  <2>1. \A d \in Calls : spent'[d].age < Window => spent[d].age < Window /\ Capped'[d] = Capped[d]
    BY <1>0, <1>2
  <2>. QED  BY <2>1 DEF InWindow
<1>5. IsFiniteSet(now) /\ IsFiniteSet(then) /\ IsFiniteSet(gone)
  BY LlmClientAssumption, FS_Subset DEF InWindow
<1>6. \A d \in now : cap[d] \in Nat
  BY CappedType DEF InWindow
<1>7. SumOf(Capped, InWindow)' = SumOf(capN, then) /\ SumOf(cap, now) <= Tpm
  BY DEF TokensInv
<1>. HIDE DEF now, then, cap, capN
<1>8. SumOf(cap, now) = SumOf(cap, gone) + SumOf(cap, then)
  <2>1. gone \subseteq now /\ now \ gone = then
    BY <1>4
  <2>. HIDE DEF gone
  <2>2. SumOf(cap, now) = SumOf(cap, now \ gone) + SumOf(cap, gone)
    BY <1>5, <1>6, <2>1, SumSplit
  <2>3. SumOf(cap, gone) \in Int /\ SumOf(cap, then) \in Int
    <3>1. (\A d \in gone : cap[d] \in Int) /\ (\A d \in then : cap[d] \in Int)
      BY <1>4, <1>6, <2>1
    <3>. QED  BY <1>5, <3>1, SumType
  <2>4. SumOf(cap, now) = SumOf(cap, then) + SumOf(cap, gone)
    BY <2>1, <2>2
  <2>. QED  BY <2>3, <2>4
<1>9. SumOf(cap, gone) \in Nat /\ SumOf(cap, then) \in Nat
  <2>1. (\A d \in gone : cap[d] \in Nat) /\ (\A d \in then : cap[d] \in Nat)
    BY <1>4, <1>6
  <2>. HIDE DEF gone
  <2>. QED  BY <1>5, <2>1, SumNat
<1>10. SumOf(cap, then) = SumOf(capN, then)
  BY <1>4, <1>5, <1>6, SumSame
<1>11. SumOf(Capped, InWindow)' <= Tpm
  <2>. HIDE DEF gone
  <2>. QED  BY <1>0, <1>7, <1>8, <1>9, <1>10
<1>. QED  BY <1>3, <1>11

LEMMA TokensStep ==
  LCTypeOK /\ TokensInv /\ [LCNext]_lcVars
    => (\A d \in Calls : ReservationInv(d)') /\ SumOf(Capped, InWindow)' <= Tpm
<1>. DEFINE Goal == (\A d \in Calls : ReservationInv(d)') /\ SumOf(Capped, InWindow)' <= Tpm
<1>. SUFFICES ASSUME LCTypeOK, TokensInv, [LCNext]_lcVars  PROVE Goal
  OBVIOUS
<1>0. (\A d \in Calls : ReservationInv(d)) /\ SumOf(Capped, InWindow) <= Tpm
  BY DEF TokensInv
<1>1. ASSUME NEW c \in Calls, Begin(c)  PROVE Goal
  <2>1. c \notin DOMAIN reservations /\ spent[c].age = Window
    BY <1>0, <1>1 DEF Begin, ReservationInv
  <2>2. spent' = spent /\ reservations' = reservations
        /\ \A d \in Calls \ {c} : /\ pc'[d] = pc[d] /\ attempt'[d] = attempt[d]
                                  /\ usage'[d] = usage[d]
    BY <1>1 DEF Begin, Goto, LCTypeOK, tokenLimiter
  <2>3. ReservationInv(c)'
    BY <2>1, <2>2 DEF ReservationInv
  <2>. QED  BY <1>0, <2>2, <2>3, ReservationQuiet
<1>2. ASSUME NEW c \in Calls, Refused(c)  PROVE Goal
  BY <1>0, <1>2, TokensEnd DEF Refused, tokenLimiter
<1>3. ASSUME NEW c \in Calls, GrantSlot(c)  PROVE Goal
  <2>1. spent' = spent /\ reservations' = reservations /\ pc[c] = "slot"
    BY <1>3 DEF GrantSlot
  <2>2. CASE End(c)
    BY <1>0, <2>1, <2>2, TokensEnd
  <2>3. CASE attempt[c] > 0 /\ attempt' = [attempt EXCEPT ![c] = @ + 1]
             /\ Goto(c, "sent") /\ usage' = usage
    <3>1. /\ pc'[c] = "sent" /\ attempt'[c] > 0
          /\ \A d \in Calls \ {c} : /\ pc'[d] = pc[d] /\ attempt'[d] = attempt[d]
                                    /\ usage'[d] = usage[d]
      BY <2>3 DEF Goto, LCTypeOK
    <3>2. Capped' = Capped
      BY <2>1 DEF Capped
    <3>3. ReservationInv(c)'
      BY <1>0, <2>1, <3>1, <3>2 DEF ReservationInv
    <3>. QED  BY <1>0, <2>1, <3>1, <3>3, ReservationQuiet
  <2>4. CASE attempt[c] = 0 /\ Goto(c, "tokens") /\ UNCHANGED <<attempt, wait, usage>>
    <3>1. c \notin DOMAIN reservations /\ spent[c].age = Window
      BY <1>0, <2>1, <2>4 DEF ReservationInv
    <3>2. \A d \in Calls \ {c} : /\ pc'[d] = pc[d] /\ attempt'[d] = attempt[d]
                                 /\ usage'[d] = usage[d]
      BY <2>4 DEF Goto, LCTypeOK
    <3>3. ReservationInv(c)'
      BY <2>1, <3>1 DEF ReservationInv
    <3>. QED  BY <1>0, <2>1, <3>2, <3>3, ReservationQuiet
  <2>. QED  BY <1>3, <2>2, <2>3, <2>4 DEF GrantSlot
<1>4. ASSUME NEW c \in Calls, GrantTokens(c)  PROVE Goal
  BY <1>4, TokensGranted
<1>5. ASSUME NEW c \in Calls, Answer(c)  PROVE Goal
  <2>1. CASE End(c) /\ UNCHANGED <<tokenQueue, spent>>
    BY <1>0, <1>5, <2>1, TokensEnd DEF Answer
  <2>2. CASE /\ \E t \in Actuals : /\ usage' = [usage EXCEPT ![c] = t]
                                   /\ spent' = [spent EXCEPT ![c].tokens = t]
             /\ Goto(c, "reconcile") /\ attempt' = attempt
    <3>1. PICK t \in Actuals : /\ usage' = [usage EXCEPT ![c] = t]
                               /\ spent' = [spent EXCEPT ![c].tokens = t]
      BY <2>2
    <3>2. t \in Nat /\ pc[c] = "sent" /\ reservations' = reservations
      BY <1>5, LlmClientAssumption DEF Answer
    <3>. QED  BY <2>2, <3>1, <3>2, TokensReported
  <2>. QED  BY <1>5, <2>1, <2>2 DEF Answer
<1>6. ASSUME NEW c \in Calls, ReportUsage(c)  PROVE Goal
  BY <1>0, <1>6, TokensReconciled
<1>7. ASSUME NEW c \in Calls, ConfigurationError(c)  PROVE Goal
  BY <1>0, <1>7, TokensEnd DEF ConfigurationError, tokenLimiter
<1>8. ASSUME NEW c \in Calls, OtherError(c)  PROVE Goal
  BY <1>0, <1>8, TokensEnd DEF OtherError, tokenLimiter
<1>9. ASSUME NEW c \in Calls, TransientError(c)  PROVE Goal
  <2>1. spent' = spent /\ reservations' = reservations /\ pc[c] = "sent"
    BY <1>9 DEF TransientError, tokenLimiter
  <2>2. CASE End(c)
    BY <1>0, <2>1, <2>2, TokensEnd
  <2>3. CASE Goto(c, "backoff") /\ UNCHANGED <<attempt, usage>>
    <3>1. /\ pc'[c] = "backoff"
          /\ \A d \in Calls \ {c} : pc'[d] = pc[d]
      BY <2>3 DEF Goto, LCTypeOK
    <3>2. Capped' = Capped
      BY <2>1 DEF Capped
    <3>3. ReservationInv(c)'
      BY <1>0, <2>1, <2>3, <3>1, <3>2 DEF ReservationInv
    <3>. QED  BY <1>0, <2>1, <2>3, <3>1, <3>3, ReservationQuiet
  <2>. QED  BY <1>9, <2>2, <2>3 DEF TransientError
<1>10. ASSUME NEW c \in Calls, BackoffEnds(c)  PROVE Goal
  <2>1. spent' = spent /\ reservations' = reservations /\ pc[c] = "backoff"
        /\ attempt' = attempt /\ usage' = usage
    BY <1>10 DEF BackoffEnds, tokenLimiter
  <2>2. pc'[c] = "slot" /\ \A d \in Calls \ {c} : pc'[d] = pc[d]
    BY <1>10 DEF BackoffEnds, Goto, LCTypeOK
  <2>3. Capped' = Capped
    BY <2>1 DEF Capped
  <2>4. ReservationInv(c)'
    BY <1>0, <2>1, <2>2, <2>3 DEF ReservationInv
  <2>. QED  BY <1>0, <2>1, <2>2, <2>4, ReservationQuiet
<1>11. ASSUME NEW c \in Calls, Cancel(c)  PROVE Goal
  BY <1>0, <1>11, TokensEnd DEF Cancel
<1>12. ASSUME TimePasses  PROVE Goal
  BY <1>12, TokensAge
<1>13. CASE UNCHANGED lcVars
  <2>1. /\ pc' = pc /\ attempt' = attempt /\ usage' = usage
        /\ spent' = spent /\ reservations' = reservations
    BY <1>13 DEF lcVars, calls, tokenLimiter
  <2>2. Capped' = Capped /\ InWindow' = InWindow
    BY <2>1 DEF Capped, InWindow
  <2>3. \A d \in Calls : ReservationInv(d)'
    BY <1>0, <2>1, <2>2 DEF ReservationInv
  <2>. QED  BY <1>0, <2>2, <2>3
<1>. HIDE DEF Goal
<1>. QED
  BY <1>1, <1>2, <1>3, <1>4, <1>5, <1>6, <1>7, <1>8, <1>9, <1>10, <1>11, <1>12, <1>13
     DEF LCNext, Verdict

-----------------------------------------------------------------------------
(***************************************************************************)
(* The circuit.                                                            *)
(***************************************************************************)
InUse == {c \in Calls : pc[c] \in InFlight}

\* Below the threshold while closed; once open, only the calls that were in
\* flight can add to the count, and each of them once.
CircuitInv ==
  /\ Cardinality(InUse) <= Concurrency
  /\ IF openFor = Closed THEN rejections <= Threshold - 1
     ELSE rejections + Cardinality(InUse) <= Threshold - 1 + Concurrency

LEMMA InUseFinite == IsFiniteSet(InUse) /\ Cardinality(InUse) \in Nat
BY LlmClientAssumption, FS_Subset, FS_CardinalityType DEF InUse

LEMMA CircuitInit == LCInit => CircuitInv
<1>. SUFFICES ASSUME LCInit  PROVE CircuitInv
  OBVIOUS
<1>1. InUse = {}
  BY DEF LCInit, InUse, InFlight
<1>2. Cardinality(InUse) = 0
  BY <1>1, FS_EmptySet
<1>. QED  BY <1>2, LlmClientAssumption DEF LCInit, CircuitInv, Closed

\* A call that ends was in flight, or never had begun.
LEMMA InUseEnds ==
  ASSUME LCTypeOK, NEW c \in Calls, End(c)
  PROVE  /\ Cardinality(InUse') \in Nat /\ Cardinality(InUse) \in Nat
         /\ Cardinality(InUse') <= Cardinality(InUse)
         /\ pc[c] \in InFlight => Cardinality(InUse') = Cardinality(InUse) - 1
<1>1. InUse' = InUse \ {c}
  BY DEF End, Goto, LCTypeOK, InUse, InFlight
<1>2. Cardinality(InUse \ {c}) = IF c \in InUse THEN Cardinality(InUse) - 1 ELSE Cardinality(InUse)
  BY InUseFinite, FS_RemoveElement
<1>3. IsFiniteSet(InUse \ {c})
  BY InUseFinite, FS_RemoveElement
<1>4. Cardinality(InUse \ {c}) \in Nat
  BY <1>3, FS_CardinalityType
<1>5. pc[c] \in InFlight => c \in InUse
  BY DEF InUse
<1>. QED  BY <1>1, <1>2, <1>4, <1>5, InUseFinite

LEMMA InUseMoves ==
  ASSUME LCTypeOK, NEW c \in Calls, pc[c] \in InFlight, NEW place \in InFlight, Goto(c, place)
  PROVE  InUse' = InUse
BY DEF Goto, LCTypeOK, InUse, InFlight

LEMMA CircuitEnd ==
  ASSUME LCTypeOK, CircuitInv, NEW c \in Calls, End(c), UNCHANGED <<rejections, openFor>>
  PROVE  CircuitInv'
<1>1. /\ Cardinality(InUse') \in Nat /\ Cardinality(InUse) \in Nat
      /\ Cardinality(InUse') <= Cardinality(InUse)
  BY InUseEnds
<1>2. Concurrency \in Nat /\ Threshold \in Nat /\ rejections \in Nat
  BY LlmClientAssumption DEF LCTypeOK
<1>3. Cardinality(InUse)' = Cardinality(InUse')
  OBVIOUS
<1>. QED  BY <1>1, <1>2, <1>3 DEF CircuitInv

LEMMA CircuitStep == LCTypeOK /\ CircuitInv /\ [LCNext]_lcVars => CircuitInv'
<1>. SUFFICES ASSUME LCTypeOK, CircuitInv, [LCNext]_lcVars  PROVE CircuitInv'
  OBVIOUS
<1>0. Concurrency \in Nat /\ Threshold \in Nat \ {0} /\ rejections \in Nat /\ Reset \in Nat
  BY LlmClientAssumption DEF LCTypeOK
<1>a. Cardinality(InUse) \in Nat
  BY InUseFinite
<1>b. ASSUME InUse' = InUse, UNCHANGED <<rejections, openFor>>  PROVE CircuitInv'
  BY <1>b DEF CircuitInv
<1>1. ASSUME NEW c \in Calls, Begin(c)  PROVE CircuitInv'
  <2>1. InUse' = InUse \cup {c}
    BY <1>1 DEF Begin, Goto, LCTypeOK, InUse, InFlight
  <2>2. Cardinality(InUse) < Concurrency /\ c \notin InUse
    BY <1>1 DEF Begin, Admitted, InUse, InFlight
  <2>3. Cardinality(InUse') = Cardinality(InUse) + 1
    <3>1. IsFiniteSet(InUse)
      BY InUseFinite
    <3>. QED  BY <2>1, <2>2, <3>1, FS_AddElement
  <2>4. openFor' = Closed /\ rejections' <= Threshold - 1
    BY <1>0, <1>1 DEF Begin, HalfOpen, CircuitInv
  <2>. QED  BY <1>0, <1>a, <2>2, <2>3, <2>4 DEF CircuitInv
<1>2. ASSUME NEW c \in Calls, Refused(c)  PROVE CircuitInv'
  <2>1. CASE UNCHANGED circuit
    BY <1>2, <2>1, CircuitEnd DEF Refused, circuit
  <2>2. CASE HalfOpen
    <3>1. openFor' = Closed /\ rejections' <= Threshold - 1
      BY <1>0, <2>2 DEF HalfOpen, CircuitInv
    <3>2. Cardinality(InUse') \in Nat /\ Cardinality(InUse') <= Cardinality(InUse)
      BY <1>2, InUseEnds DEF Refused
    <3>. QED  BY <1>0, <1>a, <3>1, <3>2 DEF CircuitInv
  <2>. QED  BY <1>2, <2>1, <2>2 DEF Refused
<1>3. ASSUME NEW c \in Calls, GrantSlot(c)  PROVE CircuitInv'
  <2>1. UNCHANGED <<rejections, openFor>> /\ pc[c] \in InFlight
    BY <1>3 DEF GrantSlot, circuit, InFlight
  <2>2. CASE End(c)
    BY <2>1, <2>2, CircuitEnd
  <2>3. CASE Goto(c, "sent") \/ Goto(c, "tokens")
    <3>1. "sent" \in InFlight /\ "tokens" \in InFlight
      BY DEF InFlight
    <3>2. InUse' = InUse
      BY <2>1, <2>3, <3>1, InUseMoves
    <3>. QED  BY <1>b, <2>1, <3>2
  <2>. QED  BY <1>3, <2>2, <2>3 DEF GrantSlot
<1>4. ASSUME NEW c \in Calls, GrantTokens(c)  PROVE CircuitInv'
  <2>1. pc[c] \in InFlight /\ "sent" \in InFlight /\ Goto(c, "sent")
        /\ UNCHANGED <<rejections, openFor>>
    BY <1>4 DEF GrantTokens, InFlight, circuit
  <2>. QED  BY <1>b, <2>1, InUseMoves
<1>5. ASSUME NEW c \in Calls, Answer(c)  PROVE CircuitInv'
  <2>1. rejections' = 0 /\ openFor' = Closed
    BY <1>5 DEF Answer, RecordSuccess
  <2>2. Cardinality(InUse') \in Nat /\ Cardinality(InUse') <= Cardinality(InUse)
    <3>1. CASE End(c)
      BY <3>1, InUseEnds
    <3>2. CASE Goto(c, "reconcile")
      <4>1. pc[c] \in InFlight /\ "reconcile" \in InFlight
        BY <1>5 DEF Answer, InFlight
      <4>2. InUse' = InUse
        BY <3>2, <4>1, InUseMoves
      <4>. QED  BY <1>a, <4>2
    <3>. QED  BY <1>5, <3>1, <3>2 DEF Answer
  <2>. QED  BY <1>0, <1>a, <2>1, <2>2 DEF CircuitInv
<1>6. ASSUME NEW c \in Calls, ReportUsage(c)  PROVE CircuitInv'
  BY <1>6, CircuitEnd DEF ReportUsage, circuit
<1>7. ASSUME NEW c \in Calls, ConfigurationError(c)  PROVE CircuitInv'
  <2>1. Cardinality(InUse') \in Nat /\ Cardinality(InUse') = Cardinality(InUse) - 1
    BY <1>7, InUseEnds DEF ConfigurationError, InFlight
  <2>2. rejections' = rejections + 1
        /\ openFor' = IF openFor = Closed /\ rejections + 1 >= Threshold THEN 0 ELSE openFor
    BY <1>7 DEF ConfigurationError, RecordRejection
  <2>. QED  BY <1>0, <1>a, <2>1, <2>2 DEF CircuitInv, Closed
<1>8. ASSUME NEW c \in Calls, OtherError(c)  PROVE CircuitInv'
  BY <1>8, CircuitEnd DEF OtherError, circuit
<1>9. ASSUME NEW c \in Calls, TransientError(c)  PROVE CircuitInv'
  <2>1. UNCHANGED <<rejections, openFor>> /\ pc[c] \in InFlight
    BY <1>9 DEF TransientError, circuit, InFlight
  <2>2. CASE End(c)
    BY <2>1, <2>2, CircuitEnd
  <2>3. CASE Goto(c, "backoff")
    <3>1. "backoff" \in InFlight
      BY DEF InFlight
    <3>. QED  BY <1>b, <2>1, <2>3, <3>1, InUseMoves
  <2>. QED  BY <1>9, <2>2, <2>3 DEF TransientError
<1>10. ASSUME NEW c \in Calls, BackoffEnds(c)  PROVE CircuitInv'
  <2>1. pc[c] \in InFlight /\ "slot" \in InFlight /\ Goto(c, "slot")
        /\ UNCHANGED <<rejections, openFor>>
    BY <1>10 DEF BackoffEnds, InFlight, circuit
  <2>. QED  BY <1>b, <2>1, InUseMoves
<1>11. ASSUME NEW c \in Calls, Cancel(c)  PROVE CircuitInv'
  BY <1>11, CircuitEnd DEF Cancel, circuit
<1>12. ASSUME TimePasses  PROVE CircuitInv'
  <2>1. InUse' = InUse /\ rejections' = rejections
    BY <1>12 DEF TimePasses, InUse
  <2>2. openFor' = Closed <=> openFor = Closed
    BY <1>0, <1>12 DEF TimePasses, Older, Closed, LCTypeOK
  <2>. QED  BY <2>1, <2>2 DEF CircuitInv
<1>13. CASE UNCHANGED lcVars
  <2>1. InUse' = InUse /\ UNCHANGED <<rejections, openFor>>
    BY <1>13 DEF lcVars, calls, circuit, InUse
  <2>. QED  BY <1>b, <2>1
<1>. QED
  BY <1>1, <1>2, <1>3, <1>4, <1>5, <1>6, <1>7, <1>8, <1>9, <1>10, <1>11, <1>12, <1>13
     DEF LCNext, Verdict
-----------------------------------------------------------------------------
LEMMA SlotsStep == LCTypeOK /\ SlotsInv /\ [LCNext]_lcVars => SlotsInv'
<1>. SUFFICES ASSUME LCTypeOK, SlotsInv, [LCNext]_lcVars  PROVE SlotsInv'
  OBVIOUS
<1>1. ASSUME NEW c \in Calls, GrantSlot(c)  PROVE SlotsInv'
  BY <1>1, SlotGranted
<1>2. ASSUME TimePasses  PROVE SlotsInv'
  BY <1>2, SlotsAge
<1>3. ASSUME UNCHANGED <<slots, granted>>  PROVE SlotsInv'
  BY <1>3 DEF SlotsInv, Live
<1>4. UNCHANGED <<slots, granted>> \/ TimePasses \/ \E c \in Calls : GrantSlot(c)
  BY DEF LCNext, Verdict, Begin, Refused, GrantTokens, ReportUsage, Answer, ConfigurationError,
     OtherError, TransientError, BackoffEnds, Cancel, lcVars, rateLimiter
<1>. QED  BY <1>1, <1>2, <1>3, <1>4

(***************************************************************************)
(* What the client promises.                                               *)
(***************************************************************************)
LlmInv == LCTypeOK /\ SlotsInv /\ TokensInv /\ CircuitInv

LEMMA LlmInvInit == LCInit => LlmInv
BY LlmTypeInit, SlotsInit, TokensInit, CircuitInit DEF LlmInv, TokensInv

LEMMA LlmInvStep == LlmInv /\ [LCNext]_lcVars => LlmInv'
<1>. SUFFICES ASSUME LlmInv, [LCNext]_lcVars  PROVE LlmInv'
  OBVIOUS
<1>1. LCTypeOK /\ SlotsInv /\ TokensInv /\ CircuitInv /\ ReservedInv /\ ReservesOnce
  BY InvMeansOnce DEF LlmInv, TokensInv
<1>2. LCTypeOK' /\ ReservedInv'
  BY <1>1, LlmTypeStep
<1>3. SlotsInv' /\ CircuitInv'
  BY <1>1, SlotsStep, CircuitStep
<1>4. (\A d \in Calls : ReservationInv(d)') /\ SumOf(Capped, InWindow)' <= Tpm
  BY <1>1, TokensStep
<1>. QED  BY <1>2, <1>3, <1>4, LlmClientAssumption DEF LlmInv, TokensInv

\* The state of the client has its types; _reserved_tokens never goes below 0.
THEOREM LlmTypeCorrect == LCSpec => []LCTypeOK
<1>1. LlmInv => LCTypeOK
  BY DEF LlmInv
<1>. QED  BY <1>1, LlmInvInit, LlmInvStep, PTL DEF LCSpec

\* No window of time has more than Rpm request slots, for any number of calls,
\* limits, retries and cancellations (AsyncSlidingWindowRateLimiter.acquire).
THEOREM SlotsBounded == LCSpec => []SlotsPerWindow
<1>1. LlmInv => SlotsPerWindow
  BY DEF LlmInv, SlotsInv, SlotsPerWindow
<1>. QED  BY <1>1, LlmInvInit, LlmInvStep, PTL DEF LCSpec

LEMMA TokensBound ==
  ASSUME LCTypeOK, TokensInv
  PROVE  TokensPerWindow
<1>. DEFINE cap == Capped
            all == [c \in Calls |-> spent[c].tokens]
            excess == [c \in Calls |-> Max({0, spent[c].tokens - Estimate(c)})]
            S == InWindow
<1>1. IsFiniteSet(S)
  BY LlmClientAssumption, FS_Subset DEF InWindow
<1>2. ASSUME NEW n \in Int  PROVE Max({0, n}) = IF n >= 0 THEN n ELSE 0
  <2>. DEFINE best == IF n >= 0 THEN n ELSE 0
  <2>1. best \in {0, n} /\ \A y \in {0, n} : best >= y
    OBVIOUS
  <2>2. \A x \in {0, n} : (\A y \in {0, n} : x >= y) => x = best
    OBVIOUS
  <2>. HIDE DEF best
  <2>. QED  BY <2>1, <2>2 DEF Max, best
<1>3. \A c \in S : cap[c] \in Int /\ excess[c] \in Int /\ all[c] = cap[c] + excess[c]
  <2>1. SUFFICES ASSUME NEW c \in Calls
                 PROVE  cap[c] \in Int /\ excess[c] \in Int /\ all[c] = cap[c] + excess[c]
    BY DEF InWindow
  <2>2. spent[c].tokens \in Nat /\ Estimate(c) \in Nat /\ cap[c] \in Nat
    BY CappedType
  <2>3. cap[c] = IF spent[c].tokens <= Estimate(c) THEN spent[c].tokens ELSE Estimate(c)
    BY DEF Capped
  <2>4. excess[c] = IF spent[c].tokens - Estimate(c) >= 0 THEN spent[c].tokens - Estimate(c) ELSE 0
    BY <1>2, <2>2
  <2>5. all[c] = spent[c].tokens
    OBVIOUS
  <2>. HIDE DEF cap, excess, all
  <2>. QED  BY <2>2, <2>3, <2>4, <2>5
<1>4. SumOf(cap, S) <= Tpm /\ Tpm \in Nat
  BY LlmClientAssumption DEF TokensInv
<1>5. TokensPerWindow <=> SumOf(all, S) <= Tpm + SumOf(excess, S)
  BY DEF TokensPerWindow, InWindow
<1>. HIDE DEF cap, all, excess, S
<1>6. SumOf(all, S) = SumOf(cap, S) + SumOf(excess, S)
  BY <1>1, <1>3, SumPlus
<1>7. SumOf(cap, S) \in Int /\ SumOf(excess, S) \in Int
  BY <1>1, <1>3, SumType
<1>. QED  BY <1>4, <1>5, <1>6, <1>7

\* No window of time is charged more than Tpm beyond what the provider counted
\* above the estimates, whoever retries, reports late or is cancelled
\* (AsyncSlidingWindowTokenLimiter.acquire, reconcile and _prune).
THEOREM TokensBounded == LCSpec => []TokensPerWindow
<1>1. LlmInv => TokensPerWindow
  BY TokensBound DEF LlmInv
<1>. QED  BY <1>1, LlmInvInit, LlmInvStep, PTL DEF LCSpec

\* A misconfigured deployment costs a bounded number of consecutive rejections:
\* LlmConfigurationErrorCircuit with any number of calls in flight.
THEOREM RejectionsAreBounded == LCSpec => []RejectionsBounded
<1>1. LlmInv => RejectionsBounded
  <2>. SUFFICES ASSUME LlmInv  PROVE RejectionsBounded
    OBVIOUS
  <2>1. Concurrency \in Nat /\ Threshold \in Nat /\ rejections \in Nat /\ Cardinality(InUse) \in Nat
    BY LlmClientAssumption, InUseFinite DEF LlmInv, LCTypeOK
  <2>. QED  BY <2>1 DEF LlmInv, CircuitInv, RejectionsBounded
<1>. QED  BY <1>1, LlmInvInit, LlmInvStep, PTL DEF LCSpec

\* _fit_articles_prompt keeps the best articles that fit into one window, and no
\* fewer: one more would have been too many.  It keeps none if not even the prompt
\* without articles fits.
THEOREM FitIsTheMost ==
  ASSUME NEW c \in Calls
  PROVE  /\ FitArticles(c) \in 0 .. Len(ArticleTokens[c])
         /\ PromptTokens(c, FitArticles(c)) <= Tpm \/ FitArticles(c) = 0
         /\ \A more \in 0 .. Len(ArticleTokens[c]) :
              PromptTokens(c, more) <= Tpm => more <= FitArticles(c)
<1>1. IsLargestFit(c, 0, ArticleCount(c), FitArticles(c))
  BY FitIsLargest
<1>2. Len(ArticleTokens[c]) \in Nat
  BY LlmClientAssumption
<1>. QED  BY <1>1, <1>2 DEF IsLargestFit, ArticleCount
=============================================================================
