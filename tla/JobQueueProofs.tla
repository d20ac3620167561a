--------------------------- MODULE JobQueueProofs ---------------------------
(***************************************************************************)
(* Theorems about JobQueue, for any number of jobs and workers and any     *)
(* settings of the queue.                                                  *)
(***************************************************************************)
EXTENDS JobQueue, TLAPS

LEMMA TypeInit == Init => TypeOK
BY JobQueueAssumption DEF Init, TypeOK, Statuses, Places, NoClaim, NoToken

\* Moving a worker keeps the worker variables in their types.
LEMMA ForgetType ==
  ASSUME TypeOK, NEW w \in Workers, Forget(w)
  PROVE  /\ pc' \in [Workers -> Places]
         /\ claim' \in [Workers -> [job : Jobs \cup {0}, token : Nat, llm : Nat]]
         /\ since' \in [Workers -> Nat]
         /\ lost' \in [Workers -> BOOLEAN]
         /\ exhausted' \in [Workers -> BOOLEAN]
BY DEF TypeOK, Forget, Goto, NoClaim, NoToken, Places

LEMMA GotoType ==
  ASSUME TypeOK, NEW w \in Workers, NEW place \in Places, Goto(w, place)
  PROVE  pc' \in [Workers -> Places] /\ since' \in [Workers -> Nat]
BY DEF TypeOK, Goto

LEMMA RunsType ==
  ASSUME TypeOK, NEW w \in Workers, CloseOwnRun(w)
  PROVE  openRuns' \in [Jobs -> SUBSET Nat]
BY DEF TypeOK, CloseOwnRun

LEMMA LeaseType ==
  ASSUME TypeOK, NEW j, ClearLease(j)
  PROVE  leaseToken' \in [Jobs -> Nat] /\ leaseUntil' \in [Jobs -> Nat]
BY DEF TypeOK, ClearLease, NoToken

LEMMA RequeueType ==
  ASSUME TypeOK, NEW j, NEW extra \in Nat, NEW delay \in Nat, Requeue(j, extra, delay)
  PROVE  /\ status' \in [Jobs -> Statuses]
         /\ availableAt' \in [Jobs -> Nat]
         /\ maxAttempts' \in [Jobs -> Nat]
         /\ leaseToken' \in [Jobs -> Nat]
         /\ leaseUntil' \in [Jobs -> Nat]
<1>1. leaseToken' \in [Jobs -> Nat] /\ leaseUntil' \in [Jobs -> Nat]
  BY LeaseType DEF Requeue
<1>2. status' \in [Jobs -> Statuses]
  BY DEF TypeOK, Requeue, Statuses
<1>3. availableAt' \in [Jobs -> Nat]
  <2>1. now + delay \in Nat
    BY DEF TypeOK
  <2>2. QED
    BY <2>1 DEF TypeOK, Requeue
<1>4. maxAttempts' \in [Jobs -> Nat]
  <2>1. \A i \in Jobs : maxAttempts[i] + extra \in Nat
    BY DEF TypeOK
  <2>2. QED
    BY <2>1 DEF TypeOK, Requeue
<1>5. QED
  BY <1>1, <1>2, <1>3, <1>4

LEMMA TypeStep == TypeOK /\ [Next]_vars => TypeOK'
<1> SUFFICES ASSUME TypeOK, [Next]_vars PROVE TypeOK'
  OBVIOUS
<1> USE JobQueueAssumption
<1>1. ASSUME NEW j \in Jobs, Enqueue(j) PROVE TypeOK'
  BY <1>1 DEF Enqueue, TypeOK, Statuses, workers
<1>2. ASSUME NEW j \in Jobs, Replay(j) PROVE TypeOK'
  BY <1>2, LeaseType DEF Replay, TypeOK, Statuses, workers
<1>3. ASSUME NEW w \in Workers, Recover(w) PROVE TypeOK'
  <2>1. pc' \in [Workers -> Places] /\ since' \in [Workers -> Nat]
    BY <1>3, GotoType DEF Recover, Places
  <2>2. status' \in [Jobs -> Statuses]
    BY <1>3 DEF Recover, TypeOK, Statuses
  <2>3. openRuns' \in [Jobs -> SUBSET Nat]
    BY <1>3 DEF Recover, TypeOK
  <2>4. /\ availableAt' \in [Jobs -> Nat]
        /\ leaseToken' \in [Jobs -> Nat]
        /\ leaseUntil' \in [Jobs -> Nat]
        /\ failures' \in [Jobs -> Nat]
    BY <1>3 DEF Recover, TypeOK, NoToken
  <2>5. QED
    BY <1>3, <2>1, <2>2, <2>3, <2>4 DEF Recover, TypeOK
<1>4. ASSUME NEW w \in Workers, NEW j \in Jobs, Claim(w, j) PROVE TypeOK'
  <2>1. pc' \in [Workers -> Places] /\ since' \in [Workers -> Nat]
    BY <1>4, GotoType DEF Claim, Places
  <2>2. claim' \in [Workers -> [job : Jobs \cup {0}, token : Nat, llm : Nat]]
    BY <1>4 DEF Claim, TypeOK
  <2>3. /\ status' \in [Jobs -> Statuses]
        /\ attempts' \in [Jobs -> Nat]
        /\ leaseToken' \in [Jobs -> Nat]
        /\ leaseUntil' \in [Jobs -> Nat]
        /\ nextToken' \in Nat \ {0}
    BY <1>4 DEF Claim, IssueToken, TypeOK, Statuses
  <2>4. QED
    BY <1>4, <2>1, <2>2, <2>3 DEF Claim, TypeOK
<1>5. ASSUME NEW w \in Workers, ClaimNothing(w) PROVE TypeOK'
  BY <1>5, ForgetType DEF ClaimNothing, TypeOK, columns
<1>6. ASSUME NEW w \in Workers, BeginStep(w) PROVE TypeOK'
  <2>1. pc' \in [Workers -> Places] /\ since' \in [Workers -> Nat]
    BY <1>6, GotoType DEF BeginStep, Places
  <2>2. openRuns' \in [Jobs -> SUBSET Nat]
    BY <1>6 DEF BeginStep, TypeOK
  <2>3. QED
    BY <1>6, <2>1, <2>2 DEF BeginStep, TypeOK, columns
<1>7. ASSUME NEW w \in Workers, BeginRefused(w) PROVE TypeOK'
  BY <1>7, GotoType DEF BeginRefused, TypeOK, columns, Places
<1>8. ASSUME NEW w \in Workers, SaveCheckpoint(w) PROVE TypeOK'
  <2>1. pc' \in [Workers -> Places] /\ since' \in [Workers -> Nat]
    BY <1>8, GotoType DEF SaveCheckpoint, Places
  <2>2. llmRetries' \in [Jobs -> Nat]
    BY <1>8 DEF SaveCheckpoint, TypeOK
  <2>3. QED
    BY <1>8, <2>1, <2>2, RunsType DEF SaveCheckpoint, TypeOK
<1>9. ASSUME NEW w \in Workers, WriteRefused(w) PROVE TypeOK'
  BY <1>9, GotoType, RunsType DEF WriteRefused, TypeOK, columns, Places
<1>10. ASSUME NEW w \in Workers, NEW outcome \in Settled \cup {"FAILED"},
              Complete(w, outcome)
       PROVE  TypeOK'
  <2>1. status' \in [Jobs -> Statuses]
    BY <1>10 DEF Complete, TypeOK, Statuses
  <2>2. QED
    BY <1>10, <2>1, ForgetType, RunsType, LeaseType DEF Complete, TypeOK
<1>11. ASSUME NEW w \in Workers, StepFails(w) PROVE TypeOK'
  BY <1>11, GotoType, RunsType DEF StepFails, TypeOK, columns, Places
<1>12. ASSUME NEW w \in Workers, LlmFails(w) PROVE TypeOK'
  <2>1. pc' \in [Workers -> Places] /\ since' \in [Workers -> Nat]
    BY <1>12, GotoType DEF LlmFails, Places
  <2>2. lost' \in [Workers -> BOOLEAN] /\ exhausted' \in [Workers -> BOOLEAN]
    BY <1>12 DEF LlmFails, TypeOK
  <2>3. QED
    BY <1>12, <2>1, <2>2, RunsType DEF LlmFails, TypeOK, columns
<1>13. ASSUME NEW w \in Workers, Heartbeat(w) PROVE TypeOK'
  <2>1. leaseUntil' \in [Jobs -> Nat]
    <3>1. now + LeaseSeconds \in Nat
      BY DEF TypeOK
    <3>2. QED
      BY <1>13, <3>1 DEF Heartbeat, TypeOK
  <2>2. QED
    BY <1>13, <2>1 DEF Heartbeat, TypeOK, workers
<1>14. ASSUME NEW w \in Workers, HeartbeatFails(w) PROVE TypeOK'
  <2>1. lost' \in [Workers -> BOOLEAN]
    BY <1>14 DEF HeartbeatFails, TypeOK
  <2>2. UNCHANGED <<columns, openRuns, pc, claim, since, exhausted, now, nextToken,
                    replays, failures>>
    BY <1>14 DEF HeartbeatFails
  <2>3. QED
    BY <2>1, <2>2 DEF TypeOK, columns
<1>15. ASSUME NEW w \in Workers, Cancel(w) PROVE TypeOK'
  BY <1>15, GotoType DEF Cancel, TypeOK, columns, Places
<1>16. ASSUME NEW w \in Workers, ReleaseFailed(w) PROVE TypeOK'
  <2>1. failures' \in [Jobs -> Nat]
    <3>1. \A j \in Jobs : failures[j] + 1 \in Nat
      BY DEF TypeOK
    <3>2. QED
      BY <1>16, <3>1 DEF ReleaseFailed, TypeOK
  <2>2. QED
    BY <1>16, <2>1, ForgetType, RequeueType DEF ReleaseFailed, TypeOK
<1>17. ASSUME NEW w \in Workers, ReleaseLlm(w) PROVE TypeOK'
  <2>1. llmRetries' \in [Jobs -> Nat]
    <3>1. claim[w].llm + 1 \in Nat
      BY DEF TypeOK
    <3>2. QED
      BY <1>17, <3>1 DEF ReleaseLlm, TypeOK
  <2>2. PICK delay \in LlmDelays : Requeue(claim[w].job, 1, delay)
    BY <1>17 DEF ReleaseLlm
  <2>3. QED
    BY <1>17, <2>1, <2>2, ForgetType, RequeueType DEF ReleaseLlm, TypeOK
<1>18. ASSUME NEW w \in Workers, ReleaseRefused(w) PROVE TypeOK'
  BY <1>18, ForgetType DEF ReleaseRefused, TypeOK, columns
<1>19. ASSUME NEW w \in Workers, Die(w) PROVE TypeOK'
  BY <1>19, ForgetType DEF Die, TypeOK, columns
<1>20. ASSUME Tick PROVE TypeOK'
  BY <1>20 DEF Tick, TypeOK, columns, workers
<1>21. ASSUME UNCHANGED vars PROVE TypeOK'
  BY <1>21 DEF vars, columns, workers, TypeOK
<1>22. QED
  BY <1>1, <1>2, <1>3, <1>4, <1>5, <1>6, <1>7, <1>8, <1>9, <1>10, <1>11, <1>12,
     <1>13, <1>14, <1>15, <1>16, <1>17, <1>18, <1>19, <1>20, <1>21
     DEF Next, Dispatch

\* Every reachable state of the queue is well typed; in particular attempt
\* counts, leases and tokens never go below zero.
THEOREM TypeCorrect == Spec => []TypeOK
<1>1. Init => TypeOK
  BY TypeInit
<1>2. TypeOK /\ [Next]_vars => TypeOK'
  BY TypeStep
<1>3. QED
  BY <1>1, <1>2, PTL DEF Spec
-----------------------------------------------------------------------------
(***************************************************************************)
(* Ownership is inductive.                                                 *)
(***************************************************************************)
USE DEF NoToken

LEMMA OwnershipInit == Init => Ownership
BY JobQueueAssumption
   DEF Init, Ownership, TokensIssued, TokenIffRunning, ClaimIffDispatched,
       ClaimsDistinct, TokenNamesJob, NoClaim, Claimed, Dispatching

\* A step that leaves tokens and claims alone keeps Ownership, if no job starts
\* or stops running and no worker enters or leaves a claim.
LEMMA OwnershipKept ==
  ASSUME Ownership,
         UNCHANGED <<leaseToken, nextToken, claim>>,
         \A j \in Jobs : status'[j] = "RUNNING" <=> status[j] = "RUNNING",
         \A w \in Workers : pc'[w] \in Claimed <=> pc[w] \in Claimed
  PROVE  Ownership'
BY DEF Ownership, TokensIssued, TokenIffRunning, ClaimIffDispatched, ClaimsDistinct,
       TokenNamesJob

\* So does a step that takes tokens away from rows that stop running.
LEMMA OwnershipWithdrawn ==
  ASSUME TypeOK, Ownership, NEW S \in SUBSET Jobs,
         \A j \in Jobs : leaseToken'[j] = IF j \in S THEN NoToken ELSE leaseToken[j],
         \A j \in Jobs : IF j \in S THEN status'[j] # "RUNNING"
                         ELSE status'[j] = status[j],
         UNCHANGED <<nextToken, claim>>,
         \A w \in Workers : pc'[w] \in Claimed <=> pc[w] \in Claimed
  PROVE  Ownership'
<1>1. TokensIssued' /\ TokenIffRunning'
  BY DEF TypeOK, Ownership, TokensIssued, TokenIffRunning
<1>2. ClaimIffDispatched' /\ ClaimsDistinct'
  BY DEF Ownership, ClaimIffDispatched, ClaimsDistinct
<1>3. TokenNamesJob'
  BY DEF Ownership, TokenNamesJob
<1>4. QED
  BY <1>1, <1>2, <1>3 DEF Ownership

\* A worker that forgets its claim, whether or not the row's lease is cleared.
LEMMA OwnershipForget ==
  ASSUME TypeOK, Ownership, NEW w \in Workers, Forget(w), UNCHANGED nextToken,
         \/ UNCHANGED <<status, leaseToken>>
         \/ /\ ClearLease(claim[w].job)
            /\ claim[w].job \in Jobs
            /\ status'[claim[w].job] # "RUNNING"
            /\ \A j \in Jobs \ {claim[w].job} : status'[j] = status[j]
  PROVE  Ownership'
<1>1. /\ \A v \in Workers : claim'[v] = IF v = w THEN NoClaim ELSE claim[v]
      /\ \A v \in Workers : pc'[v] = IF v = w THEN "idle" ELSE pc[v]
  BY DEF TypeOK, Forget, Goto
<1>2. \A j \in Jobs : leaseToken'[j] = leaseToken[j] \/ leaseToken'[j] = NoToken
  BY DEF TypeOK, ClearLease
<1>3. TokensIssued'
  <2>1. 0 < nextToken
    BY DEF TypeOK
  <2>2. \A v \in Workers : claim'[v].token = claim[v].token \/ claim'[v].token = 0
    BY <1>1 DEF NoClaim
  <2>3. QED
    BY <1>2, <2>1, <2>2 DEF Ownership, TokensIssued
<1>4. TokenIffRunning'
  BY DEF TypeOK, Ownership, TokenIffRunning, ClearLease
<1>5. ClaimIffDispatched'
  BY <1>1 DEF Ownership, ClaimIffDispatched, Claimed, Dispatching, NoClaim
<1>6. ClaimsDistinct'
  BY <1>1 DEF Ownership, ClaimsDistinct, NoClaim
<1>7. TokenNamesJob'
  BY <1>1, <1>2 DEF Ownership, TokenNamesJob, NoClaim
<1>8. QED
  BY <1>3, <1>4, <1>5, <1>6, <1>7 DEF Ownership

\* A fenced write is made by a worker whose claim is the running one.
LEMMA FenceHolds ==
  ASSUME TypeOK, Ownership, NEW w \in Workers, pc[w] \in Claimed
  PROVE  claim[w].job \in Jobs
BY DEF Ownership, ClaimIffDispatched

LEMMA OwnershipGoto ==
  ASSUME TypeOK, Ownership, NEW w \in Workers, NEW place \in Claimed,
         pc[w] \in Claimed, Goto(w, place),
         UNCHANGED <<status, leaseToken, nextToken, claim>>
  PROVE  Ownership'
<1>1. \A v \in Workers : pc'[v] = IF v = w THEN place ELSE pc[v]
  BY DEF TypeOK, Goto
<1>2. QED
  BY <1>1, OwnershipKept

LEMMA OwnershipClaim ==
  ASSUME TypeOK, Ownership, NEW w \in Workers, NEW j \in Jobs, Claim(w, j)
  PROVE  Ownership'
<1>1. /\ leaseToken' = [leaseToken EXCEPT ![j] = nextToken]
      /\ nextToken' = nextToken + 1
      /\ claim' = [claim EXCEPT ![w] = [job |-> j, token |-> nextToken,
                                       llm |-> llmRetries[j]]]
      /\ status' = [status EXCEPT ![j] = "RUNNING"]
      /\ pc' = [pc EXCEPT ![w] = "stepping"]
      /\ nextToken \in Nat \ {0}
  BY DEF TypeOK, Claim, IssueToken, Goto
<1>2. \A v \in Workers : /\ v # w => claim'[v] = claim[v] /\ pc'[v] = pc[v]
                         /\ v = w => /\ claim'[v].token = nextToken
                                     /\ claim'[v].job = j
                                     /\ pc'[v] = "stepping"
                         /\ claim[v].token \in Nat
  BY <1>1 DEF TypeOK
<1>3. \A i \in Jobs : /\ i # j => leaseToken'[i] = leaseToken[i] /\ status'[i] = status[i]
                      /\ i = j => leaseToken'[i] = nextToken /\ status'[i] = "RUNNING"
                      /\ leaseToken[i] \in Nat
  BY <1>1 DEF TypeOK
<1>4. TokensIssued'
  BY <1>1, <1>2, <1>3 DEF Ownership, TokensIssued
<1>5. TokenIffRunning'
  BY <1>1, <1>3 DEF Ownership, TokenIffRunning
<1>6. ClaimIffDispatched'
  BY <1>1, <1>2 DEF Ownership, ClaimIffDispatched, Claimed, Dispatching
<1>7. ClaimsDistinct'
  BY <1>1, <1>2 DEF Ownership, ClaimsDistinct, TokensIssued
<1>8. TokenNamesJob'
  BY <1>1, <1>2, <1>3 DEF Ownership, TokenNamesJob, TokensIssued
<1>9. QED
  BY <1>4, <1>5, <1>6, <1>7, <1>8 DEF Ownership

LEMMA OwnershipStep == TypeOK /\ Ownership /\ [Next]_vars => Ownership'
<1> SUFFICES ASSUME TypeOK, Ownership, [Next]_vars PROVE Ownership'
  OBVIOUS
<1>1. ASSUME NEW j \in Jobs, Enqueue(j) PROVE Ownership'
  BY <1>1, OwnershipKept DEF Enqueue, TypeOK, workers
<1>2. ASSUME NEW j \in Jobs, Replay(j) PROVE Ownership'
  <2>1. \A i \in Jobs : leaseToken'[i] = IF i \in {j} THEN NoToken ELSE leaseToken[i]
    BY <1>2 DEF Replay, ClearLease, TypeOK
  <2>2. \A i \in Jobs : IF i \in {j} THEN status'[i] # "RUNNING" ELSE status'[i] = status[i]
    BY <1>2 DEF Replay, TypeOK
  <2>3. UNCHANGED <<nextToken, claim>> /\ UNCHANGED pc
    BY <1>2 DEF Replay, workers
  <2>4. QED
    BY <2>1, <2>2, <2>3, OwnershipWithdrawn
<1>3. ASSUME NEW w \in Workers, Recover(w) PROVE Ownership'
  <2>1. /\ \A i \in Jobs : leaseToken'[i] = IF i \in Expired THEN NoToken ELSE leaseToken[i]
        /\ \A i \in Jobs : IF i \in Expired THEN status'[i] # "RUNNING"
                           ELSE status'[i] = status[i]
        /\ UNCHANGED <<nextToken, claim>>
    BY <1>3 DEF Recover
  <2>2. \A v \in Workers : pc'[v] \in Claimed <=> pc[v] \in Claimed
    BY <1>3 DEF Recover, Goto, TypeOK, Claimed, Dispatching
  <2>3. Expired \in SUBSET Jobs
    BY DEF Expired
  <2>4. QED
    BY <2>1, <2>2, <2>3, OwnershipWithdrawn
<1>4. ASSUME NEW w \in Workers, NEW j \in Jobs, Claim(w, j) PROVE Ownership'
  BY <1>4, OwnershipClaim
<1>5. ASSUME NEW w \in Workers, ClaimNothing(w) \/ ReleaseRefused(w) \/ Die(w)
      PROVE  Ownership'
  BY <1>5, OwnershipForget DEF ClaimNothing, ReleaseRefused, Die, columns
<1>6. ASSUME NEW w \in Workers, BeginStep(w) PROVE Ownership'
  BY <1>6, OwnershipGoto DEF BeginStep, Claimed, Dispatching, columns
<1>7. ASSUME NEW w \in Workers,
             BeginRefused(w) \/ WriteRefused(w) \/ StepFails(w) \/ Cancel(w)
      PROVE  Ownership'
  BY <1>7, OwnershipGoto
     DEF BeginRefused, WriteRefused, StepFails, Cancel, Claimed, Dispatching, columns
<1>8. ASSUME NEW w \in Workers, SaveCheckpoint(w) PROVE Ownership'
  BY <1>8, OwnershipGoto DEF SaveCheckpoint, Claimed, Dispatching
<1>9. ASSUME NEW w \in Workers, LlmFails(w) PROVE Ownership'
  BY <1>9, OwnershipGoto DEF LlmFails, Claimed, Dispatching, columns
<1>10. ASSUME NEW w \in Workers, NEW outcome \in Settled \cup {"FAILED"},
              Complete(w, outcome)
       PROVE  Ownership'
  <2>1. claim[w].job \in Jobs
    BY <1>10, FenceHolds DEF Complete, Claimed, Dispatching
  <2>2. /\ status'[claim[w].job] # "RUNNING"
        /\ \A j \in Jobs \ {claim[w].job} : status'[j] = status[j]
    BY <1>10, <2>1 DEF Complete, Settled, TypeOK
  <2>3. QED
    BY <1>10, <2>1, <2>2, OwnershipForget DEF Complete
<1>11. ASSUME NEW w \in Workers, ReleaseFailed(w) \/ ReleaseLlm(w) PROVE Ownership'
  <2>1. claim[w].job \in Jobs
    BY <1>11, FenceHolds DEF ReleaseFailed, ReleaseLlm, Claimed
  <2>2. PICK extra, delay : Requeue(claim[w].job, extra, delay)
    BY <1>11 DEF ReleaseFailed, ReleaseLlm
  <2>3. /\ status'[claim[w].job] # "RUNNING"
        /\ \A j \in Jobs \ {claim[w].job} : status'[j] = status[j]
        /\ ClearLease(claim[w].job)
    BY <2>1, <2>2 DEF Requeue, TypeOK
  <2>4. Forget(w) /\ UNCHANGED nextToken
    BY <1>11 DEF ReleaseFailed, ReleaseLlm
  <2>5. QED
    BY <2>1, <2>3, <2>4, OwnershipForget
<1>12. ASSUME NEW w \in Workers, Heartbeat(w) \/ HeartbeatFails(w) PROVE Ownership'
  BY <1>12, OwnershipKept DEF Heartbeat, HeartbeatFails, columns, workers
<1>13. ASSUME Tick \/ UNCHANGED vars PROVE Ownership'
  BY <1>13, OwnershipKept DEF Tick, vars, columns, workers
<1>14. QED
  BY <1>1, <1>2, <1>3, <1>4, <1>5, <1>6, <1>7, <1>8, <1>9, <1>10, <1>11, <1>12, <1>13
     DEF Next, Dispatch

\* In every reachable state a token belongs to one claim and one row.
THEOREM OwnershipInvariant == Spec => [](TypeOK /\ Ownership)
<1>1. Init => TypeOK /\ Ownership
  BY TypeInit, OwnershipInit
<1>2. TypeOK /\ Ownership /\ [Next]_vars => (TypeOK /\ Ownership)'
  BY TypeStep, OwnershipStep
<1>3. QED
  BY <1>1, <1>2, PTL DEF Spec

\* At most one worker holds the running token of a job, whatever the numbers of
\* workers and jobs: claim_next_job and recover_expired_claims never give one
\* job to two workers at once.
THEOREM OneHolderInvariant == Spec => []OneHolder
<1>1. Ownership => OneHolder
  BY DEF Ownership, ClaimsDistinct, OneHolder, Holds
<1>2. QED
  BY <1>1, OwnershipInvariant, PTL
-----------------------------------------------------------------------------
(***************************************************************************)
(* What a step may never do.                                               *)
(***************************************************************************)

\* Only the worker that takes a step moves.
LEMMA OthersStay ==
  ASSUME TypeOK, NEW v \in Workers, NEW place, Goto(v, place), NEW w \in Workers,
         pc'[w] # pc[w]
  PROVE  w = v
BY DEF TypeOK, Goto

\* No action of a worker that a stale token fences off changes a row.
LEMMA ZombieStep ==
  ASSUME TypeOK, Next, NEW w \in Workers, pc[w] \in Claimed,
         leaseToken[claim[w].job] # claim[w].token, pc'[w] # pc[w]
  PROVE  UNCHANGED columns
<1>1. ASSUME NEW j \in Jobs, Enqueue(j) \/ Replay(j) PROVE FALSE
  BY <1>1 DEF Enqueue, Replay, workers
<1>2. ASSUME Tick PROVE FALSE
  BY <1>2 DEF Tick, workers
<1>3. ASSUME NEW v \in Workers, Heartbeat(v) \/ HeartbeatFails(v) PROVE FALSE
  BY <1>3 DEF Heartbeat, HeartbeatFails, workers
<1>4. ASSUME NEW v \in Workers, Recover(v) \/ (\E j \in Jobs : Claim(v, j)) PROVE FALSE
  BY <1>4, OthersStay DEF Recover, Claim, Claimed, Dispatching
<1>5. ASSUME NEW v \in Workers,
             \/ SaveCheckpoint(v)
             \/ \E outcome \in Settled \cup {"FAILED"} : Complete(v, outcome)
             \/ ReleaseFailed(v) \/ ReleaseLlm(v)
      PROVE  FALSE
  BY <1>5, OthersStay
     DEF SaveCheckpoint, Complete, ReleaseFailed, ReleaseLlm, Forget, LeaseValid
<1>6. ASSUME NEW v \in Workers,
             \/ ClaimNothing(v) \/ BeginStep(v) \/ BeginRefused(v) \/ WriteRefused(v)
             \/ StepFails(v) \/ LlmFails(v) \/ Cancel(v) \/ ReleaseRefused(v) \/ Die(v)
      PROVE  UNCHANGED columns
  BY <1>6
     DEF ClaimNothing, BeginStep, BeginRefused, WriteRefused, StepFails, LlmFails, Cancel,
         ReleaseRefused, Die
<1>7. QED
  BY <1>1, <1>2, <1>3, <1>4, <1>5, <1>6 DEF Next, Dispatch

\* A worker that stalled past its lease and lost its job changes no row of the
\* queue, however late it wakes up: the fence on the token is enough.
THEOREM ZombiesAreInert == Spec => ZombieIsInert
<1>1. TypeOK /\ [Next]_vars =>
        [\A w \in Workers :
           /\ pc[w] \in Claimed
           /\ leaseToken[claim[w].job] # claim[w].token
           /\ pc'[w] # pc[w]
           => UNCHANGED columns]_vars
  BY ZombieStep
<1>2. QED
  BY <1>1, TypeCorrect, PTL DEF Spec, ZombieIsInert

\* A fenced write to row j is the holder's own.
LEMMA FencedByHolder ==
  ASSUME TypeOK, Ownership, NEW v \in Workers, NEW clock, LeaseValid(v, clock),
         pc[v] \in Claimed, NEW w \in Workers, Holds(w, claim[v].job)
  PROVE  v = w
BY DEF Ownership, ClaimsDistinct, ClaimIffDispatched, LeaseValid, Holds

LEMMA LiveLeaseStep ==
  ASSUME TypeOK, Ownership, Next, NEW j \in Jobs, NEW w \in Workers,
         Holds(w, j), leaseUntil[j] > now, leaseToken'[j] # leaseToken[j]
  PROVE  claim'[w] = NoClaim
<1>0. status[j] = "RUNNING"
  BY DEF Holds, Ownership, TokenIffRunning
<1>1. ASSUME NEW i \in Jobs, Enqueue(i) \/ Replay(i) PROVE FALSE
  BY <1>0, <1>1 DEF Enqueue, Replay, ClearLease, TypeOK
<1>2. ASSUME NEW v \in Workers, Recover(v) PROVE FALSE
  <2>1. j \notin Expired
    BY DEF Expired, TypeOK
  <2>2. QED
    BY <1>2, <2>1 DEF Recover
<1>3. ASSUME NEW v \in Workers, NEW i \in Jobs, Claim(v, i) PROVE FALSE
  BY <1>0, <1>3 DEF Claim, Claimable, TypeOK
<1>4. ASSUME NEW v \in Workers,
             \/ \E outcome \in Settled \cup {"FAILED"} : Complete(v, outcome)
             \/ ReleaseFailed(v) \/ ReleaseLlm(v)
      PROVE  claim'[w] = NoClaim
  <2>1. PICK clock : LeaseValid(v, clock)
    BY <1>4 DEF Complete, ReleaseFailed, ReleaseLlm
  <2>2. ClearLease(claim[v].job) /\ Forget(v) /\ pc[v] \in Claimed
    BY <1>4
       DEF Complete, ReleaseFailed, ReleaseLlm, Requeue, Claimed, Dispatching
  <2>3. claim[v].job = j
    BY <2>2 DEF ClearLease, TypeOK
  <2>4. v = w
    BY <2>1, <2>2, <2>3, FencedByHolder
  <2>5. QED
    BY <2>2, <2>4 DEF Forget, TypeOK
<1>5. ASSUME NEW v \in Workers,
             \/ ClaimNothing(v) \/ BeginStep(v) \/ BeginRefused(v) \/ WriteRefused(v)
             \/ StepFails(v) \/ LlmFails(v) \/ Cancel(v) \/ ReleaseRefused(v) \/ Die(v)
             \/ SaveCheckpoint(v) \/ Heartbeat(v) \/ HeartbeatFails(v)
      PROVE  FALSE
  BY <1>5
     DEF ClaimNothing, BeginStep, BeginRefused, WriteRefused, StepFails, LlmFails, Cancel,
         ReleaseRefused, Die, SaveCheckpoint, Heartbeat, HeartbeatFails, columns
<1>6. ASSUME Tick PROVE FALSE
  BY <1>6 DEF Tick, columns
<1>7. QED
  BY <1>1, <1>2, <1>3, <1>4, <1>5, <1>6 DEF Next, Dispatch

\* A claim whose lease is live ends only by its own worker, never by another
\* worker's recovery, claim, release or completion.
THEOREM LiveLeasesAreNotStolen == Spec => LiveLeaseNotStolen
<1>1. TypeOK /\ Ownership /\ [Next]_vars =>
        [\A j \in Jobs : \A w \in Workers :
           /\ Holds(w, j)
           /\ leaseUntil[j] > now
           /\ leaseToken'[j] # leaseToken[j]
           => claim'[w] = NoClaim]_vars
  BY LiveLeaseStep
<1>2. QED
  BY <1>1, OwnershipInvariant, PTL DEF Spec, LiveLeaseNotStolen
-----------------------------------------------------------------------------
(***************************************************************************)
(* No queued job is stranded.                                              *)
(***************************************************************************)

\* What makes NoStrandedJob inductive: a row starts with an attempt to spend, so
\* queueing it, or reviving it with none spent, leaves it claimable.
Attemptable ==
  /\ NoStrandedJob
  /\ \A j \in Jobs : maxAttempts[j] > 0 /\ (status[j] = "ABSENT" => attempts[j] = 0)

LEMMA AttemptableInit == Init => Attemptable
BY JobQueueAssumption DEF Init, Attemptable, NoStrandedJob

\* release_failed_claim queues the job again only with an attempt left.
LEMMA RequeueAttemptable ==
  ASSUME TypeOK, Attemptable, NEW k, NEW extra \in Nat, NEW delay,
         Requeue(k, extra, delay), UNCHANGED attempts
  PROVE  Attemptable'
<1>1. \A j \in Jobs :
        /\ maxAttempts'[j] = IF j = k THEN maxAttempts[j] + extra ELSE maxAttempts[j]
        /\ status'[j] = IF j = k THEN (IF attempts[j] >= maxAttempts[j] + extra
                                      THEN "FAILED" ELSE "PENDING")
                       ELSE status[j]
  BY DEF Requeue, TypeOK
<1>2. \A j \in Jobs : attempts[j] \in Nat /\ maxAttempts[j] \in Nat
  BY DEF TypeOK
<1>3. QED
  BY <1>1, <1>2 DEF Attemptable, NoStrandedJob

LEMMA AttemptableStep == TypeOK /\ Attemptable /\ [Next]_vars => Attemptable'
<1> SUFFICES ASSUME TypeOK, Attemptable, [Next]_vars PROVE Attemptable'
  OBVIOUS
<1>1. ASSUME NEW j \in Jobs, Enqueue(j) \/ Replay(j) PROVE Attemptable'
  <2>1. attempts'[j] = 0 /\ UNCHANGED maxAttempts
    BY <1>1 DEF Enqueue, Replay, Attemptable, TypeOK
  <2>2. \A i \in Jobs \ {j} : UNCHANGED <<status[i], attempts[i]>>
    BY <1>1 DEF Enqueue, Replay, TypeOK
  <2>3. status'[j] = "PENDING"
    BY <1>1 DEF Enqueue, Replay, TypeOK
  <2>4. \A i \in Jobs : maxAttempts'[i] > 0 /\ (status'[i] = "ABSENT" => attempts'[i] = 0)
    BY <2>1, <2>2, <2>3 DEF Attemptable
  <2>5. NoStrandedJob'
    BY <2>1, <2>2, <2>3, <2>4 DEF Attemptable, NoStrandedJob
  <2>6. QED
    BY <2>4, <2>5 DEF Attemptable
<1>2. ASSUME NEW w \in Workers, Recover(w) PROVE Attemptable'
  <2>1. \A j \in Jobs : status'[j] = "ABSENT" => status[j] = "ABSENT"
    BY <1>2 DEF Recover
  <2>2. \A j \in Jobs : status'[j] = "PENDING" => status[j] = "PENDING" \/ j \notin Spent
    BY <1>2 DEF Recover
  <2>3. QED
    BY <1>2, <2>1, <2>2 DEF Recover, Spent, Attemptable, NoStrandedJob, TypeOK
<1>3. ASSUME NEW w \in Workers, NEW j \in Jobs, Claim(w, j) PROVE Attemptable'
  BY <1>3 DEF Claim, Attemptable, NoStrandedJob, TypeOK
<1>4. ASSUME NEW w \in Workers, NEW outcome \in Settled \cup {"FAILED"},
             Complete(w, outcome)
      PROVE  Attemptable'
  BY <1>4 DEF Complete, Settled, Attemptable, NoStrandedJob, TypeOK
<1>5. ASSUME NEW w \in Workers, ReleaseFailed(w) \/ ReleaseLlm(w) PROVE Attemptable'
  <2>1. PICK extra \in {0, 1} : \E delay : Requeue(claim[w].job, extra, delay)
    BY <1>5 DEF ReleaseFailed, ReleaseLlm
  <2>2. UNCHANGED attempts
    BY <1>5 DEF ReleaseFailed, ReleaseLlm
  <2>3. QED
    BY <2>1, <2>2, RequeueAttemptable
<1>6. ASSUME \/ \E w \in Workers :
                  \/ ClaimNothing(w) \/ BeginStep(w) \/ BeginRefused(w) \/ SaveCheckpoint(w)
                  \/ WriteRefused(w) \/ StepFails(w) \/ LlmFails(w) \/ Heartbeat(w)
                  \/ HeartbeatFails(w) \/ Cancel(w) \/ ReleaseRefused(w) \/ Die(w)
             \/ Tick \/ UNCHANGED vars
      PROVE  Attemptable'
  <2>1. UNCHANGED <<status, attempts, maxAttempts>>
    BY <1>6
       DEF ClaimNothing, BeginStep, BeginRefused, SaveCheckpoint, WriteRefused, StepFails,
           LlmFails, Heartbeat, HeartbeatFails, Cancel, ReleaseRefused, Die, Tick, vars,
           columns
  <2>2. QED
    BY <2>1 DEF Attemptable, NoStrandedJob
<1>7. QED
  BY <1>1, <1>2, <1>3, <1>4, <1>5, <1>6 DEF Next, Dispatch

\* No release, recovery, replay or enqueueing leaves a PENDING row without an
\* attempt, which the WHERE clause of claim_next_job would skip for ever.
THEOREM NoJobIsStranded == Spec => []NoStrandedJob
<1>1. Init => TypeOK /\ Attemptable
  BY TypeInit, AttemptableInit
<1>2. TypeOK /\ Attemptable /\ [Next]_vars => (TypeOK /\ Attemptable)'
  BY TypeStep, AttemptableStep
<1>3. Attemptable => NoStrandedJob
  BY DEF Attemptable
<1>4. QED
  BY <1>1, <1>2, <1>3, PTL DEF Spec
-----------------------------------------------------------------------------
(***************************************************************************)
(* A settled job never changes.                                            *)
(***************************************************************************)
SettledRow(j) == <<status[j], attempts[j], leaseToken[j], leaseUntil[j],
                   availableAt[j], maxAttempts[j]>>

\* A fenced write changes no row but the running one it is fenced on.
LEMMA FencedWriteSparesSettled ==
  ASSUME TypeOK, NEW j \in Jobs, status[j] \in Settled, NEW w \in Workers,
         \/ Heartbeat(w)
         \/ \E outcome \in Settled \cup {"FAILED"} : Complete(w, outcome)
         \/ ReleaseFailed(w) \/ ReleaseLlm(w)
  PROVE  UNCHANGED SettledRow(j)
<1>1. claim[w].job # j
  BY DEF Heartbeat, Complete, ReleaseFailed, ReleaseLlm, LeaseValid, Settled
<1>2. ASSUME Heartbeat(w) PROVE UNCHANGED SettledRow(j)
  BY <1>1, <1>2 DEF Heartbeat, SettledRow, TypeOK
<1>3. ASSUME NEW outcome, Complete(w, outcome) PROVE UNCHANGED SettledRow(j)
  BY <1>1, <1>3 DEF Complete, ClearLease, SettledRow, TypeOK
<1>4. ASSUME ReleaseFailed(w) \/ ReleaseLlm(w) PROVE UNCHANGED SettledRow(j)
  <2>1. PICK extra, delay : Requeue(claim[w].job, extra, delay)
    BY <1>4 DEF ReleaseFailed, ReleaseLlm
  <2>2. UNCHANGED attempts
    BY <1>4 DEF ReleaseFailed, ReleaseLlm
  <2>3. QED
    BY <1>1, <2>1, <2>2 DEF Requeue, ClearLease, SettledRow, TypeOK
<1>5. QED
  BY <1>2, <1>3, <1>4

LEMMA SettledStep ==
  ASSUME TypeOK, Next, NEW j \in Jobs, status[j] \in Settled
  PROVE  UNCHANGED SettledRow(j)
<1>1. ASSUME NEW i \in Jobs, Enqueue(i) \/ Replay(i) PROVE UNCHANGED SettledRow(j)
  BY <1>1 DEF Enqueue, Replay, ClearLease, SettledRow, Settled, TypeOK
<1>2. ASSUME NEW w \in Workers, Recover(w) PROVE UNCHANGED SettledRow(j)
  <2>1. j \notin Expired
    BY DEF Expired, Settled
  <2>2. QED
    BY <1>2, <2>1 DEF Recover, SettledRow
<1>3. ASSUME NEW w \in Workers, NEW i \in Jobs, Claim(w, i) PROVE UNCHANGED SettledRow(j)
  BY <1>3 DEF Claim, Claimable, SettledRow, Settled, TypeOK
<1>4. ASSUME NEW w \in Workers,
             \/ Heartbeat(w)
             \/ \E outcome \in Settled \cup {"FAILED"} : Complete(w, outcome)
             \/ ReleaseFailed(w) \/ ReleaseLlm(w)
      PROVE  UNCHANGED SettledRow(j)
  BY <1>4, FencedWriteSparesSettled
<1>5. ASSUME \/ \E w \in Workers :
                  \/ ClaimNothing(w) \/ BeginStep(w) \/ BeginRefused(w) \/ SaveCheckpoint(w)
                  \/ WriteRefused(w) \/ StepFails(w) \/ LlmFails(w) \/ HeartbeatFails(w)
                  \/ Cancel(w) \/ ReleaseRefused(w) \/ Die(w)
             \/ Tick
      PROVE  UNCHANGED SettledRow(j)
  BY <1>5
     DEF ClaimNothing, BeginStep, BeginRefused, SaveCheckpoint, WriteRefused, StepFails,
         LlmFails, HeartbeatFails, Cancel, ReleaseRefused, Die, Tick, columns, SettledRow
<1>6. QED
  BY <1>1, <1>2, <1>3, <1>4, <1>5 DEF Next, Dispatch

\* A job that ended in SUCCESS or PARTIAL is never claimed, revived, recovered
\* or rewritten, not even by a worker that still believes it runs the job.
THEOREM SettledJobsAreFinal == Spec => SettledIsFinal
<1>1. TypeOK /\ [Next]_vars =>
        [\A j \in Jobs :
           status[j] \in Settled =>
             UNCHANGED <<status[j], attempts[j], leaseToken[j], leaseUntil[j],
                         availableAt[j], maxAttempts[j]>>]_vars
  BY SettledStep DEF SettledRow
<1>2. QED
  BY <1>1, TypeCorrect, PTL DEF Spec, SettledIsFinal
-----------------------------------------------------------------------------
(***************************************************************************)
(* Leases and step runs of the holder.                                     *)
(***************************************************************************)

LEMMA RenewalStep ==
  ASSUME TypeOK, Ownership, Next, NEW j \in Jobs,
         status[j] = "RUNNING", leaseUntil'[j] > leaseUntil[j]
  PROVE  /\ leaseUntil[j] > now
         /\ \E w \in Workers : Holds(w, j) /\ pc[w] \in Dispatching
<1>1. ASSUME leaseUntil'[j] = leaseUntil[j] \/ leaseUntil'[j] = 0 PROVE FALSE
  BY <1>1 DEF TypeOK
<1>2. ASSUME NEW w \in Workers, Heartbeat(w)
      PROVE  leaseUntil[j] > now /\ Holds(w, j) /\ pc[w] \in Dispatching
  <2>1. claim[w].job = j
    BY <1>1, <1>2 DEF Heartbeat, TypeOK
  <2>2. claim[w].token # NoToken
    BY <1>2 DEF Heartbeat, Claimed, Ownership, ClaimIffDispatched
  <2>3. QED
    BY <1>2, <2>1, <2>2 DEF Heartbeat, LeaseValid, Holds
<1>3. ASSUME NEW i \in Jobs, Enqueue(i) \/ Replay(i) PROVE FALSE
  BY <1>1, <1>3 DEF Enqueue, Replay, ClearLease, TypeOK
<1>4. ASSUME NEW w \in Workers, Recover(w) PROVE FALSE
  BY <1>1, <1>4 DEF Recover
<1>5. ASSUME NEW w \in Workers, NEW i \in Jobs, Claim(w, i) PROVE FALSE
  <2>1. i # j
    BY <1>5 DEF Claim, Claimable
  <2>2. QED
    BY <1>1, <1>5, <2>1 DEF Claim, TypeOK
<1>6. ASSUME NEW w \in Workers,
             \/ \E outcome \in Settled \cup {"FAILED"} : Complete(w, outcome)
             \/ ReleaseFailed(w) \/ ReleaseLlm(w)
      PROVE  FALSE
  <2>1. ClearLease(claim[w].job)
    BY <1>6 DEF Complete, ReleaseFailed, ReleaseLlm, Requeue
  <2>2. QED
    BY <1>1, <2>1 DEF ClearLease, TypeOK
<1>7. ASSUME \/ \E w \in Workers :
                  \/ ClaimNothing(w) \/ BeginStep(w) \/ BeginRefused(w) \/ SaveCheckpoint(w)
                  \/ WriteRefused(w) \/ StepFails(w) \/ LlmFails(w) \/ HeartbeatFails(w)
                  \/ Cancel(w) \/ ReleaseRefused(w) \/ Die(w)
             \/ Tick
      PROVE  FALSE
  BY <1>1, <1>7
     DEF ClaimNothing, BeginStep, BeginRefused, SaveCheckpoint, WriteRefused, StepFails,
         LlmFails, HeartbeatFails, Cancel, ReleaseRefused, Die, Tick, columns
<1>8. QED
  BY <1>2, <1>3, <1>4, <1>5, <1>6, <1>7 DEF Next, Dispatch

\* A lease that has expired is never extended, and nobody extends the lease of a
\* worker that no longer dispatches: the jobs of dead workers become recoverable.
THEOREM OnlyHoldersRenew == Spec => OnlyHolderRenews
<1>1. TypeOK /\ Ownership /\ [Next]_vars =>
        [\A j \in Jobs :
           /\ status[j] = "RUNNING"
           /\ leaseUntil'[j] > leaseUntil[j]
           => /\ leaseUntil[j] > now
              /\ \E w \in Workers : Holds(w, j) /\ pc[w] \in Dispatching]_vars
  BY RenewalStep
<1>2. QED
  BY <1>1, OwnershipInvariant, PTL DEF Spec, OnlyHolderRenews

\* A worker that closes its own step run, and leaves the step, closes no other
\* worker's.
LEMMA OwnRunClosed ==
  ASSUME TypeOK, Ownership, HolderRunOpen, NEW v \in Workers, pc[v] \in Dispatching,
         CloseOwnRun(v), pc'[v] # "executing",
         \A w \in Workers \ {v} : pc'[w] = pc[w] /\ claim'[w] = claim[w],
         \A j \in Jobs : leaseToken'[j] = leaseToken[j] \/ leaseToken'[j] = NoToken
  PROVE  HolderRunOpen'
<1> SUFFICES ASSUME NEW w \in Workers, pc'[w] = "executing", Holds(w, claim[w].job)'
             PROVE  (claim[w].token \in openRuns[claim[w].job])'
  BY DEF HolderRunOpen
<1>1. w # v /\ pc[w] = "executing" /\ claim'[w] = claim[w]
  OBVIOUS
<1>2. claim[w].job \in Jobs
  BY <1>1 DEF Ownership, ClaimIffDispatched, Claimed, Dispatching
<1>3. Holds(w, claim[w].job)
  BY <1>1, <1>2 DEF Holds
<1>4. claim[w].token \in openRuns[claim[w].job]
  BY <1>1, <1>3 DEF HolderRunOpen
<1>5. claim[w].token # claim[v].token
  BY <1>1, <1>3 DEF Holds, Ownership, ClaimsDistinct
<1>6. QED
  BY <1>1, <1>2, <1>4, <1>5 DEF CloseOwnRun, TypeOK

\* So does a step that only moves workers out of their steps and never hands a
\* running row to another token.
LEMMA RunsKept ==
  ASSUME TypeOK, Ownership, HolderRunOpen, UNCHANGED openRuns,
         \A w \in Workers : pc'[w] = "executing" =>
           pc[w] = "executing" /\ claim'[w] = claim[w],
         \A j \in Jobs : \/ leaseToken'[j] = leaseToken[j]
                         \/ leaseToken'[j] = NoToken \/ leaseToken'[j] = nextToken
  PROVE  HolderRunOpen'
<1> SUFFICES ASSUME NEW w \in Workers, pc'[w] = "executing", Holds(w, claim[w].job)'
             PROVE  (claim[w].token \in openRuns[claim[w].job])'
  BY DEF HolderRunOpen
<1>1. pc[w] = "executing" /\ claim'[w] = claim[w]
  OBVIOUS
<1>2. claim[w].job \in Jobs
  BY <1>1 DEF Ownership, ClaimIffDispatched, Claimed, Dispatching
<1>3. claim[w].token # nextToken
  BY DEF Ownership, TokensIssued, TypeOK
<1>4. Holds(w, claim[w].job)
  BY <1>1, <1>2, <1>3 DEF Holds
<1>5. QED
  BY <1>1, <1>4 DEF HolderRunOpen

\* recover_expired_claims closes step runs of rows that do not run; a claim of
\* such a row is not held.
LEMMA RecoverKeepsHoldersRun ==
  ASSUME TypeOK, Ownership, HolderRunOpen, NEW v \in Workers, Recover(v)
  PROVE  HolderRunOpen'
<1> SUFFICES ASSUME NEW w \in Workers, pc'[w] = "executing", Holds(w, claim[w].job)'
             PROVE  (claim[w].token \in openRuns[claim[w].job])'
  BY DEF HolderRunOpen
<1>1. pc[w] = "executing" /\ claim'[w] = claim[w]
  BY DEF Recover, Goto, TypeOK
<1>2. claim[w].job \in Jobs /\ claim[w].token # NoToken
  BY <1>1 DEF Ownership, ClaimIffDispatched, Claimed, Dispatching
<1>3. Holds(w, claim[w].job) /\ claim[w].job \notin Expired
  BY <1>1, <1>2 DEF Recover, Holds
<1>4. status[claim[w].job] = "RUNNING"
  BY <1>2, <1>3 DEF Holds, Ownership, TokenIffRunning
<1>5. openRuns'[claim[w].job] = openRuns[claim[w].job]
  BY <1>2, <1>3, <1>4 DEF Recover
<1>6. QED
  BY <1>1, <1>3, <1>5 DEF HolderRunOpen

LEMMA BeginStepOpensRun ==
  ASSUME TypeOK, Ownership, HolderRunOpen, NEW v \in Workers, BeginStep(v)
  PROVE  HolderRunOpen'
<1> SUFFICES ASSUME NEW w \in Workers, pc'[w] = "executing", Holds(w, claim[w].job)'
             PROVE  (claim[w].token \in openRuns[claim[w].job])'
  BY DEF HolderRunOpen
<1>1. UNCHANGED <<claim, leaseToken>>
  BY DEF BeginStep, columns
<1>2. claim[v].job \in Jobs
  BY DEF BeginStep, Ownership, ClaimIffDispatched, Claimed, Dispatching
<1>3. CASE w = v
  BY <1>1, <1>2, <1>3 DEF BeginStep, TypeOK
<1>4. CASE w # v
  <2>1. pc[w] = "executing"
    BY <1>4 DEF BeginStep, Goto, TypeOK
  <2>2. claim[w].job \in Jobs
    BY <2>1 DEF Ownership, ClaimIffDispatched, Claimed, Dispatching
  <2>3. claim[w].token \in openRuns[claim[w].job]
    BY <1>1, <2>1 DEF Holds, HolderRunOpen
  <2>4. QED
    BY <1>1, <1>2, <2>2, <2>3 DEF BeginStep, TypeOK
<1>5. QED
  BY <1>3, <1>4

LEMMA HolderRunStep ==
  TypeOK /\ Ownership /\ HolderRunOpen /\ [Next]_vars => HolderRunOpen'
<1> SUFFICES ASSUME TypeOK, Ownership, HolderRunOpen, [Next]_vars PROVE HolderRunOpen'
  OBVIOUS
<1>1. ASSUME NEW w \in Workers, Recover(w) \/ BeginStep(w) PROVE HolderRunOpen'
  BY <1>1, RecoverKeepsHoldersRun, BeginStepOpensRun
<1>2. ASSUME NEW j \in Jobs, Enqueue(j) \/ Replay(j) PROVE HolderRunOpen'
  BY <1>2, RunsKept DEF Enqueue, Replay, ClearLease, workers, TypeOK
<1>3. ASSUME NEW w \in Workers, NEW j \in Jobs, Claim(w, j) PROVE HolderRunOpen'
  BY <1>3, RunsKept DEF Claim, Goto, TypeOK
<1>4. ASSUME NEW w \in Workers, ClaimNothing(w) \/ ReleaseRefused(w) \/ Die(w)
      PROVE  HolderRunOpen'
  BY <1>4, RunsKept DEF ClaimNothing, ReleaseRefused, Die, Forget, Goto, columns, TypeOK
<1>5. ASSUME NEW w \in Workers, ReleaseFailed(w) \/ ReleaseLlm(w) PROVE HolderRunOpen'
  <2>1. ClearLease(claim[w].job)
    BY <1>5 DEF ReleaseFailed, ReleaseLlm, Requeue
  <2>2. Forget(w) /\ UNCHANGED openRuns
    BY <1>5 DEF ReleaseFailed, ReleaseLlm
  <2>3. QED
    BY <2>1, <2>2, RunsKept DEF ClearLease, Forget, Goto, TypeOK
<1>6. ASSUME NEW w \in Workers, BeginRefused(w) \/ Cancel(w) PROVE HolderRunOpen'
  BY <1>6, RunsKept DEF BeginRefused, Cancel, Goto, columns, TypeOK
<1>7. ASSUME Tick \/ UNCHANGED vars \/ (\E w \in Workers : Heartbeat(w) \/ HeartbeatFails(w))
      PROVE  HolderRunOpen'
  BY <1>7, RunsKept DEF Tick, vars, Heartbeat, HeartbeatFails, columns, workers
<1>8. ASSUME NEW w \in Workers,
             SaveCheckpoint(w) \/ WriteRefused(w) \/ StepFails(w) \/ LlmFails(w)
      PROVE  HolderRunOpen'
  <2>1. /\ pc[w] \in Dispatching
        /\ CloseOwnRun(w)
        /\ UNCHANGED <<claim, leaseToken>>
    BY <1>8 DEF SaveCheckpoint, WriteRefused, StepFails, LlmFails, Dispatching, columns
  <2>2. \E place \in Places \ {"executing"} : Goto(w, place)
    BY <1>8 DEF SaveCheckpoint, WriteRefused, StepFails, LlmFails, Places
  <2>3. QED
    BY <2>1, <2>2, OwnRunClosed DEF Goto, TypeOK
<1>9. ASSUME NEW w \in Workers, NEW outcome \in Settled \cup {"FAILED"}, Complete(w, outcome)
      PROVE  HolderRunOpen'
  BY <1>9, OwnRunClosed DEF Complete, ClearLease, Forget, Goto, Dispatching, TypeOK
<1>10. QED
  BY <1>1, <1>2, <1>3, <1>4, <1>5, <1>6, <1>7, <1>8, <1>9 DEF Next, Dispatch

\* While a worker executes a step under a live claim, the step run it opened is
\* still open: no recovery of the queue marks it failed under its feet.
THEOREM HoldersRunIsOpen == Spec => []HolderRunOpen
<1>1. Init => HolderRunOpen
  BY DEF Init, HolderRunOpen
<1>2. TypeOK /\ Ownership /\ HolderRunOpen /\ [Next]_vars => HolderRunOpen'
  BY HolderRunStep
<1>3. QED
  BY <1>1, <1>2, OwnershipInvariant, PTL DEF Spec
-----------------------------------------------------------------------------
(***************************************************************************)
(* The budget of genuine failures.                                         *)
(***************************************************************************)

\* The budget of one row, as GenuineBudgetKept states it.
BudgetOf(j) ==
  status[j] \in {"PENDING", "RUNNING"} =>
    MaxAttempts + attempts[j] <=
      maxAttempts[j] + failures[j] + (IF status[j] = "RUNNING" THEN 1 ELSE 0)

\* What makes it inductive: a row never has fewer attempts than it was created
\* with, and none is spent before it is queued.
BudgetRow(j) ==
  /\ BudgetOf(j)
  /\ maxAttempts[j] >= MaxAttempts
  /\ status[j] = "ABSENT" => attempts[j] = 0

LEMMA BudgetRowKept ==
  ASSUME NEW j, BudgetRow(j),
         UNCHANGED <<status[j], attempts[j], maxAttempts[j], failures[j]>>
  PROVE  BudgetRow(j)'
BY DEF BudgetRow, BudgetOf

\* release_failed_claim charges a claim that failed to the failures, and one that
\* was rescheduled to the widened max_attempts.
LEMMA ReleaseKeepsBudget ==
  ASSUME TypeOK, NEW w \in Workers, ReleaseFailed(w) \/ ReleaseLlm(w),
         NEW j \in Jobs, BudgetRow(j)
  PROVE  BudgetRow(j)'
<1> DEFINE k == claim[w].job
<1>1. status[k] = "RUNNING" /\ UNCHANGED attempts
  BY DEF ReleaseFailed, ReleaseLlm, LeaseValid
<1>2. CASE j # k
  <2>1. PICK extra, delay : Requeue(k, extra, delay)
    BY DEF ReleaseFailed, ReleaseLlm
  <2>2. failures'[j] = failures[j]
    BY <1>2 DEF ReleaseFailed, ReleaseLlm, TypeOK
  <2>3. UNCHANGED <<status[j], attempts[j], maxAttempts[j], failures[j]>>
    BY <1>1, <1>2, <2>1, <2>2 DEF Requeue, TypeOK
  <2>4. QED
    BY <2>3, BudgetRowKept
<1>3. CASE j = k /\ ReleaseFailed(w)
  <2>1. status'[j] # "RUNNING" /\ status'[j] # "ABSENT"
    BY <1>3 DEF ReleaseFailed, Requeue, TypeOK
  <2>2. maxAttempts'[j] = maxAttempts[j] /\ failures'[j] = failures[j] + 1
    BY <1>3 DEF ReleaseFailed, Requeue, TypeOK
  <2>3. QED
    BY <1>1, <1>3, <2>1, <2>2, JobQueueAssumption DEF BudgetRow, BudgetOf, TypeOK
<1>4. CASE j = k /\ ReleaseLlm(w)
  <2>1. PICK delay : Requeue(k, 1, delay)
    BY <1>4 DEF ReleaseLlm
  <2>2. status'[j] # "RUNNING" /\ status'[j] # "ABSENT"
    BY <1>4, <2>1 DEF Requeue, TypeOK
  <2>3. maxAttempts'[j] = maxAttempts[j] + 1 /\ failures'[j] = failures[j]
    BY <1>4, <2>1 DEF ReleaseLlm, Requeue, TypeOK
  <2>4. QED
    BY <1>1, <1>4, <2>2, <2>3, JobQueueAssumption DEF BudgetRow, BudgetOf, TypeOK
<1>5. QED
  BY <1>2, <1>3, <1>4

LEMMA BudgetStep ==
  ASSUME TypeOK, [Next]_vars, NEW j \in Jobs, BudgetRow(j)
  PROVE  BudgetRow(j)'
<1>0. /\ attempts[j] \in Nat /\ maxAttempts[j] \in Nat /\ failures[j] \in Nat
      /\ MaxAttempts \in Nat \ {0}
  BY JobQueueAssumption DEF TypeOK
<1>1. ASSUME NEW i \in Jobs, Enqueue(i) PROVE BudgetRow(j)'
  <2>1. CASE i = j
    <3>1. status'[j] = "PENDING" /\ attempts[j] = 0
          /\ UNCHANGED <<attempts, maxAttempts, failures>>
      BY <1>1, <2>1 DEF Enqueue, BudgetRow, TypeOK
    <3>2. QED
      BY <1>0, <3>1 DEF BudgetRow, BudgetOf
  <2>2. CASE i # j
    BY <1>1, <2>2, BudgetRowKept DEF Enqueue, TypeOK
  <2>3. QED
    BY <2>1, <2>2
<1>2. ASSUME NEW i \in Jobs, Replay(i) PROVE BudgetRow(j)'
  <2>1. CASE i = j
    <3>1. status'[j] = "PENDING" /\ attempts'[j] = 0 /\ failures'[j] = 0
          /\ UNCHANGED maxAttempts
      BY <1>2, <2>1 DEF Replay, TypeOK
    <3>2. QED
      BY <1>0, <3>1 DEF BudgetRow, BudgetOf
  <2>2. CASE i # j
    BY <1>2, <2>2, BudgetRowKept DEF Replay, TypeOK
  <2>3. QED
    BY <2>1, <2>2
<1>3. ASSUME NEW w \in Workers, Recover(w) PROVE BudgetRow(j)'
  <2>1. CASE j \in Expired
    <3>1. /\ status[j] = "RUNNING"
          /\ status'[j] # "RUNNING" /\ status'[j] # "ABSENT"
          /\ failures'[j] = failures[j] + 1
          /\ UNCHANGED <<attempts, maxAttempts>>
      BY <1>3, <2>1 DEF Recover, Expired
    <3>2. QED
      BY <1>0, <3>1 DEF BudgetRow, BudgetOf
  <2>2. CASE j \notin Expired
    BY <1>3, <2>2, BudgetRowKept DEF Recover
  <2>3. QED
    BY <2>1, <2>2
<1>4. ASSUME NEW w \in Workers, NEW i \in Jobs, Claim(w, i) PROVE BudgetRow(j)'
  <2>1. CASE i = j
    <3>1. /\ status[j] = "PENDING" /\ status'[j] = "RUNNING"
          /\ attempts'[j] = attempts[j] + 1
          /\ UNCHANGED <<maxAttempts, failures>>
      BY <1>4, <2>1 DEF Claim, Claimable, TypeOK
    <3>2. QED
      BY <1>0, <3>1 DEF BudgetRow, BudgetOf
  <2>2. CASE i # j
    BY <1>4, <2>2, BudgetRowKept DEF Claim, TypeOK
  <2>3. QED
    BY <2>1, <2>2
<1>5. ASSUME NEW w \in Workers, NEW outcome \in Settled \cup {"FAILED"}, Complete(w, outcome)
      PROVE  BudgetRow(j)'
  <2>1. /\ status'[j] = status[j] \/ status'[j] \in Settled \cup {"FAILED"}
        /\ UNCHANGED <<attempts, maxAttempts, failures>>
    BY <1>5 DEF Complete, TypeOK
  <2>2. QED
    BY <1>0, <2>1 DEF BudgetRow, BudgetOf, Settled
<1>6. ASSUME NEW w \in Workers, ReleaseFailed(w) \/ ReleaseLlm(w) PROVE BudgetRow(j)'
  BY <1>6, ReleaseKeepsBudget
<1>7. ASSUME \/ \E w \in Workers :
                  \/ ClaimNothing(w) \/ BeginStep(w) \/ BeginRefused(w) \/ SaveCheckpoint(w)
                  \/ WriteRefused(w) \/ StepFails(w) \/ LlmFails(w) \/ Heartbeat(w)
                  \/ HeartbeatFails(w) \/ Cancel(w) \/ ReleaseRefused(w) \/ Die(w)
             \/ Tick \/ UNCHANGED vars
      PROVE  BudgetRow(j)'
  <2>1. UNCHANGED <<status, attempts, maxAttempts, failures>>
    BY <1>7
       DEF ClaimNothing, BeginStep, BeginRefused, SaveCheckpoint, WriteRefused, StepFails,
           LlmFails, Heartbeat, HeartbeatFails, Cancel, ReleaseRefused, Die, Tick, vars,
           columns
  <2>2. QED
    BY <2>1, BudgetRowKept
<1>8. QED
  BY <1>1, <1>2, <1>3, <1>4, <1>5, <1>6, <1>7 DEF Next, Dispatch

\* However many provider failures reschedule a job, they leave it the attempts
\* that its genuine failures have not spent.
THEOREM GenuineBudgetIsKept == Spec => []GenuineBudgetKept
<1> DEFINE Budget == \A j \in Jobs : BudgetRow(j)
<1>1. Init => Budget
  <2> SUFFICES ASSUME Init, NEW j \in Jobs PROVE BudgetRow(j)
    OBVIOUS
  <2>1. status[j] = "ABSENT" /\ attempts[j] = 0 /\ maxAttempts[j] = MaxAttempts
    BY DEF Init
  <2>2. QED
    BY <2>1, JobQueueAssumption DEF BudgetRow, BudgetOf
<1>2. TypeOK /\ Budget /\ [Next]_vars => Budget'
  BY BudgetStep
<1>3. Budget => GenuineBudgetKept
  BY DEF BudgetRow, BudgetOf, GenuineBudgetKept
<1> HIDE DEF Budget
<1>4. QED
  BY <1>1, <1>2, <1>3, TypeCorrect, PTL DEF Spec
-----------------------------------------------------------------------------
(***************************************************************************)
(* The attempts that LLM reschedules add.                                  *)
(***************************************************************************)

\* An AI retry forgets its count with each checkpoint.  What it has been given is
\* then known to the claim that holds the row; when that claim is lost with it, a
\* genuine failure pays for it.
ForgetfulRow(j) ==
  /\ maxAttempts[j] <= MaxAttempts + LlmMaxRetries * failures[j] + LlmMaxRetries
  /\ status[j] \in {"ABSENT", "PENDING"} =>
       maxAttempts[j] <= MaxAttempts + LlmMaxRetries * failures[j] + llmRetries[j]
  /\ \A w \in Workers :
       Holds(w, j) => maxAttempts[j] <= MaxAttempts + LlmMaxRetries * failures[j] + claim[w].llm

\* The other modes carry the count along.
CountedRow(j) ==
  /\ maxAttempts[j] = MaxAttempts + llmRetries[j]
  /\ \A w \in Workers : Holds(w, j) => claim[w].llm = llmRetries[j]

WideningRow(j) ==
  /\ llmRetries[j] <= LlmMaxRetries
  /\ IF RunMode[j] = "AI_RETRY" THEN ForgetfulRow(j) ELSE CountedRow(j)

\* A claim is rescheduled only below the limit.
ClaimCounts ==
  \A w \in Workers : /\ claim[w].llm <= LlmMaxRetries
                     /\ pc[w] = "llmFailed" => claim[w].llm < LlmMaxRetries

Widening == ClaimCounts /\ \A j \in Jobs : WideningRow(j)

LEMMA WideningInit == Init => Widening
<1> SUFFICES ASSUME Init PROVE Widening
  OBVIOUS
<1> USE JobQueueAssumption
<1>1. ClaimCounts
  BY DEF Init, ClaimCounts, NoClaim
<1>2. ASSUME NEW j \in Jobs PROVE WideningRow(j)
  <2>1. \A w \in Workers : ~Holds(w, j)
    BY DEF Init, Holds, NoClaim
  <2>2. llmRetries[j] = 0 /\ failures[j] = 0 /\ maxAttempts[j] = MaxAttempts
    BY DEF Init
  <2>3. LlmMaxRetries * 0 = 0
    OBVIOUS
  <2>4. QED
    BY <2>1, <2>2, <2>3 DEF WideningRow, ForgetfulRow, CountedRow
<1>3. QED
  BY <1>1, <1>2 DEF Widening

LEMMA ClaimCountsStep == TypeOK /\ Widening /\ [Next]_vars => ClaimCounts'
<1> SUFFICES ASSUME TypeOK, Widening, [Next]_vars PROVE ClaimCounts'
  OBVIOUS
<1> USE JobQueueAssumption DEF ClaimCounts
<1>0. ClaimCounts /\ \A j \in Jobs : llmRetries[j] <= LlmMaxRetries
  BY DEF Widening, WideningRow
<1>1. ASSUME NEW w \in Workers, Forget(w) PROVE ClaimCounts'
  BY <1>0, <1>1 DEF Forget, Goto, NoClaim, TypeOK
<1>2. ASSUME NEW w \in Workers, NEW place, place # "llmFailed", Goto(w, place), UNCHANGED claim
      PROVE  ClaimCounts'
  BY <1>0, <1>2 DEF Goto, TypeOK
<1>3. ASSUME NEW w \in Workers, NEW j \in Jobs, Claim(w, j) PROVE ClaimCounts'
  BY <1>0, <1>3 DEF Claim, Goto, TypeOK
<1>4. ASSUME NEW w \in Workers, LlmFails(w) PROVE ClaimCounts'
  BY <1>0, <1>4 DEF LlmFails, Goto, TypeOK
<1>5. ASSUME UNCHANGED <<pc, claim>> PROVE ClaimCounts'
  BY <1>0, <1>5
<1>6. ASSUME NEW w \in Workers,
             \/ Recover(w) \/ BeginStep(w) \/ BeginRefused(w) \/ SaveCheckpoint(w)
             \/ WriteRefused(w) \/ StepFails(w) \/ Cancel(w)
      PROVE  ClaimCounts'
  BY <1>2, <1>6
     DEF Recover, BeginStep, BeginRefused, SaveCheckpoint, WriteRefused, StepFails, Cancel
<1>7. ASSUME NEW w \in Workers,
             \/ ClaimNothing(w) \/ ReleaseFailed(w) \/ ReleaseLlm(w) \/ ReleaseRefused(w) \/ Die(w)
             \/ \E outcome \in Settled \cup {"FAILED"} : Complete(w, outcome)
      PROVE  ClaimCounts'
  BY <1>1, <1>7 DEF ClaimNothing, ReleaseFailed, ReleaseLlm, ReleaseRefused, Die, Complete
<1>8. ASSUME \/ \E j \in Jobs : Enqueue(j) \/ Replay(j)
             \/ \E w \in Workers : Heartbeat(w) \/ HeartbeatFails(w)
             \/ Tick \/ UNCHANGED vars
      PROVE  ClaimCounts'
  BY <1>5, <1>8 DEF Enqueue, Replay, Heartbeat, HeartbeatFails, Tick, vars, workers
<1>9. QED
  BY <1>3, <1>4, <1>6, <1>7, <1>8 DEF Next, Dispatch

LEMMA WideningRowKept ==
  ASSUME NEW j, WideningRow(j),
         UNCHANGED <<status[j], maxAttempts[j], llmRetries[j], failures[j]>>,
         \A w \in Workers : Holds(w, j)' => Holds(w, j) /\ claim'[w].llm = claim[w].llm
  PROVE  WideningRow(j)'
BY DEF WideningRow, ForgetfulRow, CountedRow

\* A row that a step leaves alone, while a worker forgets its claim or none does.
LEMMA WideningRowElsewhere ==
  ASSUME TypeOK, NEW w \in Workers, NEW j \in Jobs, WideningRow(j),
         UNCHANGED <<status[j], maxAttempts[j], leaseToken[j], llmRetries[j], failures[j]>>,
         Forget(w) \/ UNCHANGED claim
  PROVE  WideningRow(j)'
<1>1. \A v \in Workers : claim'[v] = claim[v] \/ claim'[v] = NoClaim
  BY DEF Forget, TypeOK
<1>2. \A v \in Workers : Holds(v, j)' => Holds(v, j) /\ claim'[v].llm = claim[v].llm
  BY <1>1 DEF Holds, NoClaim
<1>3. QED
  BY <1>2, WideningRowKept

\* A claim that was released with its lease intact.
LEMMA ReleaseKeepsWidening ==
  ASSUME TypeOK, Ownership, Widening, NEW w \in Workers, ReleaseFailed(w) \/ ReleaseLlm(w),
         NEW j \in Jobs
  PROVE  WideningRow(j)'
<1> USE JobQueueAssumption
<1> DEFINE k == claim[w].job
<1>1. /\ status[k] = "RUNNING" /\ leaseToken[k] = claim[w].token
      /\ Forget(w) /\ k \in Jobs /\ claim[w].token # NoToken
  BY DEF ReleaseFailed, ReleaseLlm, LeaseValid, Ownership, ClaimIffDispatched, Claimed
<1>2. WideningRow(j) /\ claim[w].llm <= LlmMaxRetries
      /\ (pc[w] = "llmFailed" => claim[w].llm < LlmMaxRetries)
  BY DEF Widening, ClaimCounts
<1>3. CASE j # k
  <2>1. PICK extra, delay : Requeue(k, extra, delay)
    BY DEF ReleaseFailed, ReleaseLlm
  <2>2. failures'[j] = failures[j] /\ llmRetries'[j] = llmRetries[j]
    BY <1>3 DEF ReleaseFailed, ReleaseLlm, TypeOK
  <2>3. UNCHANGED <<status[j], maxAttempts[j], leaseToken[j], llmRetries[j], failures[j]>>
    BY <1>3, <2>1, <2>2 DEF Requeue, ClearLease, TypeOK
  <2>4. QED
    BY <1>1, <1>2, <2>3, WideningRowElsewhere
<1>4. CASE j = k
  <2>1. Holds(w, j)
    BY <1>1, <1>4 DEF Holds
  <2>2. leaseToken'[j] = NoToken
    BY <1>4 DEF ReleaseFailed, ReleaseLlm, Requeue, ClearLease, TypeOK
  <2>3. \A v \in Workers : ~Holds(v, j)'
    BY <2>2 DEF Holds
  <2>4. /\ failures[j] \in Nat /\ llmRetries[j] \in Nat /\ maxAttempts[j] \in Nat
        /\ claim[w].llm \in Nat /\ LlmMaxRetries * failures[j] \in Nat
    BY DEF TypeOK
  <2>5. CASE ReleaseFailed(w)
    <3>1. maxAttempts'[j] = maxAttempts[j] /\ failures'[j] = failures[j] + 1
          /\ llmRetries'[j] = llmRetries[j]
      BY <1>4, <2>5 DEF ReleaseFailed, Requeue, TypeOK
    <3>2. LlmMaxRetries * (failures[j] + 1) = LlmMaxRetries * failures[j] + LlmMaxRetries
      BY <2>4
    <3>3. QED
      BY <1>2, <2>1, <2>3, <2>4, <3>1, <3>2 DEF WideningRow, ForgetfulRow, CountedRow
  <2>6. CASE ReleaseLlm(w)
    <3>1. maxAttempts'[j] = maxAttempts[j] + 1 /\ failures'[j] = failures[j]
          /\ llmRetries'[j] = claim[w].llm + 1 /\ claim[w].llm < LlmMaxRetries
      BY <1>2, <1>4, <2>6 DEF ReleaseLlm, Requeue, TypeOK
    <3>2. QED
      BY <1>2, <2>1, <2>3, <2>4, <3>1 DEF WideningRow, ForgetfulRow, CountedRow
  <2>7. QED
    BY <2>5, <2>6
<1>5. QED
  BY <1>3, <1>4

LEMMA WideningRowStep ==
  ASSUME TypeOK, Ownership, Widening, [Next]_vars, NEW j \in Jobs
  PROVE  WideningRow(j)'
<1> USE JobQueueAssumption
<1>0. /\ WideningRow(j) /\ ClaimCounts
      /\ failures[j] \in Nat /\ llmRetries[j] \in Nat /\ maxAttempts[j] \in Nat
      /\ LlmMaxRetries * failures[j] \in Nat
  BY DEF Widening, TypeOK
<1>1. ASSUME NEW i \in Jobs, Enqueue(i) PROVE WideningRow(j)'
  <2>1. UNCHANGED <<maxAttempts, llmRetries, failures, leaseToken, claim>>
    BY <1>1 DEF Enqueue, workers
  <2>2. status[j] \in {"ABSENT", "PENDING"} <=> status'[j] \in {"ABSENT", "PENDING"}
    BY <1>1 DEF Enqueue, TypeOK
  <2>3. QED
    BY <1>0, <2>1, <2>2 DEF WideningRow, ForgetfulRow, CountedRow, Holds
<1>2. ASSUME NEW i \in Jobs, Replay(i) PROVE WideningRow(j)'
  <2>1. CASE i = j
    <3>1. /\ RunMode[j] # "AI_RETRY" /\ leaseToken'[j] = NoToken
          /\ UNCHANGED <<maxAttempts, llmRetries>>
      BY <1>2, <2>1 DEF Replay, MarketDailyModes, ClearLease, TypeOK
    <3>2. QED
      BY <1>0, <3>1 DEF WideningRow, CountedRow, Holds
  <2>2. CASE i # j
    <3>1. UNCHANGED <<status[j], maxAttempts[j], leaseToken[j], llmRetries[j], failures[j], claim>>
      BY <1>2, <2>2 DEF Replay, ClearLease, TypeOK, workers
    <3>2. QED
      BY <1>0, <3>1, WideningRowKept DEF Holds
  <2>3. QED
    BY <2>1, <2>2
<1>3. ASSUME NEW w \in Workers, Recover(w) PROVE WideningRow(j)'
  <2>1. CASE j \in Expired
    <3>1. /\ leaseToken'[j] = NoToken /\ failures'[j] = failures[j] + 1
          /\ UNCHANGED <<maxAttempts, llmRetries>>
      BY <1>3, <2>1 DEF Recover
    <3>2. LlmMaxRetries * (failures[j] + 1) = LlmMaxRetries * failures[j] + LlmMaxRetries
      BY <1>0
    <3>3. \A v \in Workers : ~Holds(v, j)'
      BY <3>1 DEF Holds
    <3>4. QED
      BY <1>0, <3>1, <3>2, <3>3 DEF WideningRow, ForgetfulRow, CountedRow
  <2>2. CASE j \notin Expired
    <3>1. UNCHANGED <<status[j], maxAttempts[j], leaseToken[j], llmRetries[j], failures[j], claim>>
      BY <1>3, <2>2 DEF Recover
    <3>2. QED
      BY <1>0, <3>1, WideningRowKept DEF Holds
  <2>3. QED
    BY <2>1, <2>2
<1>4. ASSUME NEW w \in Workers, NEW i \in Jobs, Claim(w, i) PROVE WideningRow(j)'
  <2>1. \A v \in Workers : v # w => claim'[v] = claim[v] /\ claim[v].token # nextToken
    BY <1>4 DEF Claim, TypeOK, Ownership, TokensIssued
  <2>2. claim'[w] = [job |-> i, token |-> nextToken, llm |-> llmRetries[i]]
    BY <1>4 DEF Claim, TypeOK
  <2>3. UNCHANGED <<maxAttempts, llmRetries, failures>>
    BY <1>4 DEF Claim
  <2>4. CASE i = j
    <3>1. status[j] = "PENDING" /\ status'[j] = "RUNNING" /\ leaseToken'[j] = nextToken
      BY <1>4, <2>4 DEF Claim, Claimable, TypeOK
    <3>2. \A v \in Workers : Holds(v, j)' => v = w
      BY <2>1, <3>1 DEF Holds
    <3>3. claim'[w].llm = llmRetries[j]
      BY <2>2, <2>4
    <3>4. QED
      BY <1>0, <2>3, <3>1, <3>2, <3>3 DEF WideningRow, ForgetfulRow, CountedRow
  <2>5. CASE i # j
    <3>1. status'[j] = status[j] /\ leaseToken'[j] = leaseToken[j]
      BY <1>4, <2>5 DEF Claim, TypeOK
    <3>2. \A v \in Workers : Holds(v, j)' => v # w
      BY <2>2, <2>5 DEF Holds
    <3>3. QED
      BY <1>0, <2>1, <2>3, <3>1, <3>2, WideningRowKept DEF Holds
  <2>6. QED
    BY <2>4, <2>5
<1>5. ASSUME NEW w \in Workers, SaveCheckpoint(w) PROVE WideningRow(j)'
  <2>1. UNCHANGED <<status, maxAttempts, leaseToken, failures, claim>>
    BY <1>5 DEF SaveCheckpoint
  <2>2. CASE llmRetries'[j] = llmRetries[j]
    BY <1>0, <2>1, <2>2, WideningRowKept DEF Holds
  <2>3. CASE llmRetries'[j] # llmRetries[j]
    <3>1. /\ claim[w].job = j /\ RunMode[j] = "AI_RETRY" /\ llmRetries'[j] = 0
          /\ status[j] = "RUNNING"
      BY <1>5, <2>3 DEF SaveCheckpoint, LeaseValid, TypeOK
    <3>2. QED
      BY <1>0, <2>1, <3>1 DEF WideningRow, ForgetfulRow, Holds
  <2>4. QED
    BY <2>2, <2>3
<1>6. ASSUME NEW w \in Workers, NEW outcome \in Settled \cup {"FAILED"}, Complete(w, outcome)
      PROVE  WideningRow(j)'
  <2>1. UNCHANGED <<maxAttempts, llmRetries, failures>> /\ Forget(w)
    BY <1>6 DEF Complete
  <2>2. CASE claim[w].job = j
    <3>1. leaseToken'[j] = NoToken /\ status'[j] \notin {"ABSENT", "PENDING"}
      BY <1>6, <2>2 DEF Complete, ClearLease, Settled, TypeOK
    <3>2. QED
      BY <1>0, <2>1, <3>1 DEF WideningRow, ForgetfulRow, CountedRow, Holds
  <2>3. CASE claim[w].job # j
    <3>1. status'[j] = status[j] /\ leaseToken'[j] = leaseToken[j]
      BY <1>6, <2>3 DEF Complete, ClearLease, TypeOK
    <3>2. QED
      BY <1>0, <2>1, <3>1, WideningRowElsewhere
  <2>4. QED
    BY <2>2, <2>3
<1>7. ASSUME NEW w \in Workers, ReleaseFailed(w) \/ ReleaseLlm(w) PROVE WideningRow(j)'
  BY <1>7, ReleaseKeepsWidening
<1>8. ASSUME \/ \E w \in Workers :
                  \/ ClaimNothing(w) \/ BeginStep(w) \/ BeginRefused(w) \/ WriteRefused(w)
                  \/ StepFails(w) \/ LlmFails(w) \/ Heartbeat(w) \/ HeartbeatFails(w)
                  \/ Cancel(w) \/ ReleaseRefused(w) \/ Die(w)
             \/ Tick \/ UNCHANGED vars
      PROVE  WideningRow(j)'
  <2>1. UNCHANGED <<status, maxAttempts, leaseToken, llmRetries, failures>>
        /\ (UNCHANGED claim \/ \E w \in Workers : Forget(w))
    BY <1>8
       DEF ClaimNothing, BeginStep, BeginRefused, WriteRefused, StepFails, LlmFails,
           Heartbeat, HeartbeatFails, Cancel, ReleaseRefused, Die, Tick, vars, columns, workers
  <2>2. CASE UNCHANGED claim
    BY <1>0, <2>1, <2>2, WideningRowKept DEF Holds
  <2>3. ASSUME NEW w \in Workers, Forget(w) PROVE WideningRow(j)'
    BY <1>0, <2>1, <2>3, WideningRowElsewhere
  <2>4. QED
    BY <2>1, <2>2, <2>3
<1>9. QED
  BY <1>1, <1>2, <1>3, <1>4, <1>5, <1>6, <1>7, <1>8 DEF Next, Dispatch

LEMMA WideningInvariant == Spec => []Widening
<1>1. TypeOK /\ Ownership /\ Widening /\ [Next]_vars => Widening'
  BY ClaimCountsStep, WideningRowStep DEF Widening
<1>2. QED
  BY <1>1, WideningInit, OwnershipInvariant, PTL DEF Spec

\* A provider outage adds a bounded number of attempts to a job, also to an AI
\* retry, whose checkpoints forget how many it has been given.
THEOREM LlmWideningIsBounded == Spec => []LlmWideningBounded
<1>1. TypeOK /\ Widening => LlmWideningBounded
  <2> SUFFICES ASSUME TypeOK, Widening, NEW j \in Jobs
               PROVE  IF RunMode[j] = "AI_RETRY"
                      THEN maxAttempts[j] <= MaxAttempts + LlmMaxRetries * (failures[j] + 1)
                      ELSE /\ maxAttempts[j] = MaxAttempts + llmRetries[j]
                           /\ llmRetries[j] <= LlmMaxRetries
    BY DEF LlmWideningBounded
  <2>1. failures[j] \in Nat /\ LlmMaxRetries \in Nat
    BY JobQueueAssumption DEF TypeOK
  <2>2. LlmMaxRetries * (failures[j] + 1) = LlmMaxRetries * failures[j] + LlmMaxRetries
    BY <2>1
  <2>3. QED
    BY <2>1, <2>2, JobQueueAssumption
       DEF Widening, WideningRow, ForgetfulRow, CountedRow, TypeOK
<1>2. QED
  BY <1>1, WideningInvariant, TypeCorrect, PTL
-----------------------------------------------------------------------------
(***************************************************************************)
(* The queue implements the life cycle.                                    *)
(***************************************************************************)

\* An AI retry is never replayed: every attempt it has spent was a failure, a
\* reschedule that widened max_attempts, or is the one that runs.
SpentRow(j) ==
  RunMode[j] = "AI_RETRY" =>
    /\ status[j] \in {"ABSENT", "PENDING"} =>
         MaxAttempts + attempts[j] = maxAttempts[j] + failures[j]
    /\ status[j] = "RUNNING" =>
         MaxAttempts + attempts[j] = maxAttempts[j] + failures[j] + 1

LEMMA SpentRowKept ==
  ASSUME NEW j, SpentRow(j),
         UNCHANGED <<status[j], attempts[j], maxAttempts[j], failures[j]>>
  PROVE  SpentRow(j)'
BY DEF SpentRow

LEMMA SpentRowStep ==
  ASSUME TypeOK, [Next]_vars, NEW j \in Jobs, SpentRow(j)
  PROVE  SpentRow(j)'
<1>0. /\ attempts[j] \in Nat /\ maxAttempts[j] \in Nat /\ failures[j] \in Nat
      /\ MaxAttempts \in Nat
  BY JobQueueAssumption DEF TypeOK
<1>1. ASSUME NEW i \in Jobs, Enqueue(i) PROVE SpentRow(j)'
  <2>1. /\ UNCHANGED <<attempts, maxAttempts, failures>>
        /\ status'[j] = status[j] \/ (status[j] = "ABSENT" /\ status'[j] = "PENDING")
    BY <1>1 DEF Enqueue, TypeOK
  <2>2. QED
    BY <2>1 DEF SpentRow
<1>2. ASSUME NEW i \in Jobs, Replay(i) PROVE SpentRow(j)'
  <2>1. CASE i = j
    BY <1>2, <2>1 DEF Replay, MarketDailyModes, SpentRow
  <2>2. CASE i # j
    BY <1>2, <2>2, SpentRowKept DEF Replay, TypeOK
  <2>3. QED
    BY <2>1, <2>2
<1>3. ASSUME NEW w \in Workers, Recover(w) PROVE SpentRow(j)'
  <2>1. CASE j \in Expired
    <3>1. /\ status[j] = "RUNNING" /\ status'[j] # "RUNNING"
          /\ failures'[j] = failures[j] + 1
          /\ UNCHANGED <<attempts, maxAttempts>>
      BY <1>3, <2>1 DEF Recover, Expired
    <3>2. QED
      BY <1>0, <3>1 DEF SpentRow
  <2>2. CASE j \notin Expired
    BY <1>3, <2>2, SpentRowKept DEF Recover
  <2>3. QED
    BY <2>1, <2>2
<1>4. ASSUME NEW w \in Workers, NEW i \in Jobs, Claim(w, i) PROVE SpentRow(j)'
  <2>1. CASE i = j
    <3>1. /\ status[j] = "PENDING" /\ status'[j] = "RUNNING"
          /\ attempts'[j] = attempts[j] + 1
          /\ UNCHANGED <<maxAttempts, failures>>
      BY <1>4, <2>1 DEF Claim, Claimable, TypeOK
    <3>2. QED
      BY <1>0, <3>1 DEF SpentRow
  <2>2. CASE i # j
    BY <1>4, <2>2, SpentRowKept DEF Claim, TypeOK
  <2>3. QED
    BY <2>1, <2>2
<1>5. ASSUME NEW w \in Workers, NEW outcome \in Settled \cup {"FAILED"}, Complete(w, outcome)
      PROVE  SpentRow(j)'
  <2>1. /\ status'[j] = status[j] \/ status'[j] \in Settled \cup {"FAILED"}
        /\ UNCHANGED <<attempts, maxAttempts, failures>>
    BY <1>5 DEF Complete, TypeOK
  <2>2. QED
    BY <2>1 DEF SpentRow, Settled
<1>6. ASSUME NEW w \in Workers, ReleaseFailed(w) \/ ReleaseLlm(w) PROVE SpentRow(j)'
  <2> DEFINE k == claim[w].job
  <2>1. status[k] = "RUNNING" /\ UNCHANGED attempts
    BY <1>6 DEF ReleaseFailed, ReleaseLlm, LeaseValid
  <2>2. PICK extra \in {0, 1} :
          /\ \E delay \in Nat : Requeue(k, extra, delay)
          /\ failures'[j] = IF j = k /\ extra = 0 THEN failures[j] + 1 ELSE failures[j]
    BY <1>6, JobQueueAssumption DEF ReleaseFailed, ReleaseLlm, TypeOK
  <2>3. CASE j = k
    <3>1. status'[j] # "RUNNING" /\ maxAttempts'[j] = maxAttempts[j] + extra
      BY <2>2, <2>3 DEF Requeue, TypeOK
    <3>2. QED
      BY <1>0, <2>1, <2>2, <2>3, <3>1 DEF SpentRow
  <2>4. CASE j # k
    BY <2>1, <2>2, <2>4, SpentRowKept DEF Requeue, TypeOK
  <2>5. QED
    BY <2>3, <2>4
<1>7. ASSUME \/ \E w \in Workers :
                  \/ ClaimNothing(w) \/ BeginStep(w) \/ BeginRefused(w) \/ SaveCheckpoint(w)
                  \/ WriteRefused(w) \/ StepFails(w) \/ LlmFails(w) \/ Heartbeat(w)
                  \/ HeartbeatFails(w) \/ Cancel(w) \/ ReleaseRefused(w) \/ Die(w)
             \/ Tick \/ UNCHANGED vars
      PROVE  SpentRow(j)'
  <2>1. UNCHANGED <<status, attempts, maxAttempts, failures>>
    BY <1>7
       DEF ClaimNothing, BeginStep, BeginRefused, SaveCheckpoint, WriteRefused, StepFails,
           LlmFails, Heartbeat, HeartbeatFails, Cancel, ReleaseRefused, Die, Tick, vars,
           columns
  <2>2. QED
    BY <2>1, SpentRowKept
<1>8. QED
  BY <1>1, <1>2, <1>3, <1>4, <1>5, <1>6, <1>7 DEF Next, Dispatch

LEMMA BudgetArithmetic ==
  ASSUME NEW F \in Nat, NEW R \in Nat, NEW d \in Nat
  PROVE  R * F + R + F < (F + 1 + d) * (R + 1)
<1>1. (F + 1 + d) * (R + 1) = (F + 1) * (R + 1) + d * (R + 1)
  OBVIOUS
<1>2. (F + 1) * (R + 1) = F * R + F + R + 1
  OBVIOUS
<1>3. d * (R + 1) \in Nat /\ F * R = R * F /\ R * F \in Nat
  OBVIOUS
<1>4. QED
  BY <1>1, <1>2, <1>3

\* What a claim is granted stays within the budget of the life cycle.
LEMMA ClaimWithinBudget ==
  ASSUME TypeOK, NEW j \in Jobs, j \in Claimable, WideningRow(j), SpentRow(j)
  PROVE  attempts[j] < GrantBudget(j)
<1> USE JobQueueAssumption
<1>1. /\ attempts[j] \in Nat /\ maxAttempts[j] \in Nat /\ failures[j] \in Nat
      /\ llmRetries[j] \in Nat /\ attempts[j] < maxAttempts[j] /\ status[j] = "PENDING"
  BY DEF TypeOK, Claimable
<1>2. CASE RunMode[j] # "AI_RETRY"
  BY <1>1, <1>2 DEF WideningRow, CountedRow, GrantBudget
<1>3. CASE RunMode[j] = "AI_RETRY"
  <2> DEFINE F == failures[j]
             M == MaxAttempts
             R == LlmMaxRetries
  <2>1. F \in Nat /\ M \in Nat /\ R \in Nat
    BY <1>1
  <2>2. M + attempts[j] = maxAttempts[j] + F /\ maxAttempts[j] <= M + R * F + R
    BY <1>1, <1>3 DEF SpentRow, WideningRow, ForgetfulRow
  <2>3. F + 1 <= M
    BY <1>1, <2>1, <2>2
  <2>4. \E d \in Nat : M = F + 1 + d
    <3>1. M - F - 1 \in Nat /\ M = F + 1 + (M - F - 1)
      BY <2>1, <2>3
    <3>2. QED
      BY <3>1
  <2>5. R * F + R + F < M * (R + 1)
    <3>1. PICK d \in Nat : M = F + 1 + d
      BY <2>4
    <3>2. QED
      BY <2>1, <3>1, BudgetArithmetic
  <2>6. R * F \in Nat
    BY <2>1
  <2>7. attempts[j] <= R * F + R + F
    BY <1>1, <2>1, <2>2, <2>6
  <2>8. QED
    BY <1>1, <1>3, <2>1, <2>5, <2>6, <2>7 DEF GrantBudget
<1>4. QED
  BY <1>2, <1>3

LEMMA LifecycleInit == Init => Lifecycle!Init
<1> SUFFICES ASSUME Init PROVE Lifecycle!Init
  OBVIOUS
<1>1. [j \in Jobs |-> PhaseOf(status[j])] = [j \in Jobs |-> "absent"]
  BY DEF Init, PhaseOf
<1>2. nextToken - 1 = 0 /\ leaseToken = [j \in Jobs |-> 0] /\ attempts = [j \in Jobs |-> 0]
  BY DEF Init, NoToken
<1>3. QED
  BY <1>1, <1>2 DEF Lifecycle!Init

\* Rows that stop running and lose their token end their grants.
LEMMA GrantsEnd ==
  ASSUME TypeOK, TypeOK', NEW S \in SUBSET Jobs, S # {}, UNCHANGED <<nextToken, attempts>>,
         \A j \in S : /\ status[j] = "RUNNING"
                      /\ status'[j] \in {"PENDING", "FAILED"} \cup Settled
                      /\ leaseToken'[j] = NoToken,
         \A j \in Jobs \ S : status'[j] = status[j] /\ leaseToken'[j] = leaseToken[j]
  PROVE  Lifecycle!EndGrants(S)
<1> DEFINE phase == [j \in Jobs |-> PhaseOf(status[j])]
           outcome == [j \in S |-> PhaseOf(status'[j])]
<1>1. \A j \in S : phase[j] = "held"
  BY DEF PhaseOf
<1>2. outcome \in [S -> {"queued", "done", "failed"}]
  BY DEF PhaseOf, Settled
<1>3. phase' = [j \in Jobs |-> IF j \in S THEN outcome[j] ELSE phase[j]]
  OBVIOUS
<1>4. leaseToken' = [j \in Jobs |-> IF j \in S THEN 0 ELSE leaseToken[j]]
  BY DEF TypeOK, NoToken
<1>5. UNCHANGED <<nextToken - 1, attempts>>
  OBVIOUS
<1> HIDE DEF outcome, phase
<1>6. \E o \in [S -> {"queued", "done", "failed"}] :
        phase' = [j \in Jobs |-> IF j \in S THEN o[j] ELSE phase[j]]
  BY <1>2, <1>3
<1>7. QED
  BY <1>1, <1>4, <1>5, <1>6 DEF Lifecycle!EndGrants, phase

\* A fenced write that ends the grant of the worker's job.
LEMMA OneGrantEnds ==
  ASSUME TypeOK, TypeOK', NEW w \in Workers, claim[w].job \in Jobs,
         status[claim[w].job] = "RUNNING", ClearLease(claim[w].job),
         UNCHANGED <<nextToken, attempts>>,
         NEW ended \in {"PENDING", "FAILED"} \cup Settled,
         status' = [status EXCEPT ![claim[w].job] = ended]
  PROVE  Lifecycle!EndGrants({claim[w].job})
<1> DEFINE S == {claim[w].job}
<1>1. leaseToken' = [leaseToken EXCEPT ![claim[w].job] = NoToken]
  BY DEF ClearLease
<1>2. S \in SUBSET Jobs /\ S # {}
  OBVIOUS
<1>3. \A j \in S : /\ status[j] = "RUNNING"
                  /\ status'[j] \in {"PENDING", "FAILED"} \cup Settled
                  /\ leaseToken'[j] = NoToken
  BY <1>1 DEF TypeOK
<1>4. \A j \in Jobs \ S : status'[j] = status[j] /\ leaseToken'[j] = leaseToken[j]
  BY <1>1 DEF TypeOK
<1> HIDE DEF S
<1>5. Lifecycle!EndGrants(S)
  BY <1>2, <1>3, <1>4, GrantsEnd
<1>6. QED
  BY <1>5 DEF S

LifecycleSame ==
  UNCHANGED <<[j \in Jobs |-> PhaseOf(status[j])], leaseToken, nextToken - 1, attempts>>

LEMMA LifecycleStep ==
  ASSUME TypeOK, TypeOK', Ownership, Widening, \A j \in Jobs : SpentRow(j), [Next]_vars
  PROVE  Lifecycle!Next \/ LifecycleSame
<1> DEFINE Goal == Lifecycle!Next \/ LifecycleSame
           phase == [j \in Jobs |-> PhaseOf(status[j])]
<1>1. ASSUME NEW j \in Jobs, Enqueue(j) PROVE Goal
  <2>1. phase[j] = "absent" /\ phase' = [phase EXCEPT ![j] = "queued"]
    BY <1>1 DEF Enqueue, PhaseOf, TypeOK
  <2>2. UNCHANGED <<leaseToken, nextToken - 1, attempts>>
    BY <1>1 DEF Enqueue
  <2>3. Lifecycle!Submit(j)
    BY <2>1, <2>2 DEF Lifecycle!Submit
  <2>4. QED
    BY <2>3 DEF Lifecycle!Next
<1>2. ASSUME NEW j \in Jobs, Replay(j) PROVE Goal
  <2>1. phase[j] = "failed" /\ phase' = [phase EXCEPT ![j] = "queued"]
    BY <1>2 DEF Replay, PhaseOf, TypeOK
  <2>2. leaseToken[j] = NoToken
    BY <1>2 DEF Replay, Ownership, TokenIffRunning
  <2>3. leaseToken' = leaseToken /\ nextToken' - 1 = nextToken - 1
    BY <1>2, <2>2 DEF Replay, ClearLease, TypeOK
  <2>4. attempts' = [attempts EXCEPT ![j] = 0]
    BY <1>2 DEF Replay
  <2>5. Lifecycle!Reopen(j)
    BY <2>1, <2>3, <2>4 DEF Lifecycle!Reopen
  <2>6. QED
    BY <2>5 DEF Lifecycle!Next
<1>3. ASSUME NEW w \in Workers, NEW j \in Jobs, Claim(w, j) PROVE Goal
  <2>1. phase[j] = "queued" /\ phase' = [phase EXCEPT ![j] = "held"]
    BY <1>3 DEF Claim, Claimable, PhaseOf, TypeOK
  <2>2. nextToken' - 1 = nextToken - 1 + 1 /\ nextToken = nextToken - 1 + 1
    <3>1. nextToken' = nextToken + 1 /\ nextToken \in Nat
      BY <1>3 DEF Claim, IssueToken, TypeOK
    <3>2. QED
      BY <3>1
  <2>3. leaseToken' = [leaseToken EXCEPT ![j] = nextToken - 1 + 1]
    BY <1>3, <2>2 DEF Claim
  <2>4. attempts' = [attempts EXCEPT ![j] = @ + 1]
    BY <1>3 DEF Claim
  <2>5. attempts[j] < [i \in Jobs |-> GrantBudget(i)][j]
    BY <1>3, ClaimWithinBudget DEF Claim, Widening
  <2>6. Lifecycle!Grant(j)
    BY <2>1, <2>2, <2>3, <2>4, <2>5 DEF Lifecycle!Grant
  <2>7. QED
    BY <2>6 DEF Lifecycle!Next
<1>4. ASSUME NEW w \in Workers, Recover(w) PROVE Goal
  <2>1. CASE Expired = {}
    <3>1. status' = status /\ leaseToken' = leaseToken
      BY <1>4, <2>1 DEF Recover, TypeOK
    <3>2. QED
      BY <1>4, <3>1 DEF Recover, LifecycleSame
  <2>2. CASE Expired # {}
    <3>1. Lifecycle!EndGrants(Expired)
      BY <1>4, <2>2, GrantsEnd DEF Recover, Expired
    <3>2. QED
      BY <3>1 DEF Lifecycle!Next, Expired
  <2>3. QED
    BY <2>1, <2>2
<1>5. ASSUME NEW w \in Workers, NEW outcome \in Settled \cup {"FAILED"}, Complete(w, outcome)
      PROVE  Goal
  <2>1. claim[w].job \in Jobs /\ status[claim[w].job] = "RUNNING"
    BY <1>5 DEF Complete, LeaseValid, Ownership, ClaimIffDispatched, Claimed, Dispatching
  <2>2. Lifecycle!EndGrants({claim[w].job})
    BY <1>5, <2>1, OneGrantEnds DEF Complete
  <2>3. QED
    BY <2>1, <2>2 DEF Lifecycle!Next
<1>6. ASSUME NEW w \in Workers, ReleaseFailed(w) \/ ReleaseLlm(w) PROVE Goal
  <2>1. claim[w].job \in Jobs /\ status[claim[w].job] = "RUNNING"
    BY <1>6 DEF ReleaseFailed, ReleaseLlm, LeaseValid, Ownership, ClaimIffDispatched, Claimed
  <2>2. PICK extra, delay : Requeue(claim[w].job, extra, delay)
    BY <1>6 DEF ReleaseFailed, ReleaseLlm
  <2>3. PICK ended \in {"PENDING", "FAILED"} :
          status' = [status EXCEPT ![claim[w].job] = ended]
    BY <2>2 DEF Requeue
  <2>4. UNCHANGED <<nextToken, attempts>> /\ ClearLease(claim[w].job)
    BY <1>6, <2>2 DEF ReleaseFailed, ReleaseLlm, Requeue
  <2>5. Lifecycle!EndGrants({claim[w].job})
    BY <2>1, <2>3, <2>4, OneGrantEnds
  <2>6. QED
    BY <2>1, <2>5 DEF Lifecycle!Next
<1>7. ASSUME \/ \E w \in Workers :
                  \/ ClaimNothing(w) \/ BeginStep(w) \/ BeginRefused(w) \/ SaveCheckpoint(w)
                  \/ WriteRefused(w) \/ StepFails(w) \/ LlmFails(w) \/ Heartbeat(w)
                  \/ HeartbeatFails(w) \/ Cancel(w) \/ ReleaseRefused(w) \/ Die(w)
             \/ Tick \/ UNCHANGED vars
      PROVE  Goal
  <2>1. UNCHANGED <<status, attempts, leaseToken, nextToken>>
    BY <1>7
       DEF ClaimNothing, BeginStep, BeginRefused, SaveCheckpoint, WriteRefused, StepFails,
           LlmFails, Heartbeat, HeartbeatFails, Cancel, ReleaseRefused, Die, Tick, vars,
           columns
  <2>2. QED
    BY <2>1 DEF LifecycleSame
<1>8. QED
  BY <1>1, <1>2, <1>3, <1>4, <1>5, <1>6, <1>7 DEF Next, Dispatch

\* The queue keeps what JobLifecycle promises: one executor at a time, epochs that
\* are never used twice, settled jobs that stay settled, and a budget of grants.
THEOREM QueueImplementsLifecycle == Spec => ImplementsLifecycle
<1> DEFINE Spent2 == \A j \in Jobs : SpentRow(j)
<1>1. Init => Spent2
  BY JobQueueAssumption DEF Init, SpentRow
<1>2. TypeOK /\ Spent2 /\ [Next]_vars => Spent2'
  BY SpentRowStep
<1>3. /\ TypeOK /\ TypeOK' /\ Ownership /\ Widening /\ Spent2 /\ [Next]_vars
      => [Lifecycle!Next]_(Lifecycle!lifecycleVars)
  BY LifecycleStep DEF LifecycleSame, Lifecycle!lifecycleVars
<1> HIDE DEF Spent2
<1>4. QED
  BY <1>1, <1>2, <1>3, LifecycleInit, OwnershipInvariant, WideningInvariant, PTL
     DEF Spec, ImplementsLifecycle, Lifecycle!Spec
=============================================================================
