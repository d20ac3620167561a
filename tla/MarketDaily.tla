----------------------------- MODULE MarketDaily -----------------------------
(***************************************************************************)
(* The market-daily pipeline of one durable job: ten steps in order, four  *)
(* of them made of targets that are committed one by one, resumed from the *)
(* checkpoint by whichever attempt claims the job next                     *)
(* (app/batch/orchestrators/market_daily.py, app/batch/steps).             *)
(*                                                                         *)
(* The queue (JobQueue) decides when an attempt may claim; here any later  *)
(* attempt may, and a claim taken from a live attempt makes that one a     *)
(* zombie.  What rows and answers contain is left out: a target has an     *)
(* outcome.                                                                *)
(***************************************************************************)
EXTENDS Integers, Sequences, FiniteSets, SequencesExt, FiniteSetsExt

CONSTANTS
  LastAttempt,    \* claims 1 .. LastAttempt are followed
  TargetsOf,      \* TargetsOf[s]: the targets of step s, in index order
  Kind,           \* Kind[t]: what target t asks for
  LlmMaxRetries,  \* llm_max_retries
  StaleLoads      \* a stalled attempt may load the progress of its successor

Steps ==
  <<"CREATE_JOB", "PREPARE_MARKET_CONTEXTS", "DEDUPE_ARTICLES", "BUILD_CLUSTERS",
    "CLASSIFY_CLUSTER_THEMES", "GROUP_SIMILAR_ARTICLES", "COLLECT_MARKET_INDICES",
    "GENERATE_AI_SUMMARIES", "BUILD_PAGE_SNAPSHOT", "FINALIZE_JOB">>
TargetSteps ==
  {"BUILD_CLUSTERS", "CLASSIFY_CLUSTER_THEMES", "GROUP_SIMILAR_ARTICLES",
   "GENERATE_AI_SUMMARIES"}
SummaryKinds == {"headline", "summary", "detail"}
Kinds == {"enrich", "theme", "group"} \cup SummaryKinds

Attempts == 1 .. LastAttempt
Nobody == 0
Targets == UNION {Range(TargetsOf[s]) : s \in TargetSteps}

ASSUME MarketDailyAssumption ==
  /\ LastAttempt \in Nat
  /\ DOMAIN TargetsOf = TargetSteps
  /\ \A s \in TargetSteps :
       TargetsOf[s] \in Seq(Range(TargetsOf[s])) /\ IsInjective(TargetsOf[s])
  /\ \A r, s \in TargetSteps : r # s => Range(TargetsOf[r]) \cap Range(TargetsOf[s]) = {}
  /\ Kind \in [Targets -> Kinds]
  /\ LlmMaxRetries \in Nat
  /\ StaleLoads \in BOOLEAN

EnrichOutcomes == {"ok", "fallback"}
\* "issue": neither the provider nor the keywords found a theme.
ThemeOutcomes == {"ok", "fallback", "issue"}
GroupOutcomes == {"ok", "fallback"}
\* "issue": the headline is there, its key points were refused.
HeadlineOutcomes == {"ok", "fallback", "issue"}
SummaryOutcomes == {"ok", "fallback"}
DetailOutcomes == {"ok", "fallback"}
Outcomes(kind) ==
  CASE kind = "enrich" -> EnrichOutcomes
    [] kind = "theme" -> ThemeOutcomes
    [] kind = "group" -> GroupOutcomes
    [] kind = "headline" -> HeadlineOutcomes
    [] kind = "summary" -> SummaryOutcomes
    [] kind = "detail" -> DetailOutcomes
NoCall == "none"
CallStates == {NoCall, "waiting", "failed", "ok", "fallback", "issue"}
Answers == {"ok", "fallback", "issue"}

VARIABLES
  holder,      \* the attempt that holds the lease, Nobody
  status,      \* batch_job.status
  checkpoint,  \* batch_job.checkpoint_json
  stored,      \* the committed outcome of each target, NoCall
  pages,       \* page versions the job has built
  pc,          \* where each attempt is
  local,       \* its local variables
  calls        \* the calls of its current step

row == <<holder, status, checkpoint, stored, pages>>
vars == <<row, pc, local, calls>>

Context == [fallbacks : Nat, partial : BOOLEAN, success : Nat, aiFallback : Nat, page : BOOLEAN]
Checkpoint == [steps : SUBSET Range(Steps), targets : SUBSET Targets, context : Context,
               retries : Nat]
Local == [step : Range(Steps) \cup {"none"}, context : Context, done : SUBSET Range(Steps),
          copy : Checkpoint, lease : Attempts \cup {Nobody}, queue : SUBSET Targets,
          exhausted : BOOLEAN]

NewContext == [fallbacks |-> 0, partial |-> FALSE, success |-> 0, aiFallback |-> 0, page |-> FALSE]
NewCheckpoint == [steps |-> {}, targets |-> {}, context |-> NewContext, retries |-> 0]
NewLocal == [step |-> "none", context |-> NewContext, done |-> {}, copy |-> NewCheckpoint,
             lease |-> Nobody, queue |-> {}, exhausted |-> FALSE]
NoCalls == [t \in Targets |-> NoCall]

TypeOK ==
  /\ holder \in Attempts \cup {Nobody}
  /\ status \in {"PENDING", "RUNNING", "SUCCESS", "PARTIAL", "FAILED"}
  /\ checkpoint \in Checkpoint
  /\ stored \in [Targets -> {NoCall} \cup Answers]
  /\ pages \in Nat
  /\ pc \in [Attempts -> {"idle", "claimed", "ready", "begun", "calling", "over"}]
  /\ local \in [Attempts -> Local]
  /\ calls \in [Attempts -> [Targets -> CallStates]]
  /\ (status = "RUNNING") = (holder # Nobody)

Init ==
  /\ holder = Nobody
  /\ status = "PENDING"
  /\ checkpoint = NewCheckpoint
  /\ stored = NoCalls
  /\ pages = 0
  /\ pc = [a \in Attempts |-> "idle"]
  /\ local = [a \in Attempts |-> NewLocal]
  /\ calls = [a \in Attempts |-> NoCalls]
-----------------------------------------------------------------------------
Goto(a, place) == pc' = [pc EXCEPT ![a] = place]

\* The attempt is gone, with its local variables and its calls.
Leave(a) ==
  /\ Goto(a, "over")
  /\ local' = [local EXCEPT ![a] = NewLocal]
  /\ calls' = [calls EXCEPT ![a] = NoCalls]

StepOf(t) == CHOOSE s \in TargetSteps : t \in Range(TargetsOf[s])
CurrentTargets(a) ==
  IF local[a].step \in TargetSteps THEN TargetsOf[local[a].step] ELSE <<>>
First(a, targets) ==
  LET order == CurrentTargets(a) IN order[Min({i \in DOMAIN order : order[i] \in targets})]
Waiting(a) == {t \in Targets : calls[a][t] = "waiting"}
Failed(a) == {t \in Targets : calls[a][t] = "failed"}
Answered(a) == {t \in Targets : calls[a][t] \in Answers}

(***************************************************************************)
(* The counters of the execution context.                                  *)
(***************************************************************************)
One(condition) == IF condition THEN 1 ELSE 0

NoEffect == [fallbacks |-> 0, partial |-> FALSE, success |-> 0, aiFallback |-> 0]

EnrichEffect(outcome) ==
  [NoEffect EXCEPT !.fallbacks = One(outcome = "fallback"), !.partial = outcome = "fallback"]

\* Keywords instead of the provider are a fallback even when they find no theme.
ThemeEffect(outcome) ==
  [NoEffect EXCEPT !.fallbacks = One(outcome # "ok"), !.partial = outcome = "issue"]

GroupEffect(outcome) == [NoEffect EXCEPT !.partial = outcome = "fallback"]

\* A detail analysis never makes the daily page PARTIAL.
SummaryEffect(kind, outcome) ==
  LET degrades == outcome = "fallback" /\ kind # "detail"
  IN  [fallbacks |-> One(degrades), partial |-> degrades \/ outcome = "issue",
       success |-> One(outcome # "fallback"), aiFallback |-> One(outcome = "fallback")]

Effect(t, outcome) ==
  CASE Kind[t] = "enrich" -> EnrichEffect(outcome)
    [] Kind[t] = "theme" -> ThemeEffect(outcome)
    [] Kind[t] = "group" -> GroupEffect(outcome)
    [] Kind[t] \in SummaryKinds -> SummaryEffect(Kind[t], outcome)

Counted(context, t, outcome) ==
  LET effect == Effect(t, outcome)
  IN  [context EXCEPT !.fallbacks = @ + effect.fallbacks,
                      !.partial = @ \/ effect.partial,
                      !.success = @ + effect.success,
                      !.aiFallback = @ + effect.aiFallback]

BatchStatus(context) ==
  CASE ~context.page -> "FAILED"
    [] context.page /\ (context.partial \/ context.fallbacks > 0) -> "PARTIAL"
    [] OTHER -> "SUCCESS"
-----------------------------------------------------------------------------
(***************************************************************************)
(* An attempt between the steps.                                           *)
(***************************************************************************)
\* The lease of the holder, if any, ran out.
Claim(a) ==
  /\ pc[a] = "idle"
  /\ status \in {"PENDING", "RUNNING"}
  /\ \A b \in Attempts : b < a => pc[b] # "idle"
  /\ holder' = a
  /\ status' = "RUNNING"
  /\ Goto(a, "claimed")
  /\ UNCHANGED <<checkpoint, stored, pages, local, calls>>

\* MarketDailyBatchOrchestrator.run reads the job.
Restore(a) ==
  /\ pc[a] = "claimed"
  /\ local' = [local EXCEPT ![a].context = checkpoint.context,
                            ![a].done = checkpoint.steps]
  /\ Goto(a, "ready")
  /\ UNCHANGED <<row, calls>>

NextStep(a) == SelectInSeq(Steps, LAMBDA s : s \notin local[a].done)

LosesLease(a) == holder # a /\ Leave(a) /\ UNCHANGED row

BeginStep(a) ==
  /\ pc[a] = "ready"
  /\ \/ LosesLease(a)
     \/ /\ holder = a
        /\ local' = [local EXCEPT ![a].step = Steps[NextStep(a)]]
        /\ Goto(a, "begun")
        /\ UNCHANGED <<row, calls>>

(***************************************************************************)
(* The targets of a step.                                                  *)
(***************************************************************************)
\* Grouping is not resumed from the progress list: a stored grouping of the same
\* articles and algorithm is kept.
Pending_All(a) == Range(CurrentTargets(a))
Pending(a) ==
  {t \in Range(CurrentTargets(a)) :
     IF Kind[t] = "group" THEN stored[t] = NoCall ELSE t \notin checkpoint.targets}

\* DurableTargetProgress.load: the checkpoint and the lease token the row has now.
Load(a) ==
  /\ pc[a] = "begun"
  /\ local[a].step \in TargetSteps
  /\ holder = a \/ StaleLoads
  /\ local' = [local EXCEPT ![a].copy = checkpoint, ![a].lease = holder]
  /\ calls' = [calls EXCEPT ![a] = [t \in Targets |->
                 IF t \in Pending(a) THEN "waiting" ELSE NoCall]]
  /\ Goto(a, "calling")
  /\ UNCHANGED row

\* Clusters are grouped one after the other, the calls of the other steps overlap.
Answerable(a, t) ==
  /\ pc[a] = "calling"
  /\ t \in Waiting(a)
  /\ Kind[t] = "group" => local[a].queue = {} /\ t = First(a, Waiting(a))

Answer(a, t) ==
  /\ Answerable(a, t)
  /\ \E outcome \in Outcomes(Kind[t]) : calls' = [calls EXCEPT ![a][t] = outcome]
  /\ UNCHANGED <<row, pc, local>>

\* LlmRetryableError; every other error of the provider, and this one in the
\* exhausted mode, is an answer with a fallback.
Fail(a, t) ==
  /\ Answerable(a, t)
  /\ Kind[t] # "group"
  /\ ~local[a].exhausted
  /\ calls' = [calls EXCEPT ![a][t] = "failed"]
  /\ UNCHANGED <<row, pc, local>>

Unsaved(a) == {t \in Answered(a) : t \notin local[a].copy.targets}

Collect_DropsAnswers(a) ==
  local' = IF Failed(a) = {}
           THEN [local EXCEPT ![a].queue = Unsaved(a)]
           ELSE [local EXCEPT ![a].copy.targets = @ \cup Unsaved(a)]

\* asyncio.wait wakes up: the answers that are in will be saved, and a failure
\* cancels the calls that still wait.
Collect(a) ==
  local' = [local EXCEPT ![a].queue = Unsaved(a)]

WakeUp(a) ==
  /\ pc[a] = "calling"
  /\ local[a].queue = {} /\ Unsaved(a) # {}
  /\ Collect(a)
  /\ calls' = [calls EXCEPT ![a] = [t \in Targets |->
                 IF Failed(a) # {} /\ @[t] = "waiting" THEN NoCall ELSE @[t]]]
  /\ UNCHANGED <<row, pc>>

Saved_WithoutContext(a, t) ==
  [local[a].copy EXCEPT !.targets = @ \cup {t}]

\* The checkpoint of commit_target: the whole copy of the step.
Saved(a, t) ==
  [local[a].copy EXCEPT !.targets = @ \cup {t},
                        !.context = Counted(local[a].context, t, calls[a][t])]

\* One transaction: the rows of the target, its events and the checkpoint; the
\* checkpoint is left out when the step found no token in the row.
PersistTarget(a) ==
  /\ pc[a] = "calling"
  /\ local[a].queue # {}
  /\ LET t == First(a, local[a].queue) IN
     \/ /\ local[a].lease \in {holder, Nobody}
        /\ stored' = [stored EXCEPT ![t] = calls[a][t]]
        /\ checkpoint' = IF local[a].lease = Nobody THEN checkpoint ELSE Saved(a, t)
        /\ local' = [local EXCEPT
                       ![a].context = Counted(@, t, calls[a][t]),
                       ![a].copy = Saved(a, t),
                       ![a].queue = @ \ {t}]
        /\ UNCHANGED <<holder, status, pages, pc, calls>>
     \/ /\ local[a].lease \notin {holder, Nobody}
        /\ Leave(a)
        /\ UNCHANGED row

StepIsDone(a) ==
  \/ pc[a] = "begun" /\ local[a].step \notin TargetSteps
  \/ pc[a] = "calling" /\ local[a].queue = {} /\ Unsaved(a) = {}
     /\ Waiting(a) = {} /\ Failed(a) = {}

\* What a step may leave in the context.  Without clusters or without the contexts
\* of both markets no page is built, the job goes on all the same; the steps without
\* targets are taken not to degrade the page.
ContextsAfter(a) ==
  IF local[a].step = "BUILD_PAGE_SNAPSHOT"
  THEN {[local[a].context EXCEPT !.page = built] : built \in BOOLEAN}
  ELSE {local[a].context}

CheckpointStep_Late(a, context) ==
  \/ /\ UNCHANGED checkpoint
     /\ Leave(a)
  \/ /\ checkpoint' = [checkpoint EXCEPT !.steps = local[a].done \cup {local[a].step},
                                         !.context = context]
     /\ local' = [local EXCEPT ![a] = [NewLocal EXCEPT !.context = context,
                    !.done = local[a].done \cup {local[a].step}, !.exhausted = local[a].exhausted]]
     /\ calls' = [calls EXCEPT ![a] = NoCalls]
     /\ Goto(a, "ready")

\* The checkpoint is read again, so that the keys the step wrote itself survive.
CheckpointStep(a, context) ==
  /\ checkpoint' = [checkpoint EXCEPT !.steps = local[a].done \cup {local[a].step},
                                      !.context = context]
  /\ local' = [local EXCEPT ![a] = [NewLocal EXCEPT !.context = context,
                 !.done = local[a].done \cup {local[a].step}, !.exhausted = local[a].exhausted]]
  /\ calls' = [calls EXCEPT ![a] = NoCalls]
  /\ Goto(a, "ready")

\* One transaction: the rows of the step and the checkpoint.
EndStep(a) ==
  /\ StepIsDone(a)
  /\ local[a].step # "FINALIZE_JOB"
  /\ \/ LosesLease(a)
     \/ /\ holder = a
        /\ \E context \in ContextsAfter(a) :
             /\ CheckpointStep(a, context)
             /\ pages' = pages + One(local[a].step = "BUILD_PAGE_SNAPSHOT" /\ context.page)
        /\ UNCHANGED <<holder, status, stored>>

\* mark_job_completed.
Finalize(a) ==
  /\ StepIsDone(a)
  /\ local[a].step = "FINALIZE_JOB"
  /\ \/ LosesLease(a)
     \/ /\ holder = a
        /\ status' = BatchStatus(local[a].context)
        /\ holder' = Nobody
        /\ Leave(a)
        /\ UNCHANGED <<checkpoint, stored, pages>>
-----------------------------------------------------------------------------
(***************************************************************************)
(* Failures.                                                               *)
(***************************************************************************)
\* release_failed_claim, a no-op without the lease.
Release(a, retries) ==
  IF holder = a
  THEN /\ holder' = Nobody
       /\ status' = IF a = LastAttempt THEN "FAILED" ELSE "PENDING"
       /\ checkpoint' = [checkpoint EXCEPT !.retries = retries]
       /\ UNCHANGED <<stored, pages>>
  ELSE UNCHANGED row

Rerun_Fresh(a) ==
  /\ Goto(a, "claimed")
  /\ local' = [local EXCEPT ![a] = NewLocal]
  /\ calls' = [calls EXCEPT ![a] = NoCalls]

\* The worker dispatches the job again in the exhausted mode.
Rerun(a) ==
  /\ Goto(a, "claimed")
  /\ local' = [local EXCEPT ![a] = [NewLocal EXCEPT !.exhausted = TRUE]]
  /\ calls' = [calls EXCEPT ![a] = NoCalls]

\* The answers are saved: run_target_calls raises.  The worker releases the job, or
\* dispatches it again in the exhausted mode when the retries are spent; it knows
\* the count from its claim, which nobody else moves while the lease holds.
RaiseRetryable(a) ==
  /\ pc[a] = "calling"
  /\ local[a].queue = {} /\ Failed(a) # {} /\ Unsaved(a) = {}
  /\ \/ /\ checkpoint.retries < LlmMaxRetries
        /\ Release(a, checkpoint.retries + 1)
        /\ Leave(a)
     \/ /\ checkpoint.retries >= LlmMaxRetries
        /\ Rerun(a)
        /\ UNCHANGED row

Working(a) == pc[a] \notin {"idle", "over"}

\* Any other exception, from the database, say.
RaiseOther(a) ==
  /\ Working(a)
  /\ Release(a, checkpoint.retries)
  /\ Leave(a)

\* The process dies, or the heartbeat cancels an attempt that lost its lease.
Stop(a) ==
  /\ Working(a)
  /\ Leave(a)
  /\ UNCHANGED row

Run(a) ==
  \/ Claim(a) \/ Restore(a) \/ BeginStep(a) \/ Load(a)
  \/ WakeUp(a) \/ PersistTarget(a) \/ EndStep(a) \/ Finalize(a) \/ RaiseRetryable(a)

Next ==
  \E a \in Attempts :
    \/ Run(a)
    \/ \E t \in Targets : Answer(a, t) \/ Fail(a, t)
    \/ RaiseOther(a)
    \/ Stop(a)

\* The event loop runs as long as it has anything to do: calls are answered in
\* bounded time and the heartbeat finds a lost lease.  Nobody has to crash.
Fairness ==
  WF_vars(\E a \in Attempts :
            \/ Run(a)
            \/ \E t \in Targets : Answer(a, t) \/ Fail(a, t)
            \/ holder # a /\ Stop(a))

Spec == Init /\ [][Next]_vars /\ Fairness
-----------------------------------------------------------------------------
\* The counters of the checkpoint are those of the rows: however often the job was
\* interrupted between a target and the next, no target is counted twice and none
\* is forgotten, so a fallback of a first attempt still makes the job PARTIAL.
ContextIsTrue ==
  LET committed == checkpoint.targets
      Tally(F(_)) == Cardinality({t \in committed : F(Effect(t, stored[t])) = 1})
      degraded == \E t \in committed : Effect(t, stored[t]).partial
  IN  /\ \A t \in committed : stored[t] # NoCall
      /\ checkpoint.context.fallbacks = Tally(LAMBDA e : e.fallbacks)
      /\ checkpoint.context.success = Tally(LAMBDA e : e.success)
      /\ checkpoint.context.aiFallback = Tally(LAMBDA e : e.aiFallback)
      /\ checkpoint.context.partial = degraded
      /\ status = "SUCCESS" => ~degraded /\ committed = Targets

\* The holder never pays for an answer the job already has: targets that were
\* committed before a crash, a reschedule or an exhausted rerun are not called.
NothingPaidTwice ==
  \A a \in Attempts : holder = a => Waiting(a) \cap checkpoint.targets = {}

\* A target that fails does not take its siblings with it: when the job is
\* rescheduled for a retryable error, or rerun, every answer that had come in by
\* then is stored ("draining every sibling before failure").
AnswersAreKept ==
  [][\A a \in Attempts :
       /\ holder = a /\ Failed(a) # {}
       /\ checkpoint'.retries > checkpoint.retries \/ pc'[a] = "claimed"
       => Answered(a) \subseteq checkpoint.targets]_vars

\* A job builds at most one page version, wherever its attempts stop.
OnePagePerJob == pages <= 1

\* Whatever its calls answer, an attempt ends: the rerun of an attempt whose
\* retries are spent does not run into the same retryable error again.
AttemptsEnd == \A a \in Attempts : pc[a] = "claimed" ~> pc[a] = "over"

\* docs/postgresql_ddl_design.md:229: the lease token fences every update of the
\* checkpoint, so an update is always a step of the attempt that holds the lease.
DocCheckpointIsFenced ==
  [][checkpoint' # checkpoint =>
       \E a \in Attempts : holder = a /\ <<pc[a], local[a]>>' # <<pc[a], local[a]>>]_vars
=============================================================================
