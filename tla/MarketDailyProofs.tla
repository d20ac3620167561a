------------------------- MODULE MarketDailyProofs -------------------------
(***************************************************************************)
(* Theorems about MarketDaily, for any number of attempts, targets and     *)
(* retries.                                                                *)
(***************************************************************************)
EXTENDS MarketDaily, FiniteSetTheorems, TLAPS

(***************************************************************************)
(* Where an attempt may be, whatever the row holds.                        *)
(***************************************************************************)
Places == {"idle", "claimed", "ready", "begun", "calling", "over"}
TargetsIn(step) == IF step \in TargetSteps THEN Range(TargetsOf[step]) ELSE {}

\* Calls are made in a step with targets and for them, what waits to be saved was
\* answered, and the last step begins when the steps with targets are done.
PlacedAt(place, loc, cs) ==
  /\ place # "calling" => cs = NoCalls /\ loc.queue = {}
  /\ place = "calling" => loc.step \in TargetSteps
  /\ place \in {"begun", "calling"} =>
       /\ loc.step \in Range(Steps) \ loc.done
       /\ loc.step = "FINALIZE_JOB" => TargetSteps \subseteq loc.done
  /\ \A t \in Targets : cs[t] # NoCall => t \in TargetsIn(loc.step)
  /\ loc.queue \subseteq {t \in Targets : cs[t] \in Answers /\ t \notin loc.copy.targets}
  /\ "FINALIZE_JOB" \notin loc.done /\ "FINALIZE_JOB" \notin loc.copy.steps
Placed(a) == PlacedAt(pc[a], local[a], calls[a])

RowType ==
  /\ holder \in Attempts \cup {Nobody}
  /\ status \in {"PENDING", "RUNNING", "SUCCESS", "PARTIAL", "FAILED"}
  /\ checkpoint \in Checkpoint
  /\ stored \in [Targets -> {NoCall} \cup Answers]
  /\ pages \in Nat
  /\ (status = "RUNNING") = (holder # Nobody)
  /\ "FINALIZE_JOB" \notin checkpoint.steps
AttemptType ==
  /\ pc \in [Attempts -> Places]
  /\ local \in [Attempts -> Local]
  /\ calls \in [Attempts -> [Targets -> CallStates]]
  /\ \A a \in Attempts : Placed(a)
PlaceInv == RowType /\ AttemptType
-----------------------------------------------------------------------------
(***************************************************************************)
(* The steps and their targets.                                            *)
(***************************************************************************)
\* A non-empty set of natural numbers has a least element.
LEMMA LeastElement ==
  ASSUME NEW S \in SUBSET Nat, S # {}
  PROVE  Min(S) \in S /\ \A x \in S : Min(S) <= x
<1> DEFINE below == {0 .. n : n \in S}
<1>1. below \subseteq FiniteSubsetsOf(Nat) /\ below # {}
  <2>1. \A n \in S : IsFiniteSet(0 .. n) /\ 0 .. n \subseteq Nat
    BY FS_Interval
  <2>2. QED
    BY <2>1 DEF FiniteSubsetsOf
<1>2. PICK least \in below : \A set \in below : ~ (<<set, least>> \in StrictSubsetOrdering(Nat))
  BY <1>1, FS_StrictSubsetOrderingWellFounded, WFMin
<1>3. PICK m \in S : least = 0 .. m
  OBVIOUS
<1>4. ASSUME NEW x \in S PROVE m <= x
  <2>1. SUFFICES ASSUME x < m PROVE FALSE
    OBVIOUS
  <2>2. 0 .. x \subseteq 0 .. m /\ m \in 0 .. m /\ m \notin 0 .. x
    BY <2>1
  <2>3. 0 .. x \in SUBSET Nat /\ 0 .. m \in SUBSET Nat
    OBVIOUS
  <2>4. <<0 .. x, 0 .. m>> \in StrictSubsetOrdering(Nat)
    BY <2>2, <2>3 DEF StrictSubsetOrdering
  <2>5. QED
    BY <1>2, <1>3, <2>4
<1>5. QED
  BY <1>4 DEF Min

LEMMA StepNames ==
  /\ DOMAIN Steps = 1 .. 10 /\ Len(Steps) = 10 /\ Steps[10] = "FINALIZE_JOB"
  /\ TargetSteps \subseteq {Steps[i] : i \in 1 .. 9}
  /\ Range(Steps) = {Steps[i] : i \in 1 .. 10}
  /\ TargetSteps \subseteq Range(Steps) /\ "FINALIZE_JOB" \notin TargetSteps
  /\ "none" \notin Range(Steps)
<1>1. DOMAIN Steps = 1 .. 10 /\ Len(Steps) = 10 /\ Steps[10] = "FINALIZE_JOB"
  BY DEF Steps
<1>2. Steps[4] = "BUILD_CLUSTERS" /\ Steps[5] = "CLASSIFY_CLUSTER_THEMES"
      /\ Steps[6] = "GROUP_SIMILAR_ARTICLES" /\ Steps[8] = "GENERATE_AI_SUMMARIES"
  BY DEF Steps
<1>3. TargetSteps \subseteq {Steps[i] : i \in 1 .. 9}
  <2>1. 4 \in 1 .. 9 /\ 5 \in 1 .. 9 /\ 6 \in 1 .. 9 /\ 8 \in 1 .. 9
    OBVIOUS
  <2>2. QED
    BY <1>2, <2>1 DEF TargetSteps
<1>4. Range(Steps) = {Steps[i] : i \in 1 .. 10}
  BY <1>1 DEF Range
<1>5. "none" \notin Range(Steps)
  BY <1>4 DEF Steps
<1>6. TargetSteps \subseteq Range(Steps) /\ "FINALIZE_JOB" \notin TargetSteps
  BY <1>3, <1>4 DEF TargetSteps
<1>7. QED
  BY <1>1, <1>3, <1>4, <1>5, <1>6

\* The next step is one that is not done, and the last one only when no other is left.
LEMMA NextStepIsOpen ==
  ASSUME NEW a \in Attempts, "FINALIZE_JOB" \notin local[a].done
  PROVE  /\ Steps[NextStep(a)] \in Range(Steps) \ local[a].done
         /\ Steps[NextStep(a)] = "FINALIZE_JOB" => TargetSteps \subseteq local[a].done
<1> DEFINE I == {i \in 1 .. 10 : Steps[i] \notin local[a].done}
<1>1. 10 \in I
  BY StepNames
<1>2. NextStep(a) = Min(I)
  BY <1>1, StepNames DEF NextStep, SelectInSeq
<1>3. Min(I) \in I /\ \A i \in I : Min(I) <= i
  BY <1>1, LeastElement
<1>4. Steps[NextStep(a)] \in Range(Steps) \ local[a].done
  BY <1>2, <1>3, StepNames
<1>5. ASSUME Steps[NextStep(a)] = "FINALIZE_JOB" PROVE TargetSteps \subseteq local[a].done
  <2>1. NextStep(a) = 10
    BY <1>2, <1>3, <1>5 DEF Steps
  <2>2. ASSUME NEW i \in 1 .. 9, Steps[i] \notin local[a].done PROVE FALSE
    <3>1. i \in I
      BY <2>2
    <3>2. Min(I) <= i /\ Min(I) = 10
      BY <1>2, <1>3, <2>1, <3>1
    <3>3. QED
      BY <3>2
  <2>3. QED
    BY <2>2, StepNames
<1>6. QED
  BY <1>4, <1>5

\* The first of some targets of the current step is one of them.
LEMMA FirstIsOne ==
  ASSUME NEW a \in Attempts, local[a].step \in TargetSteps,
         NEW targets, targets # {}, targets \subseteq TargetsIn(local[a].step)
  PROVE  First(a, targets) \in targets
<1> DEFINE order == TargetsOf[local[a].step]
           I == {i \in DOMAIN order : order[i] \in targets}
<1>1. CurrentTargets(a) = order
  BY DEF CurrentTargets
<1>2. DOMAIN order \subseteq Nat
  <2>1. order \in Seq(Range(order))
    BY MarketDailyAssumption
  <2>2. QED
    BY <2>1
<1>3. I # {}
  BY DEF TargetsIn, Range
<1>4. Min(I) \in I
  BY <1>2, <1>3, LeastElement
<1>5. QED
  BY <1>1, <1>4 DEF First

LEMMA TargetsOfSteps ==
  /\ \A s \in TargetSteps : TargetsIn(s) = Range(TargetsOf[s]) /\ TargetsIn(s) \subseteq Targets
  /\ \A a \in Attempts : Range(CurrentTargets(a)) = TargetsIn(local[a].step)
<1>1. Range(<<>>) = {}
  BY DEF Range
<1>2. QED
  BY <1>1 DEF TargetsIn, Targets, CurrentTargets
-----------------------------------------------------------------------------
(***************************************************************************)
(* Every step leaves the attempts where they may be.                       *)
(***************************************************************************)
LEMMA NewAttempt ==
  /\ NewContext \in Context /\ NewCheckpoint \in Checkpoint /\ NewLocal \in Local
  /\ NoCalls \in [Targets -> CallStates]
  /\ \A t \in Targets : NoCalls[t] = NoCall
  /\ NewLocal.queue = {} /\ NewLocal.done = {} /\ NewLocal.copy.steps = {}
BY DEF NewContext, NewCheckpoint, NewLocal, NoCalls, Context, Checkpoint, Local, CallStates,
   Nobody, NoCall

\* An attempt between two runs, or gone.
LEMMA FreshIsPlaced ==
  ASSUME NEW place \in Places \ {"begun", "calling"}, NEW loc, loc.queue = {},
         "FINALIZE_JOB" \notin loc.done, "FINALIZE_JOB" \notin loc.copy.steps
  PROVE  PlacedAt(place, loc, NoCalls)
BY NewAttempt DEF PlacedAt

LEMMA AttemptMoves ==
  ASSUME AttemptType, NEW a \in Attempts,
         NEW place \in Places, NEW loc \in Local, NEW cs \in [Targets -> CallStates],
         PlacedAt(place, loc, cs),
         pc' = [pc EXCEPT ![a] = place], local' = [local EXCEPT ![a] = loc],
         calls' = [calls EXCEPT ![a] = cs]
  PROVE  AttemptType'
<1>1. \A b \in Attempts : /\ pc'[b] = IF b = a THEN place ELSE pc[b]
                          /\ local'[b] = IF b = a THEN loc ELSE local[b]
                          /\ calls'[b] = IF b = a THEN cs ELSE calls[b]
  BY DEF AttemptType
<1>2. \A b \in Attempts : Placed(b)'
  BY <1>1 DEF AttemptType, Placed
<1>3. /\ pc' \in [Attempts -> Places] /\ local' \in [Attempts -> Local]
      /\ calls' \in [Attempts -> [Targets -> CallStates]]
  BY DEF AttemptType
<1>4. QED
  BY <1>2, <1>3 DEF AttemptType

\* What an attempt consists of.
LEMMA AttemptFields ==
  ASSUME AttemptType, NEW a \in Attempts
  PROVE  /\ pc[a] \in Places /\ local[a] \in Local /\ calls[a] \in [Targets -> CallStates]
         /\ pc = [pc EXCEPT ![a] = pc[a]] /\ local = [local EXCEPT ![a] = local[a]]
         /\ calls = [calls EXCEPT ![a] = calls[a]]
         /\ PlacedAt(pc[a], local[a], calls[a])
BY DEF AttemptType, Placed

LEMMA LeaveMoves ==
  ASSUME AttemptType, NEW a \in Attempts, Leave(a)
  PROVE  AttemptType'
<1>1. PlacedAt("over", NewLocal, NoCalls)
  BY NewAttempt, FreshIsPlaced DEF Places
<1>2. QED
  BY <1>1, NewAttempt, AttemptMoves DEF Leave, Goto, Places

LEMMA RowStays ==
  ASSUME RowType, UNCHANGED row
  PROVE  RowType'
BY DEF RowType, row

LEMMA ClaimPlace ==
  ASSUME PlaceInv, NEW a \in Attempts, Claim(a)
  PROVE  PlaceInv'
<1>1. RowType'
  BY DEF PlaceInv, RowType, Claim, Attempts, Nobody
<1>2. PlacedAt("claimed", local[a], calls[a])
  BY AttemptFields DEF PlaceInv, Claim, PlacedAt
<1>3. local' = [local EXCEPT ![a] = local[a]] /\ calls' = [calls EXCEPT ![a] = calls[a]]
      /\ pc' = [pc EXCEPT ![a] = "claimed"]
  BY AttemptFields DEF PlaceInv, Claim, Goto
<1>4. QED
  BY <1>1, <1>2, <1>3, AttemptFields, AttemptMoves DEF PlaceInv, Places

LEMMA RestorePlace ==
  ASSUME PlaceInv, NEW a \in Attempts, Restore(a)
  PROVE  PlaceInv'
<1>1. RowType'
  BY RowStays DEF PlaceInv, Restore
<1>2. PICK loc : loc = [local[a] EXCEPT !.context = checkpoint.context, !.done = checkpoint.steps]
  OBVIOUS
<1>3. local[a] \in Local /\ checkpoint.context \in Context
      /\ checkpoint.steps \in SUBSET Range(Steps)
  BY AttemptFields DEF PlaceInv, RowType, Checkpoint
<1>4. loc \in Local /\ loc.queue = local[a].queue /\ loc.step = local[a].step
      /\ loc.done = checkpoint.steps /\ loc.copy = local[a].copy
  BY <1>2, <1>3 DEF Local
<1>5. PlacedAt("ready", loc, calls[a])
  <2>1. PlacedAt("claimed", local[a], calls[a])
    BY AttemptFields DEF PlaceInv, Restore
  <2>2. QED
    BY <1>4, <2>1 DEF PlacedAt, PlaceInv, RowType
<1>6. local' = [local EXCEPT ![a] = loc] /\ calls' = [calls EXCEPT ![a] = calls[a]]
      /\ pc' = [pc EXCEPT ![a] = "ready"]
  BY <1>2, AttemptFields DEF PlaceInv, Restore, Goto
<1>7. AttemptType'
  BY <1>4, <1>5, <1>6, AttemptFields, AttemptMoves DEF PlaceInv, Places
<1>8. QED
  BY <1>1, <1>7 DEF PlaceInv

LEMMA LosesLeasePlace ==
  ASSUME PlaceInv, NEW a \in Attempts, LosesLease(a)
  PROVE  PlaceInv'
BY LeaveMoves, RowStays DEF PlaceInv, LosesLease

LEMMA BeginStepPlace ==
  ASSUME PlaceInv, NEW a \in Attempts, BeginStep(a)
  PROVE  PlaceInv'
<1>1. CASE LosesLease(a)
  BY <1>1, LosesLeasePlace
<1>2. CASE ~LosesLease(a)
  <2>1. RowType'
    BY <1>2, RowStays DEF PlaceInv, BeginStep
  <2>2. PICK loc : loc = [local[a] EXCEPT !.step = Steps[NextStep(a)]]
    OBVIOUS
  <2>3. PlacedAt("ready", local[a], calls[a]) /\ local[a] \in Local
    BY AttemptFields DEF PlaceInv, BeginStep
  <2>4. /\ Steps[NextStep(a)] \in Range(Steps) \ local[a].done
        /\ Steps[NextStep(a)] = "FINALIZE_JOB" => TargetSteps \subseteq local[a].done
    BY <2>3, NextStepIsOpen DEF PlacedAt
  <2>5. loc \in Local /\ loc.queue = local[a].queue /\ loc.step = Steps[NextStep(a)]
        /\ loc.done = local[a].done /\ loc.copy = local[a].copy
    BY <2>2, <2>3, <2>4 DEF Local
  <2>6. PlacedAt("begun", loc, calls[a])
    BY <2>3, <2>4, <2>5, NewAttempt DEF PlacedAt
  <2>7. local' = [local EXCEPT ![a] = loc] /\ calls' = [calls EXCEPT ![a] = calls[a]]
        /\ pc' = [pc EXCEPT ![a] = "begun"]
    BY <1>2, <2>2, AttemptFields DEF PlaceInv, BeginStep, Goto
  <2>8. AttemptType'
    BY <2>5, <2>6, <2>7, AttemptFields, AttemptMoves DEF PlaceInv, Places
  <2>9. QED
    BY <2>1, <2>8 DEF PlaceInv
<1>3. QED
  BY <1>1, <1>2

LEMMA LoadPlace ==
  ASSUME PlaceInv, NEW a \in Attempts, Load(a)
  PROVE  PlaceInv'
<1>1. RowType'
  BY RowStays DEF PlaceInv, Load
<1>2. PICK loc : loc = [local[a] EXCEPT !.copy = checkpoint, !.lease = holder]
  OBVIOUS
<1>3. PICK cs : cs = [t \in Targets |-> IF t \in Pending(a) THEN "waiting" ELSE NoCall]
  OBVIOUS
<1>4. PlacedAt("begun", local[a], calls[a]) /\ local[a] \in Local
  BY AttemptFields DEF PlaceInv, Load
<1>5. loc \in Local /\ loc.queue = local[a].queue /\ loc.step = local[a].step
      /\ loc.done = local[a].done /\ loc.copy = checkpoint
  BY <1>2, <1>4 DEF Local, PlaceInv, RowType
<1>6. cs \in [Targets -> CallStates]
  BY <1>3 DEF CallStates
<1>7. \A t \in Targets : cs[t] # NoCall => t \in TargetsIn(local[a].step)
  BY <1>3, TargetsOfSteps DEF Pending
<1>8. PlacedAt("calling", loc, cs)
  BY <1>4, <1>5, <1>7 DEF PlacedAt, Load, PlaceInv, RowType
<1>9. local' = [local EXCEPT ![a] = loc] /\ calls' = [calls EXCEPT ![a] = cs]
      /\ pc' = [pc EXCEPT ![a] = "calling"]
  BY <1>2, <1>3 DEF Load, Goto
<1>10. AttemptType'
  BY <1>5, <1>6, <1>8, <1>9, AttemptMoves DEF PlaceInv, Places
<1>11. QED
  BY <1>1, <1>10 DEF PlaceInv

\* An effect adds at most one to a counter.
LEMMA Effects ==
  ASSUME NEW t \in Targets, NEW outcome \in Answers
  PROVE  /\ Effect(t, outcome).fallbacks \in {0, 1} /\ Effect(t, outcome).success \in {0, 1}
         /\ Effect(t, outcome).aiFallback \in {0, 1} /\ Effect(t, outcome).partial \in BOOLEAN
<1>1. Kind[t] \in Kinds
  BY MarketDailyAssumption
<1>2. CASE Kind[t] = "enrich"
  <2>1. Effect(t, outcome) = EnrichEffect(outcome)
    BY <1>2 DEF Effect, SummaryKinds
  <2>2. QED
    BY <2>1 DEF EnrichEffect, NoEffect, One
<1>3. CASE Kind[t] = "theme"
  <2>1. Effect(t, outcome) = ThemeEffect(outcome)
    BY <1>3 DEF Effect, SummaryKinds
  <2>2. QED
    BY <2>1 DEF ThemeEffect, NoEffect, One
<1>4. CASE Kind[t] = "group"
  <2>1. Effect(t, outcome) = GroupEffect(outcome)
    BY <1>4 DEF Effect, SummaryKinds
  <2>2. QED
    BY <2>1 DEF GroupEffect, NoEffect
<1>5. CASE Kind[t] \in SummaryKinds
  <2>1. Effect(t, outcome) = SummaryEffect(Kind[t], outcome)
    BY <1>5 DEF Effect, SummaryKinds
  <2>2. QED
    BY <2>1 DEF SummaryEffect, One
<1>6. QED
  BY <1>1, <1>2, <1>3, <1>4, <1>5 DEF Kinds

LEMMA CountedFields ==
  ASSUME NEW context \in Context, NEW t \in Targets, NEW outcome \in Answers
  PROVE  /\ Counted(context, t, outcome) \in Context
         /\ Counted(context, t, outcome).fallbacks =
              context.fallbacks + Effect(t, outcome).fallbacks
         /\ Counted(context, t, outcome).success = context.success + Effect(t, outcome).success
         /\ Counted(context, t, outcome).aiFallback =
              context.aiFallback + Effect(t, outcome).aiFallback
         /\ Counted(context, t, outcome).partial =
              (context.partial \/ Effect(t, outcome).partial)
<1>1. PICK effect : effect = Effect(t, outcome)
  OBVIOUS
<1>2. effect.fallbacks \in Nat /\ effect.success \in Nat /\ effect.aiFallback \in Nat
      /\ effect.partial \in BOOLEAN
  BY <1>1, Effects
<1>3. PICK partial \in BOOLEAN : partial = (context.partial \/ effect.partial)
  OBVIOUS
<1>4. PICK fallbacks \in Nat, success \in Nat, aiFallback \in Nat :
        /\ fallbacks = context.fallbacks + effect.fallbacks
        /\ success = context.success + effect.success
        /\ aiFallback = context.aiFallback + effect.aiFallback
  BY <1>2 DEF Context
<1>5. Counted(context, t, outcome) =
        [context EXCEPT !.fallbacks = fallbacks, !.partial = partial,
                        !.success = success, !.aiFallback = aiFallback]
  BY <1>1, <1>3, <1>4 DEF Counted
<1>6. /\ Counted(context, t, outcome) \in Context
      /\ Counted(context, t, outcome).fallbacks = fallbacks
      /\ Counted(context, t, outcome).success = success
      /\ Counted(context, t, outcome).aiFallback = aiFallback
      /\ Counted(context, t, outcome).partial = partial
  BY <1>5 DEF Context
<1>7. QED
  BY <1>1, <1>3, <1>4, <1>6

\* A call that waits gets an answer, fails or is cancelled.
LEMMA CallsPlace ==
  ASSUME PlaceInv, NEW a \in Attempts, pc[a] = "calling",
         NEW cs \in [Targets -> CallStates],
         \A t \in Targets : calls[a][t] # "waiting" => cs[t] = calls[a][t],
         NEW loc \in Local, loc.step = local[a].step, loc.done = local[a].done,
         loc.copy = local[a].copy,
         loc.queue \subseteq {t \in Targets : cs[t] \in Answers /\ t \notin loc.copy.targets},
         local' = [local EXCEPT ![a] = loc], calls' = [calls EXCEPT ![a] = cs],
         UNCHANGED <<row, pc>>
  PROVE  PlaceInv'
<1>1. PlacedAt("calling", local[a], calls[a])
  BY AttemptFields DEF PlaceInv
<1>2. \A t \in Targets : cs[t] # NoCall => calls[a][t] # NoCall
  BY DEF NoCall
<1>3. PlacedAt("calling", loc, cs)
  BY <1>1, <1>2 DEF PlacedAt
<1>4. pc' = [pc EXCEPT ![a] = "calling"]
  BY AttemptFields DEF PlaceInv
<1>5. AttemptType'
  BY <1>3, <1>4, AttemptMoves DEF PlaceInv, Places
<1>6. QED
  BY <1>5, RowStays DEF PlaceInv

LEMMA AnswerPlace ==
  ASSUME PlaceInv, NEW a \in Attempts, NEW t \in Targets, Answer(a, t) \/ Fail(a, t)
  PROVE  PlaceInv'
<1>1. PICK outcome \in CallStates : calls' = [calls EXCEPT ![a][t] = outcome]
  <2>1. Outcomes(Kind[t]) \subseteq CallStates
    BY MarketDailyAssumption
    DEF Outcomes, CallStates, Kinds, SummaryKinds, EnrichOutcomes, ThemeOutcomes,
        GroupOutcomes, HeadlineOutcomes, SummaryOutcomes, DetailOutcomes
  <2>2. CASE Answer(a, t)
    BY <2>1, <2>2 DEF Answer
  <2>3. CASE Fail(a, t)
    BY <2>3 DEF Fail, CallStates
  <2>4. QED
    BY <2>2, <2>3
<1>2. pc[a] = "calling" /\ calls[a][t] = "waiting" /\ UNCHANGED <<row, pc, local>>
  BY DEF Answer, Fail, Answerable, Waiting
<1>3. PICK cs : cs = [calls[a] EXCEPT ![t] = outcome]
  OBVIOUS
<1>4. cs \in [Targets -> CallStates] /\ calls' = [calls EXCEPT ![a] = cs]
      /\ \A u \in Targets : calls[a][u] # "waiting" => cs[u] = calls[a][u]
  BY <1>1, <1>2, <1>3, AttemptFields DEF PlaceInv
<1>5. local[a].queue \subseteq {u \in Targets : cs[u] \in Answers /\ u \notin local[a].copy.targets}
  BY <1>4, AttemptFields DEF PlaceInv, PlacedAt, Answers
<1>6. local' = [local EXCEPT ![a] = local[a]] /\ local[a] \in Local
  BY <1>2, AttemptFields DEF PlaceInv
<1>7. QED
  BY <1>2, <1>4, <1>5, <1>6, CallsPlace

LEMMA WakeUpPlace ==
  ASSUME PlaceInv, NEW a \in Attempts, WakeUp(a)
  PROVE  PlaceInv'
<1>1. PICK cs : cs = [t \in Targets |-> IF Failed(a) # {} /\ calls[a][t] = "waiting"
                                       THEN NoCall ELSE calls[a][t]]
  OBVIOUS
<1>2. PICK loc : loc = [local[a] EXCEPT !.queue = Unsaved(a)]
  OBVIOUS
<1>3. calls[a] \in [Targets -> CallStates] /\ local[a] \in Local
  BY AttemptFields DEF PlaceInv
<1>4. cs \in [Targets -> CallStates]
      /\ \A t \in Targets : calls[a][t] # "waiting" => cs[t] = calls[a][t]
  BY <1>1, <1>3 DEF CallStates
<1>5. Unsaved(a) = {t \in Targets : calls[a][t] \in Answers /\ t \notin local[a].copy.targets}
  BY DEF Unsaved, Answered
<1>6. loc \in Local /\ loc.step = local[a].step /\ loc.done = local[a].done
      /\ loc.copy = local[a].copy /\ loc.queue = Unsaved(a)
  BY <1>2, <1>3, <1>5 DEF Local
<1>7. loc.queue \subseteq {t \in Targets : cs[t] \in Answers /\ t \notin loc.copy.targets}
  BY <1>4, <1>5, <1>6 DEF Answers
<1>8. /\ pc[a] = "calling" /\ UNCHANGED <<row, pc>>
      /\ local' = [local EXCEPT ![a] = loc] /\ calls' = [calls EXCEPT ![a] = cs]
  BY <1>1, <1>2 DEF WakeUp, Collect
<1>9. QED
  BY <1>4, <1>6, <1>7, <1>8, CallsPlace

\* The target that is persisted was answered and is not in the attempt's checkpoint.
LEMMA PersistedTarget ==
  ASSUME PlaceInv, NEW a \in Attempts, local[a].queue # {}, pc[a] = "calling",
         NEW t, t = First(a, local[a].queue)
  PROVE  /\ t \in local[a].queue /\ t \in Targets /\ t \in TargetsIn(local[a].step)
         /\ calls[a][t] \in Answers /\ t \notin local[a].copy.targets
         /\ Saved(a, t) \in Checkpoint /\ Saved(a, t).steps = local[a].copy.steps
         /\ Saved(a, t).targets = local[a].copy.targets \cup {t}
         /\ Saved(a, t).context = Counted(local[a].context, t, calls[a][t])
         /\ Saved(a, t).retries = local[a].copy.retries
         /\ Counted(local[a].context, t, calls[a][t]) \in Context
<1>1. PlacedAt("calling", local[a], calls[a]) /\ local[a] \in Local
  BY AttemptFields DEF PlaceInv
<1>2. local[a].queue \subseteq TargetsIn(local[a].step) /\ local[a].step \in TargetSteps
  BY <1>1 DEF PlacedAt, Answers, NoCall
<1>3. t \in local[a].queue
  BY <1>2, FirstIsOne
<1>4. t \in Targets /\ calls[a][t] \in Answers /\ t \notin local[a].copy.targets
  BY <1>1, <1>3 DEF PlacedAt
<1>5. local[a].context \in Context /\ local[a].copy \in Checkpoint
  BY <1>1 DEF Local
<1>6. Counted(local[a].context, t, calls[a][t]) \in Context
  BY <1>4, <1>5, CountedFields
<1>7. QED
  BY <1>2, <1>3, <1>4, <1>5, <1>6 DEF Saved, Checkpoint

LEMMA PersistTargetPlace ==
  ASSUME PlaceInv, NEW a \in Attempts, PersistTarget(a)
  PROVE  PlaceInv'
<1>1. CASE Leave(a) /\ UNCHANGED row
  BY <1>1, LeaveMoves, RowStays DEF PlaceInv
<1>2. PICK t : t = First(a, local[a].queue)
  OBVIOUS
<1>3. CASE /\ stored' = [stored EXCEPT ![t] = calls[a][t]]
           /\ checkpoint' = IF local[a].lease = Nobody THEN checkpoint ELSE Saved(a, t)
           /\ local' = [local EXCEPT
                          ![a].context = Counted(@, t, calls[a][t]),
                          ![a].copy = Saved(a, t),
                          ![a].queue = @ \ {t}]
           /\ UNCHANGED <<holder, status, pages, pc, calls>>
  <2>1. pc[a] = "calling" /\ local[a].queue # {}
    BY DEF PersistTarget
  <2>2. /\ t \in local[a].queue /\ t \in Targets /\ calls[a][t] \in Answers
        /\ Saved(a, t) \in Checkpoint /\ Saved(a, t).steps = local[a].copy.steps
        /\ Saved(a, t).targets = local[a].copy.targets \cup {t}
        /\ Counted(local[a].context, t, calls[a][t]) \in Context
    BY <1>2, <2>1, PersistedTarget
  <2>3. PlacedAt("calling", local[a], calls[a]) /\ local[a] \in Local
    BY <2>1, AttemptFields DEF PlaceInv
  <2>4. PICK loc : loc = [local[a] EXCEPT !.context = Counted(@, t, calls[a][t]),
                                          !.copy = Saved(a, t), !.queue = @ \ {t}]
    OBVIOUS
  <2>5. loc \in Local /\ loc.step = local[a].step /\ loc.done = local[a].done
        /\ loc.copy = Saved(a, t) /\ loc.queue = local[a].queue \ {t}
    BY <2>2, <2>3, <2>4 DEF Local
  <2>6. PlacedAt("calling", loc, calls[a])
    BY <2>2, <2>3, <2>5 DEF PlacedAt
  <2>7. local' = [local EXCEPT ![a] = loc] /\ calls' = [calls EXCEPT ![a] = calls[a]]
        /\ pc' = [pc EXCEPT ![a] = "calling"]
    BY <1>3, <2>1, <2>4, AttemptFields DEF PlaceInv
  <2>8. AttemptType'
    BY <2>5, <2>6, <2>7, AttemptFields, AttemptMoves DEF PlaceInv, Places
  <2>9. RowType'
    BY <1>3, <2>2, <2>3 DEF PlaceInv, RowType, PlacedAt
  <2>10. QED
    BY <2>8, <2>9 DEF PlaceInv
<1>4. QED
  BY <1>1, <1>2, <1>3 DEF PersistTarget

\* The checkpoint at the end of a step.
DoneAfter(a) == local[a].done \cup {local[a].step}
SavedStep(a, context) == [checkpoint EXCEPT !.steps = DoneAfter(a), !.context = context]

LEMMA EndedStep ==
  ASSUME PlaceInv, NEW a \in Attempts, StepIsDone(a), local[a].step # "FINALIZE_JOB",
         NEW context \in ContextsAfter(a)
  PROVE  /\ DoneAfter(a) \in SUBSET Range(Steps) /\ "FINALIZE_JOB" \notin DoneAfter(a)
         /\ local[a].step \notin local[a].done
         /\ context \in Context /\ SavedStep(a, context) \in Checkpoint
         /\ SavedStep(a, context).steps = DoneAfter(a)
         /\ SavedStep(a, context).context = context
         /\ SavedStep(a, context).targets = checkpoint.targets
         /\ SavedStep(a, context).retries = checkpoint.retries
<1>1. PlacedAt(pc[a], local[a], calls[a]) /\ local[a] \in Local /\ checkpoint \in Checkpoint
      /\ pc[a] \in {"begun", "calling"}
  BY AttemptFields DEF PlaceInv, RowType, StepIsDone
<1>2. local[a].step \in Range(Steps) \ local[a].done /\ local[a].done \in SUBSET Range(Steps)
      /\ "FINALIZE_JOB" \notin local[a].done /\ local[a].context \in Context
  BY <1>1 DEF PlacedAt, Local
<1>3. context \in Context
  BY <1>2 DEF ContextsAfter, Context
<1>4. DoneAfter(a) \in SUBSET Range(Steps) /\ "FINALIZE_JOB" \notin DoneAfter(a)
  BY <1>2 DEF DoneAfter
<1>5. QED
  BY <1>1, <1>2, <1>3, <1>4 DEF Checkpoint, SavedStep

LEMMA EndStepPlace ==
  ASSUME PlaceInv, NEW a \in Attempts, EndStep(a)
  PROVE  PlaceInv'
<1>1. CASE LosesLease(a)
  BY <1>1, LosesLeasePlace
<1>2. CASE ~LosesLease(a)
  <2>1. StepIsDone(a) /\ local[a].step # "FINALIZE_JOB"
    BY DEF EndStep
  <2>2. PICK done : done = DoneAfter(a)
    OBVIOUS
  <2>3. PICK context \in ContextsAfter(a) :
          /\ CheckpointStep(a, context)
          /\ pages' = pages + One(local[a].step = "BUILD_PAGE_SNAPSHOT" /\ context.page)
    BY <1>2 DEF EndStep
  <2>4. /\ done \in SUBSET Range(Steps) /\ "FINALIZE_JOB" \notin done /\ context \in Context
        /\ SavedStep(a, context) \in Checkpoint /\ SavedStep(a, context).steps = done
    BY <2>1, <2>2, <2>3, EndedStep
  <2>5. PICK loc : loc = [NewLocal EXCEPT !.context = context, !.done = done,
                                          !.exhausted = local[a].exhausted]
    OBVIOUS
  <2>6. local[a].exhausted \in BOOLEAN
    BY AttemptFields DEF PlaceInv, Local
  <2>7. loc \in Local /\ loc.queue = {} /\ loc.done = done /\ loc.copy = NewLocal.copy
    BY <2>4, <2>5, <2>6, NewAttempt DEF Local
  <2>8. PlacedAt("ready", loc, NoCalls)
    BY <2>4, <2>7, NewAttempt, FreshIsPlaced DEF Places
  <2>9. /\ checkpoint' = SavedStep(a, context) /\ local' = [local EXCEPT ![a] = loc]
        /\ calls' = [calls EXCEPT ![a] = NoCalls] /\ pc' = [pc EXCEPT ![a] = "ready"]
        /\ pages' = pages + One(local[a].step = "BUILD_PAGE_SNAPSHOT" /\ context.page)
        /\ UNCHANGED <<holder, status, stored>>
    BY <1>2, <2>2, <2>3, <2>5 DEF EndStep, CheckpointStep, Goto, DoneAfter, SavedStep
  <2>10. AttemptType'
    BY <2>7, <2>8, <2>9, NewAttempt, AttemptMoves DEF PlaceInv, Places
  <2>11. RowType'
    BY <2>4, <2>9 DEF PlaceInv, RowType, One
  <2>12. QED
    BY <2>10, <2>11 DEF PlaceInv
<1>3. QED
  BY <1>1, <1>2

LEMMA FinalizePlace ==
  ASSUME PlaceInv, NEW a \in Attempts, Finalize(a)
  PROVE  PlaceInv'
<1>1. CASE LosesLease(a)
  BY <1>1, LosesLeasePlace
<1>2. CASE ~LosesLease(a)
  <2>1. /\ status' = BatchStatus(local[a].context) /\ holder' = Nobody /\ Leave(a)
        /\ UNCHANGED <<checkpoint, stored, pages>>
    BY <1>2 DEF Finalize
  <2>2. BatchStatus(local[a].context) \in {"SUCCESS", "PARTIAL", "FAILED"}
    BY DEF BatchStatus
  <2>3. RowType'
    BY <2>1, <2>2 DEF PlaceInv, RowType
  <2>4. QED
    BY <2>1, <2>3, LeaveMoves DEF PlaceInv
<1>3. QED
  BY <1>1, <1>2

LEMMA ReleasePlace ==
  ASSUME RowType, NEW a \in Attempts, NEW retries \in Nat, Release(a, retries)
  PROVE  RowType'
<1>1. CASE holder = a
  <2>1. PICK saved : saved = [checkpoint EXCEPT !.retries = retries]
    OBVIOUS
  <2>2. saved \in Checkpoint /\ saved.steps = checkpoint.steps
    BY <2>1 DEF RowType, Checkpoint
  <2>3. QED
    BY <1>1, <2>1, <2>2 DEF Release, RowType
<1>2. CASE holder # a
  BY <1>2, RowStays DEF Release
<1>3. QED
  BY <1>1, <1>2

LEMMA RerunMoves ==
  ASSUME PlaceInv, NEW a \in Attempts, Rerun(a)
  PROVE  AttemptType'
<1>1. PICK loc : loc = [NewLocal EXCEPT !.exhausted = TRUE]
  OBVIOUS
<1>2. loc \in Local /\ loc.queue = {} /\ loc.done = {} /\ loc.copy = NewLocal.copy
  BY <1>1, NewAttempt DEF Local
<1>3. PlacedAt("claimed", loc, NoCalls)
  BY <1>2, NewAttempt, FreshIsPlaced DEF Places
<1>4. QED
  BY <1>1, <1>2, <1>3, NewAttempt, AttemptMoves DEF PlaceInv, Rerun, Goto, Places

LEMMA RaisePlace ==
  ASSUME PlaceInv, NEW a \in Attempts, RaiseRetryable(a) \/ RaiseOther(a) \/ Stop(a)
  PROVE  PlaceInv'
<1>1. checkpoint.retries \in Nat
  BY DEF PlaceInv, RowType, Checkpoint
<1>2. CASE RaiseRetryable(a)
  <2>1. CASE Release(a, checkpoint.retries + 1) /\ Leave(a)
    BY <1>1, <2>1, ReleasePlace, LeaveMoves DEF PlaceInv
  <2>2. CASE Rerun(a) /\ UNCHANGED row
    BY <2>2, RerunMoves, RowStays DEF PlaceInv
  <2>3. QED
    BY <1>2, <2>1, <2>2 DEF RaiseRetryable
<1>3. CASE RaiseOther(a)
  BY <1>1, <1>3, ReleasePlace, LeaveMoves DEF PlaceInv, RaiseOther
<1>4. CASE Stop(a)
  BY <1>4, RowStays, LeaveMoves DEF PlaceInv, Stop
<1>5. QED
  BY <1>2, <1>3, <1>4

LEMMA PlaceInit == Init => PlaceInv
<1> SUFFICES ASSUME Init PROVE PlaceInv
  OBVIOUS
<1>1. PlacedAt("idle", NewLocal, NoCalls)
  BY NewAttempt, FreshIsPlaced DEF Places
<1>2. AttemptType
  BY <1>1, NewAttempt DEF Init, AttemptType, Placed, Places
<1>3. RowType
  BY NewAttempt DEF Init, RowType, NewCheckpoint, NoCalls, NoCall
<1>4. QED
  BY <1>2, <1>3 DEF PlaceInv

LEMMA PlaceStep == PlaceInv /\ [Next]_vars => PlaceInv'
<1> SUFFICES ASSUME PlaceInv, [Next]_vars PROVE PlaceInv'
  OBVIOUS
<1>1. ASSUME NEW a \in Attempts, Run(a) PROVE PlaceInv'
  BY <1>1, ClaimPlace, RestorePlace, BeginStepPlace, LoadPlace, WakeUpPlace,
     PersistTargetPlace, EndStepPlace, FinalizePlace, RaisePlace DEF Run
<1>2. ASSUME NEW a \in Attempts, NEW t \in Targets, Answer(a, t) \/ Fail(a, t)
      PROVE  PlaceInv'
  BY <1>2, AnswerPlace
<1>3. ASSUME NEW a \in Attempts, RaiseOther(a) \/ Stop(a) PROVE PlaceInv'
  BY <1>3, RaisePlace
<1>4. CASE UNCHANGED vars
  BY <1>4 DEF vars, row, PlaceInv, RowType, AttemptType, Placed
<1>5. QED
  BY <1>1, <1>2, <1>3, <1>4 DEF Next

\* Whatever its attempts do, and however stale their copies, the row and the
\* attempts are well typed.
THEOREM TypeCorrect == Spec => []TypeOK
<1>1. PlaceInv => TypeOK
  BY DEF PlaceInv, RowType, AttemptType, TypeOK, Places
<1>2. QED
  BY <1>1, PlaceInit, PlaceStep, PTL DEF Spec
-----------------------------------------------------------------------------
(***************************************************************************)
(* The fence: what the row and the attempt that holds its lease know of    *)
(* each other when no attempt loads the progress of its successor.         *)
(***************************************************************************)
\* The holder works on what the checkpoint says: a call waits only for a target that
\* is not in it, and a target without a call is in it, unless calls were cancelled.
UpToDateAt(place, loc, cs, saved) ==
  /\ place \in {"ready", "begun", "calling"} =>
       loc.done = saved.steps /\ loc.context = saved.context
  /\ place = "calling" =>
       /\ loc.copy = saved
       /\ \A t \in TargetsIn(loc.step) :
            /\ cs[t] = "waiting" => t \notin saved.targets
            /\ cs[t] = NoCall /\ (\A u \in Targets : cs[u] # "failed") => t \in saved.targets
HolderUpToDate ==
  \A a \in Attempts : holder = a => UpToDateAt(pc[a], local[a], calls[a], checkpoint)

LoadedItsOwn == \A a \in Attempts : pc[a] = "calling" => local[a].lease = a
StoredIsCommitted == \A t \in Targets : stored[t] # NoCall <=> t \in checkpoint.targets
DoneStepsAreComplete ==
  \A s \in TargetSteps : s \in checkpoint.steps => TargetsIn(s) \subseteq checkpoint.targets
PageWithItsStep == pages \in {0, One("BUILD_PAGE_SNAPSHOT" \in checkpoint.steps)}

\* The counters of the context, target by target.
Fallbacks == {t \in checkpoint.targets : Effect(t, stored[t]).fallbacks = 1}
Successes == {t \in checkpoint.targets : Effect(t, stored[t]).success = 1}
AiFallbacks == {t \in checkpoint.targets : Effect(t, stored[t]).aiFallback = 1}
Degraded == \E t \in checkpoint.targets : Effect(t, stored[t]).partial
ContextCounts ==
  /\ IsFiniteSet(checkpoint.targets)
  /\ checkpoint.context.fallbacks = Cardinality(Fallbacks)
  /\ checkpoint.context.success = Cardinality(Successes)
  /\ checkpoint.context.aiFallback = Cardinality(AiFallbacks)
  /\ checkpoint.context.partial = Degraded
SuccessIsEarned == status = "SUCCESS" => ~Degraded /\ checkpoint.targets = Targets

Committed == StoredIsCommitted /\ DoneStepsAreComplete /\ PageWithItsStep /\ ContextCounts
FenceInv == LoadedItsOwn /\ HolderUpToDate /\ Committed /\ SuccessIsEarned

LEMMA FenceInit == Init => FenceInv
<1> SUFFICES ASSUME Init PROVE FenceInv
  OBVIOUS
<1>1. LoadedItsOwn /\ HolderUpToDate
  BY DEF Init, LoadedItsOwn, HolderUpToDate, UpToDateAt
<1>2. checkpoint.targets = {} /\ checkpoint.steps = {} /\ checkpoint.context = NewContext
  BY DEF Init, NewCheckpoint
<1>3. StoredIsCommitted /\ DoneStepsAreComplete /\ PageWithItsStep
  BY <1>2, NewAttempt
  DEF Init, StoredIsCommitted, DoneStepsAreComplete, PageWithItsStep, One
<1>4. Fallbacks = {} /\ Successes = {} /\ AiFallbacks = {} /\ Degraded = FALSE
  BY <1>2 DEF Fallbacks, Successes, AiFallbacks, Degraded
<1>5. ContextCounts
  <2>1. /\ checkpoint.context.fallbacks = 0 /\ checkpoint.context.success = 0
        /\ checkpoint.context.aiFallback = 0
    BY <1>2 DEF NewContext
  <2>2. checkpoint.context.partial = FALSE
    BY <1>2 DEF NewContext
  <2>3. checkpoint.context.partial = Degraded
    BY <1>4, <2>2
  <2>4. QED
    BY <1>2, <1>4, <2>1, <2>3, FS_EmptySet DEF ContextCounts
<1>6. SuccessIsEarned
  BY DEF Init, SuccessIsEarned
<1>7. QED
  BY <1>1, <1>3, <1>5, <1>6 DEF FenceInv, Committed

\* The rows and the checkpoint, but not who holds the lease, are as they were.
LEMMA CommittedStays ==
  ASSUME Committed, UNCHANGED <<stored, pages>>,
         checkpoint'.steps = checkpoint.steps, checkpoint'.targets = checkpoint.targets,
         checkpoint'.context = checkpoint.context
  PROVE  Committed' /\ (Degraded' <=> Degraded)
<1>1. Fallbacks' = Fallbacks /\ Successes' = Successes /\ AiFallbacks' = AiFallbacks
      /\ Degraded' = Degraded
  BY DEF Fallbacks, Successes, AiFallbacks, Degraded
<1>2. ContextCounts'
  BY <1>1 DEF Committed, ContextCounts
<1>3. StoredIsCommitted' /\ DoneStepsAreComplete' /\ PageWithItsStep'
  BY DEF Committed, StoredIsCommitted, DoneStepsAreComplete, PageWithItsStep
<1>4. QED
  BY <1>1, <1>2, <1>3 DEF Committed

\* A step of an attempt that changes no row.
LEMMA AttemptFence ==
  ASSUME PlaceInv, FenceInv, UNCHANGED row, NEW a \in Attempts,
         NEW place, NEW loc, NEW cs,
         pc' = [pc EXCEPT ![a] = place], local' = [local EXCEPT ![a] = loc],
         calls' = [calls EXCEPT ![a] = cs],
         place = "calling" => loc.lease = a,
         holder = a => UpToDateAt(place, loc, cs, checkpoint)
  PROVE  FenceInv'
<1>1. \A b \in Attempts : /\ pc'[b] = IF b = a THEN place ELSE pc[b]
                          /\ local'[b] = IF b = a THEN loc ELSE local[b]
                          /\ calls'[b] = IF b = a THEN cs ELSE calls[b]
  BY DEF PlaceInv, AttemptType
<1>2. LoadedItsOwn'
  BY <1>1 DEF FenceInv, LoadedItsOwn
<1>3. UNCHANGED <<holder, status, checkpoint, stored, pages>>
  BY DEF row
<1>4. HolderUpToDate'
  BY <1>1, <1>3 DEF FenceInv, HolderUpToDate
<1>5. Committed' /\ SuccessIsEarned'
  BY <1>3, CommittedStays DEF FenceInv, SuccessIsEarned
<1>6. QED
  BY <1>2, <1>4, <1>5 DEF FenceInv

LEMMA LeaveFence ==
  ASSUME PlaceInv, FenceInv, NEW a \in Attempts, Leave(a), UNCHANGED row
  PROVE  FenceInv'
BY AttemptFence DEF Leave, Goto, UpToDateAt

\* The lease goes to nobody, or to an attempt that has not read the row yet, and
\* what is committed stays.
LEMMA LeaseFence ==
  ASSUME PlaceInv, FenceInv, NEW a \in Attempts, NEW place \in {"claimed", "over"},
         NEW loc, NEW cs,
         pc' = [pc EXCEPT ![a] = place], local' = [local EXCEPT ![a] = loc],
         calls' = [calls EXCEPT ![a] = cs],
         holder' = a \/ holder' \notin Attempts,
         Committed', SuccessIsEarned'
  PROVE  FenceInv'
<1>1. \A b \in Attempts : /\ pc'[b] = IF b = a THEN place ELSE pc[b]
                          /\ local'[b] = IF b = a THEN loc ELSE local[b]
  BY DEF PlaceInv, AttemptType
<1>2. LoadedItsOwn' /\ HolderUpToDate'
  BY <1>1 DEF FenceInv, LoadedItsOwn, HolderUpToDate, UpToDateAt
<1>3. QED
  BY <1>2 DEF FenceInv

LEMMA ClaimFence ==
  ASSUME PlaceInv, FenceInv, NEW a \in Attempts, Claim(a)
  PROVE  FenceInv'
<1>1. Committed'
  BY CommittedStays DEF Claim, FenceInv
<1>2. SuccessIsEarned'
  BY DEF Claim, SuccessIsEarned
<1>3. pc' = [pc EXCEPT ![a] = "claimed"] /\ local' = [local EXCEPT ![a] = local[a]]
      /\ calls' = [calls EXCEPT ![a] = calls[a]] /\ holder' = a
  BY AttemptFields DEF PlaceInv, Claim, Goto
<1>4. QED
  BY <1>1, <1>2, <1>3, LeaseFence

LEMMA RestoreFence ==
  ASSUME PlaceInv, FenceInv, NEW a \in Attempts, Restore(a)
  PROVE  FenceInv'
<1>1. PICK loc : loc = [local[a] EXCEPT !.context = checkpoint.context, !.done = checkpoint.steps]
  OBVIOUS
<1>2. loc.context = checkpoint.context /\ loc.done = checkpoint.steps
  BY <1>1, AttemptFields DEF PlaceInv, Local
<1>3. UpToDateAt("ready", loc, calls[a], checkpoint)
  BY <1>2 DEF UpToDateAt
<1>4. pc' = [pc EXCEPT ![a] = "ready"] /\ local' = [local EXCEPT ![a] = loc]
      /\ calls' = [calls EXCEPT ![a] = calls[a]] /\ UNCHANGED row
  BY <1>1, AttemptFields DEF PlaceInv, Restore, Goto
<1>5. QED
  BY <1>3, <1>4, AttemptFence

LEMMA BeginStepFence ==
  ASSUME PlaceInv, FenceInv, NEW a \in Attempts, BeginStep(a)
  PROVE  FenceInv'
<1>1. CASE LosesLease(a)
  BY <1>1, LeaveFence DEF LosesLease
<1>2. CASE ~LosesLease(a)
  <2>1. PICK loc : loc = [local[a] EXCEPT !.step = Steps[NextStep(a)]]
    OBVIOUS
  <2>2. loc.context = local[a].context /\ loc.done = local[a].done
    BY <2>1, AttemptFields DEF PlaceInv, Local
  <2>3. holder = a => UpToDateAt("begun", loc, calls[a], checkpoint)
    BY <1>2, <2>2 DEF UpToDateAt, FenceInv, HolderUpToDate, BeginStep
  <2>4. pc' = [pc EXCEPT ![a] = "begun"] /\ local' = [local EXCEPT ![a] = loc]
        /\ calls' = [calls EXCEPT ![a] = calls[a]] /\ UNCHANGED row
    BY <1>2, <2>1, AttemptFields DEF PlaceInv, BeginStep, Goto
  <2>5. QED
    BY <2>3, <2>4, AttemptFence
<1>3. QED
  BY <1>1, <1>2

\* Pending targets are those without an answer in the checkpoint.
LEMMA LoadFence ==
  ASSUME ~StaleLoads, PlaceInv, FenceInv, NEW a \in Attempts, Load(a)
  PROVE  FenceInv'
<1>1. PICK loc : loc = [local[a] EXCEPT !.copy = checkpoint, !.lease = holder]
  OBVIOUS
<1>2. PICK cs : cs = [t \in Targets |-> IF t \in Pending(a) THEN "waiting" ELSE NoCall]
  OBVIOUS
<1>3. holder = a /\ local[a].step \in TargetSteps /\ pc[a] = "begun"
  BY DEF Load
<1>4. loc.lease = a /\ loc.copy = checkpoint /\ loc.done = local[a].done
      /\ loc.context = local[a].context /\ loc.step = local[a].step
  BY <1>1, <1>3, AttemptFields DEF PlaceInv, Local
<1>5. \A t \in TargetsIn(loc.step) : t \in Targets /\ (t \in Pending(a) <=> t \notin checkpoint.targets)
  <2>1. TargetsIn(loc.step) = Range(CurrentTargets(a)) /\ TargetsIn(loc.step) \subseteq Targets
    BY <1>3, <1>4, TargetsOfSteps
  <2>2. QED
    BY <2>1 DEF Pending, FenceInv, Committed, StoredIsCommitted
<1>6. UpToDateAt("calling", loc, cs, checkpoint)
  <2>1. local[a].done = checkpoint.steps /\ local[a].context = checkpoint.context
    BY <1>3 DEF FenceInv, HolderUpToDate, UpToDateAt
  <2>2. \A t \in TargetsIn(loc.step) :
          /\ cs[t] = "waiting" => t \notin checkpoint.targets
          /\ cs[t] = NoCall => t \in checkpoint.targets
    BY <1>2, <1>5 DEF NoCall
  <2>3. QED
    BY <1>4, <2>1, <2>2 DEF UpToDateAt
<1>7. pc' = [pc EXCEPT ![a] = "calling"] /\ local' = [local EXCEPT ![a] = loc]
      /\ calls' = [calls EXCEPT ![a] = cs] /\ UNCHANGED row
  BY <1>1, <1>2 DEF Load, Goto
<1>8. QED
  BY <1>4, <1>6, <1>7, AttemptFence

\* An answer, a failure or a cancellation leaves the rest of the work.
SameWork(loc, old) ==
  /\ loc.step = old.step /\ loc.done = old.done /\ loc.copy = old.copy
  /\ loc.context = old.context /\ loc.lease = old.lease
CallsKept(cs, old) ==
  \A t \in Targets :
    /\ cs[t] = "waiting" => old[t] = "waiting"
    /\ cs[t] = NoCall => old[t] = NoCall \/ \E u \in Targets : cs[u] = "failed"
    /\ old[t] = "failed" => cs[t] = "failed"

LEMMA CallsFence ==
  ASSUME PlaceInv, FenceInv, NEW a \in Attempts, pc[a] = "calling", NEW loc, NEW cs,
         SameWork(loc, local[a]), CallsKept(cs, calls[a]),
         local' = [local EXCEPT ![a] = loc], calls' = [calls EXCEPT ![a] = cs],
         UNCHANGED row, UNCHANGED pc
  PROVE  FenceInv'
<1>1. loc.lease = a /\ pc' = [pc EXCEPT ![a] = "calling"]
  BY AttemptFields DEF PlaceInv, FenceInv, LoadedItsOwn, SameWork
<1>2. TargetsIn(loc.step) \subseteq Targets
  BY TargetsOfSteps, AttemptFields DEF PlaceInv, PlacedAt, SameWork
<1>3. holder = a => UpToDateAt("calling", loc, cs, checkpoint)
  BY <1>2 DEF FenceInv, HolderUpToDate, UpToDateAt, SameWork, CallsKept
<1>4. "calling" = "calling" => loc.lease = a
  BY <1>1
<1>5. QED
  BY <1>1, <1>3, <1>4, AttemptFence

LEMMA AnswerFence ==
  ASSUME PlaceInv, FenceInv, NEW a \in Attempts, NEW t \in Targets, Answer(a, t) \/ Fail(a, t)
  PROVE  FenceInv'
<1>1. PICK outcome \in CallStates \ {NoCall, "waiting"} : calls' = [calls EXCEPT ![a][t] = outcome]
  <2>1. Outcomes(Kind[t]) \subseteq CallStates \ {NoCall, "waiting"}
    BY MarketDailyAssumption
    DEF Outcomes, CallStates, Kinds, SummaryKinds, EnrichOutcomes, ThemeOutcomes,
        GroupOutcomes, HeadlineOutcomes, SummaryOutcomes, DetailOutcomes, NoCall
  <2>2. CASE Answer(a, t)
    BY <2>1, <2>2 DEF Answer
  <2>3. CASE Fail(a, t)
    BY <2>3 DEF Fail, CallStates, NoCall
  <2>4. QED
    BY <2>2, <2>3
<1>2. pc[a] = "calling" /\ calls[a][t] = "waiting" /\ UNCHANGED row /\ UNCHANGED pc
      /\ UNCHANGED local
  BY DEF Answer, Fail, Answerable, Waiting
<1>3. PICK cs : cs = [calls[a] EXCEPT ![t] = outcome]
  OBVIOUS
<1>4. calls' = [calls EXCEPT ![a] = cs]
      /\ \A u \in Targets : cs[u] = IF u = t THEN outcome ELSE calls[a][u]
  BY <1>1, <1>2, <1>3, AttemptFields DEF PlaceInv
<1>5. local' = [local EXCEPT ![a] = local[a]]
  BY <1>2, AttemptFields DEF PlaceInv
<1>6. CallsKept(cs, calls[a])
  BY <1>2, <1>4 DEF CallsKept
<1>7. SameWork(local[a], local[a])
  BY DEF SameWork
<1>8. QED
  BY <1>2, <1>4, <1>5, <1>6, <1>7, CallsFence

LEMMA WakeUpFence ==
  ASSUME PlaceInv, FenceInv, NEW a \in Attempts, WakeUp(a)
  PROVE  FenceInv'
<1>1. PICK cs : cs = [t \in Targets |-> IF Failed(a) # {} /\ calls[a][t] = "waiting"
                                       THEN NoCall ELSE calls[a][t]]
  OBVIOUS
<1>2. PICK loc : loc = [local[a] EXCEPT !.queue = Unsaved(a)]
  OBVIOUS
<1>3. SameWork(loc, local[a])
  BY <1>2, AttemptFields DEF PlaceInv, Local, SameWork
<1>4. CallsKept(cs, calls[a])
  BY <1>1 DEF Failed, NoCall, CallsKept
<1>5. pc[a] = "calling" /\ UNCHANGED row /\ UNCHANGED pc
  BY DEF WakeUp
<1>6. local' = [local EXCEPT ![a] = loc]
  BY <1>2 DEF WakeUp, Collect
<1>7. calls' = [calls EXCEPT ![a] = cs]
  BY <1>1 DEF WakeUp
<1>8. QED
  BY <1>3, <1>4, <1>5, <1>6, <1>7, CallsFence

\* A counter follows the set it counts.
LEMMA TallyGrows ==
  ASSUME NEW S, IsFiniteSet(S), NEW t, t \notin S, NEW n \in {0, 1},
         NEW B, B = IF n = 1 THEN S \cup {t} ELSE S
  PROVE  IsFiniteSet(B) /\ Cardinality(B) = Cardinality(S) + n
<1>1. Cardinality(S) \in Nat
  BY FS_CardinalityType
<1>2. CASE n = 1
  BY <1>2, FS_AddElement
<1>3. CASE n = 0
  BY <1>1, <1>3
<1>4. QED
  BY <1>2, <1>3

\* The outcome of one more target is counted once.
LEMMA CommitTarget ==
  ASSUME PlaceInv, Committed, NEW t \in Targets, t \notin checkpoint.targets,
         NEW outcome \in Answers, stored' = [stored EXCEPT ![t] = outcome],
         checkpoint'.targets = checkpoint.targets \cup {t},
         checkpoint'.steps = checkpoint.steps,
         checkpoint'.context = Counted(checkpoint.context, t, outcome),
         UNCHANGED pages
  PROVE  Committed'
<1>1. stored \in [Targets -> {NoCall} \cup Answers] /\ checkpoint \in Checkpoint
  BY DEF PlaceInv, RowType
<1>2. \A u \in Targets : stored'[u] = IF u = t THEN outcome ELSE stored[u]
  BY <1>1
<1>3. checkpoint.targets \subseteq Targets /\ checkpoint.context \in Context
  BY <1>1 DEF Checkpoint
<1>4. PICK effect : effect = Effect(t, outcome)
  OBVIOUS
<1>5. effect.fallbacks \in {0, 1} /\ effect.success \in {0, 1} /\ effect.aiFallback \in {0, 1}
      /\ effect.partial \in BOOLEAN
  BY <1>4, Effects
<1>6. /\ Fallbacks' = IF effect.fallbacks = 1 THEN Fallbacks \cup {t} ELSE Fallbacks
      /\ Successes' = IF effect.success = 1 THEN Successes \cup {t} ELSE Successes
      /\ AiFallbacks' = IF effect.aiFallback = 1 THEN AiFallbacks \cup {t} ELSE AiFallbacks
  BY <1>2, <1>3, <1>4 DEF Fallbacks, Successes, AiFallbacks
<1>7. Degraded' <=> Degraded \/ effect.partial
  BY <1>2, <1>3, <1>4 DEF Degraded
<1>8. /\ IsFiniteSet(checkpoint.targets) /\ IsFiniteSet(Fallbacks) /\ IsFiniteSet(Successes)
      /\ IsFiniteSet(AiFallbacks)
  BY FS_Subset DEF Committed, ContextCounts, Fallbacks, Successes, AiFallbacks
<1>9. t \notin Fallbacks /\ t \notin Successes /\ t \notin AiFallbacks
  BY DEF Fallbacks, Successes, AiFallbacks
<1>10. /\ Cardinality(Fallbacks') = Cardinality(Fallbacks) + effect.fallbacks
       /\ Cardinality(Successes') = Cardinality(Successes) + effect.success
       /\ Cardinality(AiFallbacks') = Cardinality(AiFallbacks) + effect.aiFallback
  BY <1>5, <1>6, <1>8, <1>9, TallyGrows
<1>11. /\ checkpoint'.context.fallbacks = checkpoint.context.fallbacks + effect.fallbacks
       /\ checkpoint'.context.success = checkpoint.context.success + effect.success
       /\ checkpoint'.context.aiFallback = checkpoint.context.aiFallback + effect.aiFallback
  BY <1>3, <1>4, CountedFields
<1>12. checkpoint'.context.partial = Degraded'
  <2>1. checkpoint'.context.partial = (checkpoint.context.partial \/ effect.partial)
    BY <1>3, <1>4, CountedFields
  <2>2. checkpoint.context.partial = Degraded
    BY DEF Committed, ContextCounts
  <2>3. Degraded' \in BOOLEAN
    BY DEF Degraded
  <2>4. QED
    BY <1>7, <2>1, <2>2, <2>3
<1>13. IsFiniteSet(checkpoint'.targets)
  BY <1>8, FS_AddElement
<1>14. ContextCounts'
  BY <1>10, <1>11, <1>12, <1>13 DEF Committed, ContextCounts
<1>15. StoredIsCommitted'
  BY <1>2 DEF Committed, StoredIsCommitted, Answers, NoCall
<1>16. DoneStepsAreComplete' /\ PageWithItsStep'
  BY DEF Committed, DoneStepsAreComplete, PageWithItsStep
<1>17. QED
  BY <1>14, <1>15, <1>16 DEF Committed

LEMMA PersistTargetFence ==
  ASSUME PlaceInv, FenceInv, NEW a \in Attempts, PersistTarget(a)
  PROVE  FenceInv'
<1>1. CASE Leave(a) /\ UNCHANGED row
  BY <1>1, LeaveFence
<1>2. PICK t : t = First(a, local[a].queue)
  OBVIOUS
<1>3. CASE /\ local[a].lease \in {holder, Nobody}
           /\ stored' = [stored EXCEPT ![t] = calls[a][t]]
           /\ checkpoint' = IF local[a].lease = Nobody THEN checkpoint ELSE Saved(a, t)
           /\ local' = [local EXCEPT
                          ![a].context = Counted(@, t, calls[a][t]),
                          ![a].copy = Saved(a, t),
                          ![a].queue = @ \ {t}]
           /\ UNCHANGED <<holder, status, pages, pc, calls>>
  <2>1. pc[a] = "calling" /\ local[a].queue # {}
    BY DEF PersistTarget
  <2>2. local[a].lease = a /\ a # Nobody /\ holder = a
    BY <1>3, <2>1 DEF FenceInv, LoadedItsOwn, Attempts, Nobody
  <2>3. UpToDateAt("calling", local[a], calls[a], checkpoint)
    BY <2>1, <2>2 DEF FenceInv, HolderUpToDate
  <2>4. local[a].copy = checkpoint /\ local[a].context = checkpoint.context
        /\ local[a].done = checkpoint.steps
    BY <2>3 DEF UpToDateAt
  <2>5. PICK outcome : outcome = calls[a][t]
    OBVIOUS
  <2>6. /\ t \in Targets /\ outcome \in Answers /\ t \notin checkpoint.targets
        /\ Saved(a, t).steps = checkpoint.steps
        /\ Saved(a, t).targets = checkpoint.targets \cup {t}
        /\ Saved(a, t).context = Counted(checkpoint.context, t, outcome)
    BY <1>2, <2>1, <2>4, <2>5, PersistedTarget
  <2>7. checkpoint' = Saved(a, t)
    BY <1>3, <2>2
  <2>8. Committed'
    BY <1>3, <2>5, <2>6, <2>7, CommitTarget DEF FenceInv
  <2>9. SuccessIsEarned'
    BY <1>3, <2>2 DEF SuccessIsEarned, PlaceInv, RowType
  <2>10. PICK loc : loc = [local[a] EXCEPT !.context = Counted(@, t, calls[a][t]),
                                           !.copy = Saved(a, t), !.queue = @ \ {t}]
    OBVIOUS
  <2>11. loc.step = local[a].step /\ loc.done = local[a].done /\ loc.lease = a
         /\ loc.copy = Saved(a, t) /\ loc.context = Saved(a, t).context
    BY <2>2, <2>4, <2>5, <2>6, <2>10, AttemptFields DEF PlaceInv, Local
  <2>12. UpToDateAt("calling", loc, calls[a], checkpoint')
    <3>1. outcome # "waiting"
      BY <2>6 DEF Answers
    <3>2. QED
      BY <2>3, <2>4, <2>5, <2>6, <2>7, <2>11, <3>1 DEF UpToDateAt
  <2>13. local' = [local EXCEPT ![a] = loc] /\ pc' = pc /\ calls' = calls /\ holder' = a
    BY <1>3, <2>2, <2>10
  <2>14. local'[a] = loc /\ \A b \in Attempts : b # a => local'[b] = local[b]
    BY <2>13 DEF PlaceInv, AttemptType
  <2>15. LoadedItsOwn' /\ HolderUpToDate'
    BY <2>1, <2>11, <2>12, <2>13, <2>14 DEF FenceInv, LoadedItsOwn, HolderUpToDate
  <2>16. QED
    BY <2>8, <2>9, <2>15 DEF FenceInv
<1>4. QED
  BY <1>1, <1>2, <1>3 DEF PersistTarget

\* The targets of a step that ends are in the checkpoint.
LEMMA EndedTargets ==
  ASSUME PlaceInv, FenceInv, NEW a \in Attempts, holder = a, StepIsDone(a)
  PROVE  /\ local[a].done = checkpoint.steps /\ local[a].context = checkpoint.context
         /\ TargetsIn(local[a].step) \subseteq checkpoint.targets
<1>1. UpToDateAt(pc[a], local[a], calls[a], checkpoint) /\ pc[a] \in {"begun", "calling"}
  BY DEF FenceInv, HolderUpToDate, StepIsDone
<1>2. CASE pc[a] = "begun"
  BY <1>1, <1>2 DEF UpToDateAt, StepIsDone, TargetsIn
<1>3. CASE pc[a] = "calling"
  <2>1. local[a].copy = checkpoint
    BY <1>1, <1>3 DEF UpToDateAt
  <2>2. TargetsIn(local[a].step) \subseteq Targets
    BY <1>3, AttemptFields, TargetsOfSteps DEF PlaceInv, PlacedAt
  <2>3. ASSUME NEW t \in TargetsIn(local[a].step) PROVE t \in checkpoint.targets
    <3>1. calls[a][t] \in CallStates /\ t \in Targets
      BY <2>2, AttemptFields DEF PlaceInv
    <3>2. /\ calls[a][t] # "waiting" /\ \A u \in Targets : calls[a][u] # "failed"
          /\ calls[a][t] \in Answers => t \in checkpoint.targets
      BY <1>3, <2>1, <3>1 DEF StepIsDone, Waiting, Failed, Unsaved, Answered
    <3>3. calls[a][t] = NoCall \/ calls[a][t] \in Answers
      BY <3>1, <3>2 DEF CallStates, Answers
    <3>4. QED
      BY <1>1, <1>3, <3>2, <3>3 DEF UpToDateAt
  <2>4. QED
    BY <1>1, <1>3, <2>3 DEF UpToDateAt
<1>4. QED
  BY <1>1, <1>2, <1>3

LEMMA EndStepFence ==
  ASSUME PlaceInv, FenceInv, NEW a \in Attempts, EndStep(a)
  PROVE  FenceInv'
<1>1. CASE LosesLease(a)
  BY <1>1, LeaveFence DEF LosesLease
<1>2. CASE ~LosesLease(a)
  <2>1. StepIsDone(a) /\ local[a].step # "FINALIZE_JOB" /\ holder = a
    BY <1>2 DEF EndStep
  <2>2. PICK done : done = DoneAfter(a)
    OBVIOUS
  <2>3. PICK context \in ContextsAfter(a) :
          /\ CheckpointStep(a, context)
          /\ pages' = pages + One(local[a].step = "BUILD_PAGE_SNAPSHOT" /\ context.page)
    BY <1>2 DEF EndStep
  <2>4. /\ SavedStep(a, context).steps = done /\ SavedStep(a, context).context = context
        /\ SavedStep(a, context).targets = checkpoint.targets /\ local[a].step \notin local[a].done
    BY <2>1, <2>2, <2>3, EndedStep
  <2>5. /\ local[a].done = checkpoint.steps /\ local[a].context = checkpoint.context
        /\ TargetsIn(local[a].step) \subseteq checkpoint.targets
    BY <2>1, EndedTargets
  <2>6. PICK loc : loc = [NewLocal EXCEPT !.context = context, !.done = done,
                                          !.exhausted = local[a].exhausted]
    OBVIOUS
  <2>7. loc.done = done /\ loc.context = context
    BY <2>6 DEF NewLocal
  <2>8. /\ checkpoint' = SavedStep(a, context) /\ local' = [local EXCEPT ![a] = loc]
        /\ calls' = [calls EXCEPT ![a] = NoCalls] /\ pc' = [pc EXCEPT ![a] = "ready"]
        /\ pages' = pages + One(local[a].step = "BUILD_PAGE_SNAPSHOT" /\ context.page)
        /\ UNCHANGED <<holder, status, stored>>
    BY <1>2, <2>2, <2>3, <2>6 DEF EndStep, CheckpointStep, Goto, DoneAfter, SavedStep
  <2>9. \A b \in Attempts : /\ pc'[b] = IF b = a THEN "ready" ELSE pc[b]
                            /\ local'[b] = IF b = a THEN loc ELSE local[b]
    BY <2>8 DEF PlaceInv, AttemptType
  <2>10. LoadedItsOwn' /\ HolderUpToDate'
    BY <2>1, <2>4, <2>7, <2>8, <2>9 DEF FenceInv, LoadedItsOwn, HolderUpToDate, UpToDateAt
  <2>11. done = checkpoint.steps \cup {local[a].step}
    BY <2>2, <2>5 DEF DoneAfter
  <2>12. /\ context.fallbacks = checkpoint.context.fallbacks
         /\ context.success = checkpoint.context.success
         /\ context.aiFallback = checkpoint.context.aiFallback
         /\ context.partial = checkpoint.context.partial
    <3>1. local[a].context \in Context
      BY AttemptFields DEF PlaceInv, Local
    <3>2. QED
      BY <2>5, <2>3, <3>1 DEF ContextsAfter, Context
  <2>13. Fallbacks' = Fallbacks /\ Successes' = Successes /\ AiFallbacks' = AiFallbacks
         /\ Degraded' = Degraded
    BY <2>4, <2>8 DEF Fallbacks, Successes, AiFallbacks, Degraded
  <2>14. ContextCounts'
    BY <2>4, <2>8, <2>12, <2>13 DEF FenceInv, Committed, ContextCounts
  <2>15. StoredIsCommitted' /\ DoneStepsAreComplete'
    BY <2>4, <2>5, <2>8, <2>11
    DEF FenceInv, Committed, StoredIsCommitted, DoneStepsAreComplete
  <2>16. PageWithItsStep'
    BY <2>4, <2>5, <2>8, <2>11 DEF FenceInv, Committed, PageWithItsStep, One
  <2>17. SuccessIsEarned'
    BY <2>1, <2>8 DEF PlaceInv, RowType, SuccessIsEarned, Attempts, Nobody
  <2>18. QED
    BY <2>10, <2>14, <2>15, <2>16, <2>17 DEF FenceInv, Committed
<1>3. QED
  BY <1>1, <1>2

\* The job is a SUCCESS only when no target is missing or degraded.
LEMMA FinalizeFence ==
  ASSUME PlaceInv, FenceInv, NEW a \in Attempts, Finalize(a)
  PROVE  FenceInv'
<1>1. CASE LosesLease(a)
  BY <1>1, LeaveFence DEF LosesLease
<1>2. CASE ~LosesLease(a)
  <2>1. /\ StepIsDone(a) /\ local[a].step = "FINALIZE_JOB" /\ holder = a
        /\ status' = BatchStatus(local[a].context) /\ holder' = Nobody /\ Leave(a)
        /\ UNCHANGED <<checkpoint, stored, pages>>
    BY <1>2 DEF Finalize
  <2>2. Committed' /\ (Degraded' <=> Degraded)
    BY <2>1, CommittedStays DEF FenceInv
  <2>3. local[a].done = checkpoint.steps /\ local[a].context = checkpoint.context
    BY <2>1, EndedTargets
  <2>4. TargetSteps \subseteq checkpoint.steps
    BY <2>1, <2>3, AttemptFields DEF PlaceInv, PlacedAt, StepIsDone
  <2>5. checkpoint.targets = Targets
    <3>1. \A s \in TargetSteps : TargetsIn(s) \subseteq checkpoint.targets
      BY <2>4 DEF FenceInv, Committed, DoneStepsAreComplete
    <3>2. checkpoint.targets \subseteq Targets
      BY DEF PlaceInv, RowType, Checkpoint
    <3>3. QED
      BY <3>1, <3>2 DEF Targets, TargetsIn
  <2>6. status' = "SUCCESS" => ~Degraded
    BY <2>1, <2>3 DEF BatchStatus, FenceInv, Committed, ContextCounts
  <2>7. SuccessIsEarned'
    BY <2>1, <2>2, <2>5, <2>6 DEF SuccessIsEarned
  <2>8. holder' \notin Attempts
    BY <2>1 DEF Attempts, Nobody
  <2>9. QED
    BY <2>1, <2>2, <2>7, <2>8, LeaseFence DEF Leave, Goto
<1>3. QED
  BY <1>1, <1>2

LEMMA ReleaseFence ==
  ASSUME PlaceInv, FenceInv, NEW a \in Attempts, NEW retries \in Nat, Release(a, retries),
         Leave(a)
  PROVE  FenceInv'
<1>1. CASE holder = a
  <2>1. /\ holder' = Nobody /\ status' \in {"FAILED", "PENDING"}
        /\ checkpoint' = [checkpoint EXCEPT !.retries = retries] /\ UNCHANGED <<stored, pages>>
    BY <1>1 DEF Release
  <2>2. checkpoint'.steps = checkpoint.steps /\ checkpoint'.targets = checkpoint.targets
        /\ checkpoint'.context = checkpoint.context
    BY <2>1 DEF PlaceInv, RowType, Checkpoint
  <2>3. Committed'
    BY <2>1, <2>2, CommittedStays DEF FenceInv
  <2>4. SuccessIsEarned' /\ holder' \notin Attempts
    BY <2>1 DEF SuccessIsEarned, Attempts, Nobody
  <2>5. QED
    BY <2>3, <2>4, LeaseFence DEF Leave, Goto
<1>2. CASE holder # a
  BY <1>2, LeaveFence DEF Release
<1>3. QED
  BY <1>1, <1>2

LEMMA RerunFence ==
  ASSUME PlaceInv, FenceInv, NEW a \in Attempts, Rerun(a), UNCHANGED row
  PROVE  FenceInv'
<1>1. PICK loc : loc = [NewLocal EXCEPT !.exhausted = TRUE]
  OBVIOUS
<1>2. UpToDateAt("claimed", loc, NoCalls, checkpoint)
  BY DEF UpToDateAt
<1>3. pc' = [pc EXCEPT ![a] = "claimed"] /\ local' = [local EXCEPT ![a] = loc]
      /\ calls' = [calls EXCEPT ![a] = NoCalls]
  BY <1>1 DEF Rerun, Goto
<1>4. QED
  BY <1>2, <1>3, AttemptFence

LEMMA FenceStep ==
  ASSUME ~StaleLoads
  PROVE  PlaceInv /\ FenceInv /\ [Next]_vars => FenceInv'
<1> SUFFICES ASSUME PlaceInv, FenceInv, [Next]_vars PROVE FenceInv'
  OBVIOUS
<1>1. checkpoint.retries \in Nat
  BY DEF PlaceInv, RowType, Checkpoint
<1>2. ASSUME NEW a \in Attempts, RaiseRetryable(a) PROVE FenceInv'
  <2>1. CASE Release(a, checkpoint.retries + 1) /\ Leave(a)
    BY <1>1, <2>1, ReleaseFence
  <2>2. CASE Rerun(a) /\ UNCHANGED row
    BY <2>2, RerunFence
  <2>3. QED
    BY <1>2, <2>1, <2>2 DEF RaiseRetryable
<1>3. ASSUME NEW a \in Attempts, Run(a) PROVE FenceInv'
  BY <1>2, <1>3, ClaimFence, RestoreFence, BeginStepFence, LoadFence, WakeUpFence,
     PersistTargetFence, EndStepFence, FinalizeFence DEF Run
<1>4. ASSUME NEW a \in Attempts, NEW t \in Targets, Answer(a, t) \/ Fail(a, t)
      PROVE  FenceInv'
  BY <1>4, AnswerFence
<1>5. ASSUME NEW a \in Attempts, RaiseOther(a) PROVE FenceInv'
  BY <1>1, <1>5, ReleaseFence DEF RaiseOther
<1>6. ASSUME NEW a \in Attempts, Stop(a) PROVE FenceInv'
  BY <1>6, LeaveFence DEF Stop
<1>7. CASE UNCHANGED vars
  <2>1. UNCHANGED <<holder, status, checkpoint, stored, pages, pc, local, calls>>
    BY <1>7 DEF vars, row
  <2>2. Committed' /\ SuccessIsEarned'
    BY <2>1, CommittedStays DEF FenceInv, SuccessIsEarned
  <2>3. LoadedItsOwn' /\ HolderUpToDate'
    BY <2>1 DEF FenceInv, LoadedItsOwn, HolderUpToDate
  <2>4. QED
    BY <2>2, <2>3 DEF FenceInv
<1>8. QED
  BY <1>3, <1>4, <1>5, <1>6, <1>7 DEF Next

\* No attempt loads the progress of its successor: then the fence holds.
THEOREM FenceInvariant ==
  ASSUME ~StaleLoads
  PROVE  Spec => [](PlaceInv /\ FenceInv)
<1>1. PlaceInv /\ FenceInv /\ [Next]_vars => PlaceInv' /\ FenceInv'
  BY PlaceStep, FenceStep
<1>2. QED
  BY <1>1, PlaceInit, FenceInit, PTL DEF Spec

\* Every target is counted once in the context of the job, wherever its attempts
\* stopped, and a job that succeeded has every target and none degraded.
THEOREM ContextCorrect ==
  ASSUME ~StaleLoads
  PROVE  Spec => []ContextIsTrue
<1>1. PlaceInv /\ FenceInv => ContextIsTrue
  <2> SUFFICES ASSUME PlaceInv, FenceInv PROVE ContextIsTrue
    OBVIOUS
  <2>1. ContextCounts /\ StoredIsCommitted /\ SuccessIsEarned
    BY DEF FenceInv, Committed
  <2>2. checkpoint.targets \subseteq Targets
    BY DEF PlaceInv, RowType, Checkpoint
  <2>3. QED
    BY <2>1, <2>2
    DEF ContextIsTrue, ContextCounts, StoredIsCommitted, SuccessIsEarned, Fallbacks, Successes,
        AiFallbacks, Degraded
<1>2. QED
  BY <1>1, FenceInvariant, PTL

\* The holder of the lease never calls for a target whose answer is committed.
THEOREM CommittedTargetsAreNotCalled ==
  ASSUME ~StaleLoads
  PROVE  Spec => []NothingPaidTwice
<1>1. PlaceInv /\ FenceInv => NothingPaidTwice
  <2> SUFFICES ASSUME PlaceInv, FenceInv, NEW a \in Attempts, holder = a,
                      NEW t \in Targets, calls[a][t] = "waiting", t \in checkpoint.targets
               PROVE  FALSE
    BY DEF NothingPaidTwice, Waiting
  <2>1. PlacedAt(pc[a], local[a], calls[a]) /\ UpToDateAt(pc[a], local[a], calls[a], checkpoint)
    BY AttemptFields DEF PlaceInv, FenceInv, HolderUpToDate
  <2>2. pc[a] = "calling" /\ t \in TargetsIn(local[a].step)
    BY <2>1, NewAttempt DEF PlacedAt, NoCall
  <2>3. QED
    BY <2>1, <2>2 DEF UpToDateAt
<1>2. QED
  BY <1>1, FenceInvariant, PTL

\* One page version per job: the step that builds it is committed with it.
THEOREM PageBuiltOnce ==
  ASSUME ~StaleLoads
  PROVE  Spec => []OnePagePerJob
<1>1. FenceInv => OnePagePerJob
  BY DEF FenceInv, Committed, PageWithItsStep, One, OnePagePerJob
<1>2. QED
  BY <1>1, FenceInvariant, PTL

\* No retry is counted and no attempt is sent back by the other steps.
LEMMA OtherStepsAreQuiet ==
  ASSUME PlaceInv, FenceInv, Next, \A a \in Attempts : ~RaiseRetryable(a)
  PROVE  /\ checkpoint'.retries = checkpoint.retries
         /\ \A b \in Attempts : pc[b] = "calling" => pc'[b] # "claimed"
<1> DEFINE Quiet == /\ checkpoint'.retries = checkpoint.retries
                    /\ \A b \in Attempts : pc[b] = "calling" => pc'[b] # "claimed"
<1>1. ASSUME NEW a \in Attempts, NEW place \in Places, Goto(a, place),
             place = "claimed" => pc[a] # "calling"
      PROVE  \A b \in Attempts : pc[b] = "calling" => pc'[b] # "claimed"
  BY <1>1 DEF PlaceInv, AttemptType, Goto
<1>2. ASSUME NEW a \in Attempts, Leave(a), UNCHANGED row PROVE Quiet
  BY <1>1, <1>2 DEF Leave, Places, row
<1>3. ASSUME NEW a \in Attempts, Claim(a) \/ Restore(a) \/ BeginStep(a) \/ Load(a)
      PROVE  Quiet
  BY <1>1, <1>2, <1>3 DEF Claim, Restore, BeginStep, LosesLease, Load, Places, row
<1>4. ASSUME NEW a \in Attempts,
             WakeUp(a) \/ (\E t \in Targets : Answer(a, t) \/ Fail(a, t))
      PROVE  Quiet
  BY <1>4 DEF WakeUp, Answer, Fail, row
<1>5. ASSUME NEW a \in Attempts, PersistTarget(a) PROVE Quiet
  <2>1. CASE Leave(a) /\ UNCHANGED row
    BY <1>2, <2>1
  <2>2. PICK t : t = First(a, local[a].queue)
    OBVIOUS
  <2>3. CASE /\ local[a].lease \in {holder, Nobody}
             /\ checkpoint' = IF local[a].lease = Nobody THEN checkpoint ELSE Saved(a, t)
             /\ UNCHANGED <<holder, status, pages, pc, calls>>
    <3>1. pc[a] = "calling" /\ local[a].queue # {}
      BY <1>5 DEF PersistTarget
    <3>2. local[a].lease = a /\ a # Nobody /\ holder = a
      BY <2>3, <3>1 DEF FenceInv, LoadedItsOwn, Attempts, Nobody
    <3>3. local[a].copy = checkpoint
      BY <3>1, <3>2 DEF FenceInv, HolderUpToDate, UpToDateAt
    <3>4. Saved(a, t).retries = checkpoint.retries
      BY <2>2, <3>1, <3>3, PersistedTarget
    <3>5. QED
      BY <2>3, <3>2, <3>4
  <2>4. QED
    BY <1>5, <2>1, <2>2, <2>3 DEF PersistTarget
<1>6. ASSUME NEW a \in Attempts, EndStep(a) PROVE Quiet
  <2>1. CASE LosesLease(a)
    BY <1>2, <2>1 DEF LosesLease
  <2>2. CASE ~LosesLease(a)
    <3>1. PICK context \in ContextsAfter(a) :
            checkpoint' = SavedStep(a, context) /\ Goto(a, "ready")
      BY <1>6, <2>2 DEF EndStep, CheckpointStep, DoneAfter, SavedStep
    <3>2. SavedStep(a, context).retries = checkpoint.retries
      BY <1>6, EndedStep DEF EndStep
    <3>3. QED
      BY <1>1, <3>1, <3>2 DEF Places
  <2>3. QED
    BY <2>1, <2>2
<1>7. ASSUME NEW a \in Attempts, Finalize(a) PROVE Quiet
  BY <1>1, <1>2, <1>7 DEF Finalize, LosesLease, Leave, Places
<1>8. ASSUME NEW a \in Attempts, RaiseOther(a) PROVE Quiet
  <2>1. PICK retries \in Nat : retries = checkpoint.retries
    BY DEF PlaceInv, RowType, Checkpoint
  <2>2. checkpoint' = checkpoint \/ checkpoint' = [checkpoint EXCEPT !.retries = retries]
    BY <1>8, <2>1 DEF RaiseOther, Release, row
  <2>3. checkpoint'.retries = checkpoint.retries
    BY <2>1, <2>2 DEF PlaceInv, RowType, Checkpoint
  <2>4. QED
    BY <1>1, <1>8, <2>3 DEF RaiseOther, Leave, Places
<1>9. ASSUME NEW a \in Attempts, Stop(a) PROVE Quiet
  BY <1>2, <1>9 DEF Stop
<1>10. QED
  BY <1>3, <1>4, <1>5, <1>6, <1>7, <1>8, <1>9 DEF Next, Run

\* A target that fails takes no answer with it: when the holder is rescheduled or
\* rerun for a retryable error, what had been answered is committed.
THEOREM SiblingsAreKept ==
  ASSUME ~StaleLoads
  PROVE  Spec => AnswersAreKept
<1> DEFINE Kept ==
      \A a \in Attempts :
        /\ holder = a /\ Failed(a) # {}
        /\ checkpoint'.retries > checkpoint.retries \/ pc'[a] = "claimed"
        => Answered(a) \subseteq checkpoint.targets
<1>1. PlaceInv /\ FenceInv /\ [Next]_vars => [Kept]_vars
  <2> SUFFICES ASSUME PlaceInv, FenceInv, Next, NEW b \in Attempts, holder = b,
                      Failed(b) # {},
                      checkpoint'.retries > checkpoint.retries \/ pc'[b] = "claimed"
               PROVE  Answered(b) \subseteq checkpoint.targets
    OBVIOUS
  <2>1. pc[b] = "calling"
    BY AttemptFields, NewAttempt DEF PlaceInv, PlacedAt, Failed, NoCall
  <2>2. checkpoint.retries \in Nat
    BY DEF PlaceInv, RowType, Checkpoint
  <2>3. PICK a \in Attempts : RaiseRetryable(a)
    BY <2>1, <2>2, OtherStepsAreQuiet
  <2>4. a = b
    <3>1. ASSUME a # b PROVE FALSE
      <4>1. pc'[b] = pc[b]
        BY <2>3, <3>1 DEF RaiseRetryable, Leave, Rerun, Goto, PlaceInv, AttemptType
      <4>2. UNCHANGED checkpoint
        BY <2>3, <3>1 DEF RaiseRetryable, Release, row
      <4>3. QED
        BY <2>1, <2>2, <4>1, <4>2
    <3>2. QED
      BY <3>1
  <2>5. local[b].copy = checkpoint
    BY <2>1 DEF FenceInv, HolderUpToDate, UpToDateAt
  <2>6. QED
    BY <2>3, <2>4, <2>5 DEF RaiseRetryable, Unsaved
<1>2. QED
  BY <1>1, FenceInvariant, PTL DEF Spec, AnswersAreKept
=============================================================================
