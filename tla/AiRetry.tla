------------------------------- MODULE AiRetry -------------------------------
(***************************************************************************)
(* The AI summary retry of one market-daily job (app/batch/ai_retry/,      *)
(* app/db/repositories/ai_retry_repo.py, ai_summary_write_repo.py): retry  *)
(* jobs that regenerate the unresolved summaries of the job and publish    *)
(* what they recovered as new versions of its page.                        *)
(*                                                                         *)
(* Every action ends in the commit of one transaction of the orchestrator, *)
(* whose fence (JobQueue) keeps a former attempt from committing: a job    *)
(* has one runner at a time.  Text, models and titles are left out; a      *)
(* summary is what the resolver and the page builder tell apart.           *)
(*                                                                         *)
(* An operator Name_Variant is a wrong version of Name, kept to show that  *)
(* the properties below notice it; nothing here uses it.                   *)
(***************************************************************************)
EXTENDS Integers, Sequences, FiniteSets, FiniteSetsExt

CONSTANTS
  SourceJob,      \* the market-daily job
  RetryJobs,      \* ids of the AI_RETRY jobs
  Targets,        \* target keys of the source job
  GlobalHeadline, \* the one whose row also carries the key points
  DetailTargets,  \* CLUSTER_DETAIL_ANALYSIS targets, which no page issue names
  SourceQuality,  \* SourceQuality[t]: what the source job produced
  BaseIssue,      \* the source page has an issue other than AI_SUMMARY
  OneRunner,      \* one worker drains the queue: no two jobs run at once
  MaxAttempts     \* max_attempts of a retry job

\* "issue": SUCCESS with a keyPointIssue, which only the headline can have;
\* "failed": FALLBACK or FAILED.
Qualities == {"failed", "issue", "success"}

ASSUME AiRetryAssumption ==
  /\ IsFiniteSet(RetryJobs)
  /\ SourceJob \notin RetryJobs
  /\ DetailTargets \subseteq Targets \ {GlobalHeadline}
  /\ SourceQuality \in [Targets -> Qualities]
  /\ \A t \in Targets : SourceQuality[t] = "issue" => t = GlobalHeadline
  /\ BaseIssue \in BOOLEAN
  /\ OneRunner \in BOOLEAN
  /\ MaxAttempts \in Nat \ {0}

VARIABLES
  rows,        \* ai_summary: rows[k][t] is the row of job k for target t
  pages,       \* market_daily_page: version v is pages[v]
  status,      \* batch_job.status of the retry jobs
  attempts,    \* attempt_count
  checkpoint,  \* the page version in checkpoint_json, NoPage when it has none
  result,      \* the job's final page_version_no
  \* the running attempt
  pc,
  seen,        \* lineage: the rows as the attempt knows them
  todo,        \* selections not generated yet
  page         \* the page the attempt took from the checkpoint or built

stored == <<rows, pages, status, attempts, checkpoint, result>>
vars == <<stored, pc, seen, todo, page>>

NoPage == 0
NoRow == [quality |-> "none", attempt |-> 0, stamp |-> 0, source |-> SourceJob]
AllJobs == {SourceJob} \cup RetryJobs
Lineage == [AllJobs -> [Targets -> [quality : Qualities \cup {"none"},
                                    attempt : Nat, stamp : Nat,
                                    source : AllJobs]]]
Ended == {"SUCCESS", "PARTIAL", "FAILED"}

TypeOK ==
  /\ rows \in Lineage
  /\ pages \in Seq([job : RetryJobs, shows : SUBSET Targets, ready : BOOLEAN])
  /\ status \in [RetryJobs -> {"ABSENT", "PENDING", "RUNNING"} \cup Ended]
  /\ attempts \in [RetryJobs -> 0 .. MaxAttempts]
  /\ checkpoint \in [RetryJobs -> NoPage .. Len(pages)]
  /\ result \in [RetryJobs -> NoPage .. Len(pages)]
  /\ pc \in [RetryJobs -> {"idle", "select", "generate", "build", "finalize"}]
  /\ seen \in [RetryJobs -> Lineage]
  /\ todo \in [RetryJobs -> SUBSET Targets]
  /\ page \in [RetryJobs -> NoPage .. Len(pages)]

NoRows == [t \in Targets |-> NoRow]
SourceRows == [t \in Targets |-> [quality |-> SourceQuality[t], attempt |-> 1,
                                  stamp |-> 1, source |-> SourceJob]]
InitialRows == [k \in AllJobs |-> IF k = SourceJob THEN SourceRows ELSE NoRows]

Init ==
  /\ rows = InitialRows
  /\ pages = <<>>
  /\ status = [j \in RetryJobs |-> "ABSENT"]
  /\ attempts = [j \in RetryJobs |-> 0]
  /\ checkpoint = [j \in RetryJobs |-> NoPage]
  /\ result = [j \in RetryJobs |-> NoPage]
  /\ pc = [j \in RetryJobs |-> "idle"]
  /\ seen = [j \in RetryJobs |-> InitialRows]
  /\ todo = [j \in RetryJobs |-> {}]
  /\ page = [j \in RetryJobs |-> NoPage]
-----------------------------------------------------------------------------
(***************************************************************************)
(* The resolver.                                                           *)
(***************************************************************************)
Exists(row) == row.quality # "none"
IsSuccessful(row) == row.quality \in {"issue", "success"}
IsResolved(row) == row.quality = "success"

Older(r, s) == r.attempt < s.attempt \/ (r.attempt = s.attempt /\ r.stamp <= s.stamp)

\* resolve_effective_summaries: successful rows first, then the newest attempt
\* (attempt_no, generated_at).
Effective(lineage, t) ==
  LET present == {k \in AllJobs : Exists(lineage[k][t])}
      good == {k \in present : IsSuccessful(lineage[k][t])}
      pool == IF good # {} THEN good ELSE present
  IN  lineage[CHOOSE k \in pool : \A i \in pool : Older(lineage[i][t], lineage[k][t])][t]

Unresolved(lineage) == {t \in Targets : ~IsResolved(Effective(lineage, t))}

Selected_OwnRowsOnly(j, lineage) == {t \in Targets : ~IsResolved(lineage[j][t])}

\* select_retry_targets.
Selected(j, lineage) == {t \in Unresolved(lineage) : ~IsResolved(lineage[j][t])}

Recovered(j, lineage) ==
  {t \in Targets : /\ Exists(lineage[j][t])
                   /\ ~IsResolved(lineage[SourceJob][t])
                   /\ IsResolved(Effective(lineage, t))}

\* The job whose row a generation starts from: for a row of the job's own, the
\* one that row was generated from; otherwise that of the effective row.
RetrySource(j, lineage, t) ==
  IF Exists(lineage[j][t]) THEN lineage[j][t].source
  ELSE CHOOSE k \in AllJobs : lineage[k][t] = Effective(lineage, t)

\* What the provider can make of target t.  A headline that only lacks key
\* points keeps its text and status; only its key points are generated again.
Outcomes(j, lineage, t) ==
  IF t # GlobalHeadline THEN {"failed", "success"}
  ELSE IF \/ lineage[RetrySource(j, lineage, t)][t].quality = "issue"
          \/ lineage[j][t].quality = "issue"
       THEN {"issue", "success"}
       ELSE Qualities

NewRow(j, lineage, t, quality) ==
  LET source == RetrySource(j, lineage, t)
      others == {rows[k][t].stamp : k \in AllJobs \ {j}}
  IN
  [quality |-> quality,
   attempt |-> IF Exists(lineage[j][t]) THEN lineage[j][t].attempt
               ELSE lineage[source][t].attempt + 1,
   stamp |-> 1 + Max(others),
   source |-> source]
-----------------------------------------------------------------------------
(***************************************************************************)
(* The queue around the attempts.                                          *)
(***************************************************************************)
Enqueue(j) ==
  /\ status[j] = "ABSENT"
  /\ status' = [status EXCEPT ![j] = "PENDING"]
  /\ UNCHANGED <<rows, pages, attempts, checkpoint, result, pc, seen, todo, page>>

CountAttempt_Forgotten(j) == attempts' = attempts

CountAttempt(j) == attempts' = [attempts EXCEPT ![j] = @ + 1]

\* The job is claimed and its row read: the page of an earlier attempt is what
\* the checkpoint says before this attempt writes any.
Start(j) ==
  /\ status[j] = "PENDING"
  /\ OneRunner => \A i \in RetryJobs : status[i] # "RUNNING"
  /\ status' = [status EXCEPT ![j] = "RUNNING"]
  /\ CountAttempt(j)
  /\ pc' = [pc EXCEPT ![j] = "select"]
  /\ page' = [page EXCEPT ![j] = checkpoint[j]]
  /\ UNCHANGED <<rows, pages, checkpoint, result, seen, todo>>

Requeued(j) == IF attempts[j] < MaxAttempts THEN "PENDING" ELSE "FAILED"

EndAttempt(j, next) ==
  /\ status' = [status EXCEPT ![j] = next]
  /\ pc' = [pc EXCEPT ![j] = "idle"]
  /\ todo' = [todo EXCEPT ![j] = {}]
  /\ seen' = [seen EXCEPT ![j] = InitialRows]
  /\ page' = [page EXCEPT ![j] = NoPage]

\* The process dies, the lease is lost, the provider asks for a retry or the
\* step fails: what the open transaction did is rolled back.
Interrupt(j) ==
  /\ pc[j] # "idle"
  /\ EndAttempt(j, Requeued(j))
  /\ UNCHANGED <<rows, pages, attempts, checkpoint, result>>
-----------------------------------------------------------------------------
(***************************************************************************)
(* One attempt.                                                            *)
(***************************************************************************)
ReadLineage_SourceAndOwn(j) ==
  [k \in AllJobs |-> IF k \in {j, SourceJob} THEN rows[k] ELSE NoRows]

\* list_retry_lineage_summaries: the source job and every retry of it.
ReadLineage(j) == rows

\* The checkpoint of each step replaces the object of the step before.
Checkpoint(j, version) == checkpoint' = [checkpoint EXCEPT ![j] = version]

SelectTargets(j) ==
  /\ pc[j] = "select"
  /\ seen' = [seen EXCEPT ![j] = ReadLineage(j)]
  /\ todo' = [todo EXCEPT ![j] = Selected(j, ReadLineage(j))]
  /\ Checkpoint(j, NoPage)
  /\ pc' = [pc EXCEPT ![j] = "generate"]
  /\ UNCHANGED <<rows, pages, status, attempts, result, page>>

\* upsert_retry_summary: a successful row of the same job is preserved.
Persisted(j, t, quality) ==
  IF IsSuccessful(rows[j][t]) THEN rows[j][t] ELSE NewRow(j, seen[j], t, quality)

Generate(j, t, quality) ==
  /\ pc[j] = "generate"
  /\ t \in todo[j]
  /\ quality \in Outcomes(j, seen[j], t)
  /\ rows' = [rows EXCEPT ![j][t] = Persisted(j, t, quality)]
  /\ seen' = [seen EXCEPT ![j][j][t] = Persisted(j, t, quality)]
  /\ todo' = [todo EXCEPT ![j] = @ \ {t}]
  /\ Checkpoint(j, NoPage)
  /\ UNCHANGED <<pages, status, attempts, result, pc, page>>

NeedsPage(j) == Recovered(j, seen[j]) # {} /\ page[j] = NoPage

Generated(j) ==
  /\ pc[j] = "generate"
  /\ todo[j] = {}
  /\ pc' = [pc EXCEPT ![j] = IF NeedsPage(j) THEN "build" ELSE "finalize"]
  /\ UNCHANGED <<stored, seen, todo, page>>

NextVersion == Len(pages) + 1

IsReady(lineage) == ~BaseIssue /\ Unresolved(lineage) \subseteq DetailTargets

BuildPage(j) ==
  /\ pc[j] = "build"
  /\ pages' = Append(pages, [job |-> j,
                             shows |-> Targets \ Unresolved(seen[j]),
                             ready |-> IsReady(seen[j])])
  /\ page' = [page EXCEPT ![j] = NextVersion]
  /\ Checkpoint(j, NextVersion)
  /\ pc' = [pc EXCEPT ![j] = "finalize"]
  /\ UNCHANGED <<rows, status, attempts, result, seen, todo>>

TerminalStatus_PageDecides(j) ==
  IF page[j] # NoPage /\ ~pages[page[j]].ready THEN "PARTIAL" ELSE "SUCCESS"

TerminalStatus(j) ==
  IF \/ Unresolved(seen[j]) # {}
     \/ page[j] # NoPage /\ ~pages[page[j]].ready
  THEN "PARTIAL" ELSE "SUCCESS"

Finalize(j) ==
  /\ pc[j] = "finalize"
  /\ result' = [result EXCEPT ![j] = page[j]]
  /\ EndAttempt(j, TerminalStatus(j))
  /\ UNCHANGED <<rows, pages, attempts, checkpoint>>

Advance(j) ==
  \/ Start(j) \/ SelectTargets(j)
  \/ \E t \in Targets, quality \in Qualities : Generate(j, t, quality)
  \/ Generated(j) \/ BuildPage(j) \/ Finalize(j)

Work == \E j \in RetryJobs : Advance(j)

Next == Work \/ \E j \in RetryJobs : Enqueue(j) \/ Interrupt(j)

\* The drain goes on while a job is queued; a job is interrupted only as often
\* as it may be claimed.
Spec == Init /\ [][Next]_vars /\ WF_vars(Work)
-----------------------------------------------------------------------------
(***************************************************************************)
(* Properties of retries that run one at a time (OneRunner).               *)
(***************************************************************************)
Rank(quality) == CASE quality = "success" -> 2 [] quality = "issue" -> 1 [] OTHER -> 0

\* What a target effectively shows never gets worse, whatever later retries,
\* crashes and resumes of interrupted retries produce (resolver.py,
\* upsert_retry_summary).
EffectiveNeverRegresses ==
  [][\A t \in Targets :
       Rank(Effective(rows, t).quality) <= Rank(Effective(rows', t).quality)]_vars

LatestShows == IF pages = <<>> THEN {} ELSE pages[Len(pages)].shows

\* A new page version shows every recovered summary the version before it
\* shows, also when another retry published that one (AiRetryPageBuilder.build).
LatestPageKeepsRecoveries == [][LatestShows \subseteq LatestShows']_vars

\* No provider call is spent on a target that a committed row has resolved,
\* not even by an attempt that resumes behind another retry job
\* (select_retry_targets).
NoWastedCalls ==
  \A j \in RetryJobs : todo[j] \subseteq Unresolved(rows)

\* A job that reports SUCCESS left nothing unresolved, and the page it reports
\* shows everything (_terminal_status).
SuccessIsTrue ==
  \A j \in RetryJobs :
    status[j] = "SUCCESS" =>
      /\ Unresolved(rows) = {}
      /\ result[j] # NoPage => pages[result[j]].ready

\* A queued retry ends: every attempt gets through its targets or is
\* interrupted, and the queue bounds the interruptions.
EveryRetryEnds ==
  \A j \in RetryJobs : status[j] = "PENDING" ~> status[j] \in Ended
=============================================================================
