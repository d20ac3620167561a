------------------------------ MODULE LlmClient ------------------------------
(***************************************************************************)
(* The Gemini client every LLM step shares on one event loop: the window   *)
(* of requests, the window of input tokens, the circuit that opens on      *)
(* configuration errors, and the life of one call through them             *)
(* (app/core/llm.py, app/batch/providers/llm_provider.py).                 *)
(*                                                                         *)
(* Times are ages in ticks, so the model needs no last clock reading.  An  *)
(* asyncio.Lock is first come, first served and both limiters sleep with   *)
(* their lock held: the head of a queue is the coroutine that holds the    *)
(* lock.  What prompts and answers say is left out.  (LC marks the names   *)
(* every specification has, so that one module can prove facts of two.)    *)
(***************************************************************************)
EXTENDS Integers, Sequences, FiniteSets, SequencesExt

CONSTANTS
  Calls,            \* the calls made while the loop runs
  Kind,             \* Kind[c]: the BatchLlmProvider method that makes call c
  BaseTokens,       \* BaseTokens[c]: estimate of the prompt without articles
  ArticleTokens,    \* ArticleTokens[c]: estimate of each article, best first
  Actuals,          \* input tokens a usage report may name
  Rpm,              \* llm_requests_per_minute
  Tpm,              \* llm_tokens_per_minute
  Window,           \* window_seconds, in ticks
  Concurrency,      \* llm_concurrency_limit
  Threshold,        \* llm_config_error_circuit_threshold
  Reset,            \* llm_config_error_circuit_reset_seconds, in ticks
  MaxCallAttempts,  \* llm_call_max_attempts
  Backoffs,         \* the delays _call_retry_delay can return, in ticks
  Exhausted         \* the job runs in llm_retry_exhausted_mode

FittedKinds == {"enrich", "classify", "card", "detail"}
Kinds == FittedKinds \cup {"market", "headline", "keyPoints"}

ASSUME LlmClientAssumption ==
  /\ IsFiniteSet(Calls)
  /\ Kind \in [Calls -> Kinds]
  /\ BaseTokens \in [Calls -> Nat \ {0}]
  /\ ArticleTokens \in [Calls -> Seq(Nat)]
  /\ Actuals \subseteq Nat
  /\ {Rpm, Tpm, Window, Concurrency, Threshold, Reset, MaxCallAttempts} \subseteq Nat \ {0}
  /\ Backoffs \subseteq Nat
  /\ Exhausted \in BOOLEAN

VARIABLES
  pc,             \* where each call is in invoke_json
  attempt,        \* requests the call has sent
  wait,           \* ticks left of its backoff
  usage,          \* the input tokens its answer reported
  slotQueue,      \* waiting for the rate limiter's lock
  slots,          \* _request_times, as ages
  tokenQueue,     \* waiting for the token limiter's lock
  reservations,   \* _reservations: what each call that is in the deque holds
  reserved,       \* _reserved_tokens
  rejections,     \* _consecutive_rejections
  openFor,        \* age of _opened_at, Closed when None
  granted,        \* history: ages of the requests granted in the last window
  spent           \* history: age and tokens of the last reservation of a call

rateLimiter == <<slotQueue, slots>>
tokenLimiter == <<tokenQueue, reservations, reserved>>
circuit == <<rejections, openFor>>
calls == <<pc, attempt, wait, usage>>
lcVars == <<calls, rateLimiter, tokenLimiter, circuit, granted, spent>>

Closed == -1
NotSpent == [age |-> Window, tokens |-> 0]
InFlight == {"slot", "tokens", "sent", "backoff", "reconcile"}

LCTypeOK ==
  /\ pc \in [Calls -> {"idle", "ended"} \cup InFlight]
  /\ attempt \in [Calls -> Nat]
  /\ wait \in [Calls -> Nat]
  /\ usage \in [Calls -> Nat]
  /\ slotQueue \in Seq(Calls)
  /\ slots \in Seq(Nat)
  /\ tokenQueue \in Seq(Calls)
  /\ DOMAIN reservations \subseteq Calls
  /\ reservations \in [DOMAIN reservations -> [age : Nat, tokens : Nat]]
  /\ reserved \in Nat
  /\ rejections \in Nat
  /\ openFor \in {Closed} \cup Nat
  /\ granted \in Seq(Nat)
  /\ spent \in [Calls -> [age : Nat, tokens : Nat]]

LCInit ==
  /\ pc = [c \in Calls |-> "idle"]
  /\ attempt = [c \in Calls |-> 0]
  /\ wait = [c \in Calls |-> 0]
  /\ usage = [c \in Calls |-> 0]
  /\ slotQueue = <<>> /\ slots = <<>>
  /\ tokenQueue = <<>> /\ reservations = <<>> /\ reserved = 0
  /\ rejections = 0 /\ openFor = Closed
  /\ granted = <<>>
  /\ spent = [c \in Calls |-> NotSpent]

\* A coroutine waits for a lock once.
Without(queue, c) == RemoveFirst(queue, c)
Goto(c, place) == pc' = [pc EXCEPT ![c] = place]

\* The coroutine returned or raised: it is gone, with its local variables.
End(c) ==
  /\ Goto(c, "ended")
  /\ attempt' = [attempt EXCEPT ![c] = 0]
  /\ wait' = [wait EXCEPT ![c] = 0]
  /\ usage' = [usage EXCEPT ![c] = 0]
-----------------------------------------------------------------------------
(***************************************************************************)
(* The size of a prompt.                                                   *)
(***************************************************************************)
SumOf(f, S) == MapThenSumSet(LAMBDA x : f[x], S)

PromptTokens(c, count) == BaseTokens[c] + SumOf(ArticleTokens[c], 1 .. count)

\* _fit_articles_prompt: binary search for the number of articles that fit.
FitArticles(c) ==
  LET all == Len(ArticleTokens[c])
      Fits(count) == PromptTokens(c, count) <= Tpm
      Search[bounds \in (0 .. all) \X (0 .. all)] ==
        LET low == bounds[1]
            high == bounds[2]
            mid == (low + high + 1) \div 2
        IN  IF low >= high THEN low
            ELSE IF Fits(mid) THEN Search[<<mid, high>>] ELSE Search[<<low, mid - 1>>]
  IN  IF Fits(all) THEN all ELSE Search[<<0, all>>]

Kept(c) == IF Kind[c] \in FittedKinds THEN FitArticles(c) ELSE Len(ArticleTokens[c])

Estimate(c) == PromptTokens(c, Kept(c))
-----------------------------------------------------------------------------
(***************************************************************************)
(* The circuit.                                                            *)
(***************************************************************************)
Allows == openFor = Closed \/ openFor >= Reset

\* allow_request when it answers TRUE: one rejection short of the threshold
\* once the reset window has passed.
HalfOpen ==
  /\ openFor' = Closed
  /\ rejections' = IF openFor = Closed THEN rejections ELSE Threshold - 1

RecordSuccess == rejections' = 0 /\ openFor' = Closed

RecordRejection_NeverOpens == rejections' = rejections + 1 /\ openFor' = openFor

RecordRejection ==
  /\ rejections' = rejections + 1
  /\ openFor' = IF openFor = Closed /\ rejections + 1 >= Threshold THEN 0 ELSE openFor
-----------------------------------------------------------------------------
(***************************************************************************)
(* A call up to its first request.                                         *)
(***************************************************************************)
\* The semaphore of the step is free.
Admitted == Cardinality({c \in Calls : pc[c] \in InFlight}) < Concurrency

Begin(c) ==
  /\ pc[c] = "idle"
  /\ Admitted
  /\ Allows
  /\ HalfOpen
  /\ slotQueue' = Append(slotQueue, c)
  /\ Goto(c, "slot")
  /\ UNCHANGED <<attempt, wait, usage, slots, tokenLimiter, granted, spent>>

\* The circuit is open, or no API key is configured.
Refused(c) ==
  /\ pc[c] = "idle"
  /\ Admitted
  /\ \/ ~Allows /\ UNCHANGED circuit
     \/ Allows /\ HalfOpen
  /\ End(c)
  /\ UNCHANGED <<rateLimiter, tokenLimiter, granted, spent>>

\* The ages are in the order of the requests: the oldest are dropped while they
\* have reached the limit.
Since(ages, limit) ==
  LET dropped == CHOOSE n \in 0 .. Len(ages) :
                   /\ \A i \in 1 .. n : ages[i] >= limit
                   /\ n < Len(ages) => ages[n + 1] < limit
  IN  SubSeq(ages, dropped + 1, Len(ages))

Live_KeepsEdge(ages) == Since(ages, Window - 1)

\* The timestamps that pruning leaves in the deque.
Live(ages) == Since(ages, Window)

TooLarge_Never(c) == FALSE
TooLarge(c) == Estimate(c) > Tpm

\* A slot is free for the head of the queue: its first request goes on to the
\* token limiter, which rejects an estimate above the limit at once; a retry is
\* sent.
GrantSlot(c) ==
  /\ slotQueue # <<>> /\ c = Head(slotQueue)
  /\ pc[c] = "slot"
  /\ Len(Live(slots)) < Rpm
  /\ slots' = Append(Live(slots), 0)
  /\ slotQueue' = Tail(slotQueue)
  /\ granted' = Append(granted, 0)
  /\ \/ /\ attempt[c] > 0
        /\ attempt' = [attempt EXCEPT ![c] = @ + 1]
        /\ Goto(c, "sent")
        /\ UNCHANGED <<wait, usage, tokenQueue>>
     \/ /\ attempt[c] = 0 /\ ~TooLarge(c)
        /\ Goto(c, "tokens")
        /\ tokenQueue' = Append(tokenQueue, c)
        /\ UNCHANGED <<attempt, wait, usage>>
     \/ /\ attempt[c] = 0 /\ TooLarge(c)
        /\ End(c)
        /\ UNCHANGED tokenQueue
  /\ UNCHANGED <<reservations, reserved, circuit, spent>>

\* The deque is in the order of the reservations: what pruning pops is what has
\* expired.
Popped == {c \in DOMAIN reservations : reservations[c].age >= Window}
LiveReservations == Restrict(reservations, DOMAIN reservations \ Popped)

TokensOf(rs, S) == SumOf([c \in DOMAIN rs |-> rs[c].tokens], S)

\* _reserved_tokens once the expired reservations are popped.
Pruned == reserved - TokensOf(reservations, Popped)

\* A call reserves once: its retries reissue the same request.
WithReservation(c) ==
  [d \in DOMAIN LiveReservations \cup {c} |->
     IF d = c THEN [age |-> 0, tokens |-> Estimate(c)] ELSE LiveReservations[d]]

GrantTokens(c) ==
  /\ tokenQueue # <<>> /\ c = Head(tokenQueue)
  /\ pc[c] = "tokens"
  /\ Pruned + Estimate(c) <= Tpm
  /\ reservations' = WithReservation(c)
  /\ reserved' = Pruned + Estimate(c)
  /\ tokenQueue' = Tail(tokenQueue)
  /\ attempt' = [attempt EXCEPT ![c] = 1]
  /\ Goto(c, "sent")
  /\ spent' = [spent EXCEPT ![c] = [age |-> 0, tokens |-> Estimate(c)]]
  /\ UNCHANGED <<wait, usage, rateLimiter, circuit, granted>>
-----------------------------------------------------------------------------
(***************************************************************************)
(* The provider's verdict on a request.                                    *)
(***************************************************************************)
\* It answers; the text may still be no JSON object.
Answer(c) ==
  /\ pc[c] = "sent"
  /\ RecordSuccess
  /\ \/ /\ End(c)
        /\ UNCHANGED <<tokenQueue, spent>>
     \/ /\ \E tokens \in Actuals :
             /\ usage' = [usage EXCEPT ![c] = tokens]
             /\ spent' = [spent EXCEPT ![c].tokens = tokens]
        /\ tokenQueue' = Append(tokenQueue, c)
        /\ Goto(c, "reconcile")
        /\ UNCHANGED <<attempt, wait>>
  /\ UNCHANGED <<rateLimiter, reservations, reserved, granted>>

Reconcile_Frees(c) == reserved' = Pruned - reservations[c].tokens

\* The usage replaces the estimate, if the reservation is still in the window.
Reconcile(c) == reserved' = Pruned + usage[c] - reservations[c].tokens

ReportUsage(c) ==
  /\ tokenQueue # <<>> /\ c = Head(tokenQueue)
  /\ pc[c] = "reconcile"
  /\ \/ /\ c \notin DOMAIN LiveReservations
        /\ reservations' = LiveReservations
        /\ reserved' = Pruned
     \/ /\ c \in DOMAIN LiveReservations
        /\ reservations' = [LiveReservations EXCEPT ![c].tokens = usage[c]]
        /\ Reconcile(c)
  /\ tokenQueue' = Tail(tokenQueue)
  /\ End(c)
  /\ UNCHANGED <<rateLimiter, circuit, granted, spent>>

\* 401, 403 or 404.
ConfigurationError(c) ==
  /\ pc[c] = "sent"
  /\ RecordRejection
  /\ End(c)
  /\ UNCHANGED <<rateLimiter, tokenLimiter, granted, spent>>

\* An error that is not reissued: a 400, say, or the 429 and the timeout that are
\* left to the durable worker.
OtherError(c) ==
  /\ pc[c] = "sent"
  /\ End(c)
  /\ UNCHANGED <<rateLimiter, tokenLimiter, circuit, granted, spent>>

\* A 5xx or a transport error: reissued in place while attempts are left.
TransientError(c) ==
  /\ pc[c] = "sent"
  /\ \/ /\ ~Exhausted /\ attempt[c] < MaxCallAttempts
        /\ \E delay \in Backoffs : wait' = [wait EXCEPT ![c] = delay]
        /\ Goto(c, "backoff")
        /\ UNCHANGED <<attempt, usage>>
     \/ /\ Exhausted \/ attempt[c] >= MaxCallAttempts
        /\ End(c)
  /\ UNCHANGED <<rateLimiter, tokenLimiter, circuit, granted, spent>>

BackoffEnds(c) ==
  /\ pc[c] = "backoff"
  /\ wait[c] = 0
  /\ slotQueue' = Append(slotQueue, c)
  /\ Goto(c, "slot")
  /\ UNCHANGED <<attempt, wait, usage, slots, tokenLimiter, circuit, granted, spent>>

Verdict(c) ==
  Answer(c) \/ ConfigurationError(c) \/ OtherError(c) \/ TransientError(c)

\* run_target_calls cancels the siblings of a call that failed, and the worker a
\* dispatch that lost its lease; a lock that is waited for or held is given up, a
\* reservation stays.
Cancel(c) ==
  /\ pc[c] \in {"idle"} \cup InFlight
  /\ slotQueue' = Without(slotQueue, c)
  /\ tokenQueue' = Without(tokenQueue, c)
  /\ End(c)
  /\ UNCHANGED <<slots, reservations, reserved, circuit, granted, spent>>

Older(age, limit) == IF age < limit THEN age + 1 ELSE limit

TimePasses ==
  /\ slots' = [i \in DOMAIN slots |-> Older(slots[i], Window)]
  /\ reservations' = [c \in DOMAIN reservations |->
                        [reservations[c] EXCEPT !.age = Older(@, Window)]]
  /\ openFor' = IF openFor = Closed THEN Closed ELSE Older(openFor, Reset)
  /\ wait' = [c \in Calls |-> IF wait[c] > 0 THEN wait[c] - 1 ELSE 0]
  /\ granted' = Since([i \in DOMAIN granted |-> granted[i] + 1], Window)
  /\ spent' = [c \in Calls |-> IF spent[c].age + 1 < Window
                              THEN [spent[c] EXCEPT !.age = @ + 1] ELSE NotSpent]
  /\ UNCHANGED <<pc, attempt, usage, slotQueue, tokenQueue, reserved, rejections>>

LCNext ==
  \/ \E c \in Calls :
       \/ Begin(c) \/ Refused(c) \/ GrantSlot(c) \/ GrantTokens(c) \/ ReportUsage(c)
       \/ Verdict(c) \/ BackoffEnds(c) \/ Cancel(c)
  \/ TimePasses

\* The loop runs what is ready, time passes, and wait_for bounds every request.
Fairness ==
  /\ WF_lcVars(TimePasses)
  /\ \A c \in Calls :
       /\ WF_lcVars(Begin(c) \/ Refused(c))
       /\ WF_lcVars(GrantSlot(c))
       /\ WF_lcVars(GrantTokens(c) \/ ReportUsage(c))
       /\ WF_lcVars(Verdict(c))
       /\ WF_lcVars(BackoffEnds(c))

LCSpec == LCInit /\ [][LCNext]_lcVars /\ Fairness
-----------------------------------------------------------------------------
\* However calls wait for each other's locks, no window of time has more than
\* Rpm request slots: acquire measures from the slots it granted itself.
SlotsPerWindow == Len(granted) <= Rpm

\* No window of time has reservations above Tpm, retries and cancelled calls
\* included, beyond what the provider counted above the estimate.  A usage
\* report may free tokens only once and only in its own window.
TokensPerWindow ==
  LET recent == {c \in Calls : spent[c].age < Window}
      tokens == [c \in Calls |-> spent[c].tokens]
      excess == [c \in Calls |-> Max({0, spent[c].tokens - Estimate(c)})]
  IN  SumOf(tokens, recent) <= Tpm + SumOf(excess, recent)

\* A misconfigured deployment costs no more than the calls in flight when the
\* circuit opened: "a few consecutive rejections" before the first opening, one
\* and its siblings for each probe after it (LlmConfigurationErrorCircuit).
RejectionsBounded == rejections <= Threshold - 1 + Concurrency

\* Every call ends: nobody waits for ever behind a sleeper that holds a lock, and
\* a prompt no window could ever admit is refused instead of queued.
EveryCallEnds == \A c \in Calls : <>(pc[c] = "ended")
=============================================================================
