---------------------------- MODULE JobLifecycle ----------------------------
(***************************************************************************)
(* What the durable batch queue promises its callers, without workers,     *)
(* clocks or leases that expire.                                           *)
(*                                                                         *)
(* A submitted job is granted to one executor at a time.  Every grant is a *)
(* fresh epoch, numbered upwards, so a later executor can be told from an  *)
(* earlier one.  A grant ends by settling the job, by failing it, or by    *)
(* returning it to the queue; several grants may end at once when expired  *)
(* leases are recovered.  A settled job never runs again; a failed one     *)
(* only after it was reopened by its caller, and a job gets no more than   *)
(* its budget of grants between two submissions.                           *)
(***************************************************************************)
EXTENDS Naturals

CONSTANTS
  Jobs,       \* the rows of batch_job
  Budget      \* Budget[j]: how many grants job j gets per submission

VARIABLES
  phase,      \* phase[j]: where job j is in its life
  epoch,      \* epoch[j]: the grant under which j runs, 0 when it does not run
  issued,     \* number of epochs granted so far, to all jobs together
  tries       \* tries[j]: grants of j since it was submitted or reopened

lifecycleVars == <<phase, epoch, issued, tries>>

Init ==
  /\ phase = [j \in Jobs |-> "absent"]
  /\ epoch = [j \in Jobs |-> 0]
  /\ issued = 0
  /\ tries = [j \in Jobs |-> 0]

Submit(j) ==
  /\ phase[j] = "absent"
  /\ phase' = [phase EXCEPT ![j] = "queued"]
  /\ UNCHANGED <<epoch, issued, tries>>

Grant(j) ==
  /\ phase[j] = "queued"
  /\ tries[j] < Budget[j]
  /\ phase' = [phase EXCEPT ![j] = "held"]
  /\ issued' = issued + 1
  /\ epoch' = [epoch EXCEPT ![j] = issued + 1]
  /\ tries' = [tries EXCEPT ![j] = @ + 1]

\* One or more held jobs lose their grant; each is queued again, settled or failed.
EndGrants(S) ==
  /\ S # {}
  /\ \A j \in S : phase[j] = "held"
  /\ \E outcome \in [S -> {"queued", "done", "failed"}] :
       phase' = [j \in Jobs |-> IF j \in S THEN outcome[j] ELSE phase[j]]
  /\ epoch' = [j \in Jobs |-> IF j \in S THEN 0 ELSE epoch[j]]
  /\ UNCHANGED <<issued, tries>>

Reopen(j) ==
  /\ phase[j] = "failed"
  /\ phase' = [phase EXCEPT ![j] = "queued"]
  /\ tries' = [tries EXCEPT ![j] = 0]
  /\ UNCHANGED <<epoch, issued>>

Next ==
  \/ \E j \in Jobs : Submit(j) \/ Grant(j) \/ Reopen(j)
  \/ \E S \in SUBSET Jobs : EndGrants(S)

Spec == Init /\ [][Next]_lifecycleVars
=============================================================================
