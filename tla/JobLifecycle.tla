---------------------------- MODULE JobLifecycle ----------------------------
(***************************************************************************)
(* What the F2 maintenance scheduler promises about one job, whatever the  *)
(* number of scheduler processes, queue deliveries, crashes and lapsed     *)
(* leases: a submitted job waits, is tried at most Budget times, and ends  *)
(* succeeded or buried; an ended job never moves again.  The outbox, the   *)
(* queue, the leases and the processes of module Scheduler are absent.     *)
(***************************************************************************)
EXTENDS Naturals

CONSTANTS Keys,      \* the idempotency keys a job can be submitted under
          Budgets    \* the attempt budgets a submission may ask for

VARIABLES phase,     \* where the job is
          tries,     \* how often it was handed to a handler
          budget     \* how often it may be

vars == <<phase, tries, budget>>

Phases == {"Absent", "Waiting", "Running", "Succeeded", "Buried"}
Ended  == {"Succeeded", "Buried"}

Init ==
  /\ phase = [k \in Keys |-> "Absent"]
  /\ tries = [k \in Keys |-> 0]
  /\ budget = [k \in Keys |-> 0]

Submit(k, b) ==
  /\ phase[k] = "Absent"
  /\ phase' = [phase EXCEPT ![k] = "Waiting"]
  /\ budget' = [budget EXCEPT ![k] = b]
  /\ UNCHANGED tries

\* A waiting job is tried, or a running one whose try was given up is tried anew.
Try(k) ==
  /\ phase[k] \in {"Waiting", "Running"}
  /\ tries[k] < budget[k]
  /\ phase' = [phase EXCEPT ![k] = "Running"]
  /\ tries' = [tries EXCEPT ![k] = @ + 1]
  /\ UNCHANGED budget

Succeed(k) ==
  /\ phase[k] = "Running"
  /\ phase' = [phase EXCEPT ![k] = "Succeeded"]
  /\ UNCHANGED <<tries, budget>>

\* Given-up tries put their jobs back, or bury them once the budget is spent.
\* One recovery may give up several jobs, so the step is over a set.
GiveUp(K) ==
  /\ \A k \in K : phase[k] = "Running"
  /\ phase' = [k \in Keys |->
       IF k \in K THEN IF tries[k] < budget[k] THEN "Waiting" ELSE "Buried"
                  ELSE phase[k]]
  /\ UNCHANGED <<tries, budget>>

Next ==
  \/ \E k \in Keys, b \in Budgets : Submit(k, b)
  \/ \E k \in Keys : Try(k) \/ Succeed(k)
  \/ \E K \in SUBSET Keys : GiveUp(K)

Spec == Init /\ [][Next]_vars
=============================================================================
