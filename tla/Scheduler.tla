------------------------------ MODULE Scheduler ------------------------------
(***************************************************************************)
(* The F2 maintenance scheduler: the functions of 050_f2_runtime_spine.sql *)
(* on scheduled_jobs and scheduler_outbox_events, the Valkey list of       *)
(* ValkeySchedulerQueue, and the processes that run scheduler_service's    *)
(* run_forever loop over them:                                             *)
(*                                                                         *)
(*    recover -> select the due outbox -> (push, mark)* -> receive         *)
(*            -> claim -> handle -> complete or fail -> recover ...        *)
(*                                                                         *)
(* A SQL function that works on one job is one transaction and one step.   *)
(* The lease recovery works on many, in three statements under READ        *)
(* COMMITTED, and is three steps: its rows are locked by the first and     *)
(* change for the others when it commits with the last.  Everything a      *)
(* process does between two steps may be overtaken by the other processes, *)
(* by the clock, by a crash of the process (which rolls its transaction    *)
(* back) and by a restart of Valkey (which the runtime topology runs       *)
(* without persistence).                                                   *)
(*                                                                         *)
(* A job is named by its idempotency key: the key is UNIQUE and a repeated *)
(* submission returns the existing row or raises, leaving the tables       *)
(* unchanged.  The clock appears as two facts about a row: whether its     *)
(* run_at has come (due) and whether its lease_expires_at has (lapsed).    *)
(* updated_at is known to the recoveries under way: which rows were last   *)
(* written by a transaction no older than they are.  A transaction that    *)
(* waits for a row is taken to begin when it gets it.                      *)
(***************************************************************************)
EXTENDS Naturals, Sequences, FiniteSets

CONSTANTS Keys,          \* idempotency keys
          Services,      \* scheduler processes
          WorkerOf,      \* the worker_id each process claims under: scheduler_service's is one
          Policies,      \* [recovers: does the job kind run a recovery, max: max_attempts]
          NoOne,         \* NULL in lease_owner, and "no job in hand"
          MaxCrashes,    \* bound: process crashes not caused by the code
          MaxFlushes     \* bound: Valkey restarts

ASSUME PoliciesAssumption ==
  Policies \subseteq [recovers : BOOLEAN, max : Nat \ {0}]
ASSUME NoOneAssumption == NoOne \notin Keys /\ \A s \in Services : WorkerOf[s] # NoOne

VARIABLES
  \* scheduled_jobs
  state, policy, attempts, owner, lapsed, due,
  flagged,    \* last_error_code is 'LEASE_EXPIRED'
  \* scheduler_outbox_events
  outbox, published,
  \* scheduler_events, as the number of rows of each type
  events,
  \* Valkey: the list, and the delivery ids whose dedupe key is set
  queue, pushed,
  \* the processes: position in the loop, the selected outbox rows still to
  \* publish, the message or job in hand, and how the handler ended
  pc, batch, held, outcome,
  \* the recoveries under way: the statement last run, the rows locked by the first,
  \* the outbox rows the second found of other recoveries, the rows written since
  \* the recovery began, and the recoveries that began after it
  tx, locked, again, since, later,
  crashes, flushes

jobVars == <<state, policy, attempts, owner, lapsed, due, flagged>>
outboxVars == <<outbox, published>>
valkeyVars == <<queue, pushed>>
procVars == <<pc, batch, held, outcome>>
ownVars == <<tx, locked, again, later>>
txVars == <<ownVars, since>>
faultVars == <<crashes, flushes>>
vars == <<jobVars, outboxVars, events, valkeyVars, procVars, txVars, faultVars>>

States == {"ABSENT", "SCHEDULED", "QUEUED", "LEASED", "SUCCEEDED", "DEAD_LETTER"}
Terminal == {"SUCCEEDED", "DEAD_LETTER"}
EventTypes == {"JOB_SCHEDULED", "JOB_QUEUED", "JOB_LEASED", "JOB_SUCCEEDED",
               "JOB_FAILED", "JOB_DEAD_LETTERED", "LEASE_RECOVERED"}
Steps == {"RECOVER", "SELECT", "PUSH", "MARK", "RECEIVE", "CLAIM", "HANDLE", "FINISH"}
NoPolicy == [recovers |-> FALSE, max |-> 0]
Owners == {WorkerOf[s] : s \in Services} \cup {NoOne}
Deliveries == Keys \X Nat

Init ==
  /\ state = [k \in Keys |-> "ABSENT"]
  /\ policy = [k \in Keys |-> NoPolicy]
  /\ attempts = [k \in Keys |-> 0]
  /\ owner = [k \in Keys |-> NoOne]
  /\ lapsed = [k \in Keys |-> FALSE]
  /\ due = [k \in Keys |-> FALSE]
  /\ flagged = [k \in Keys |-> FALSE]
  /\ outbox = [k \in Keys |-> "ABSENT"]
  /\ published = [k \in Keys |-> 0]
  /\ events = [k \in Keys |-> [e \in EventTypes |-> 0]]
  /\ queue = <<>>
  /\ pushed = {}
  /\ pc = [s \in Services |-> "RECOVER"]
  /\ batch = [s \in Services |-> {}]
  /\ held = [s \in Services |-> NoOne]
  /\ outcome = [s \in Services |-> "none"]
  /\ tx = [s \in Services |-> "none"]
  /\ locked = [s \in Services |-> {}]
  /\ again = [s \in Services |-> {}]
  /\ since = [s \in Services |-> {}]
  /\ later = [s \in Services |-> {}]
  /\ crashes = 0
  /\ flushes = 0

Log(k, e) == events' = [events EXCEPT ![k][e] = @ + 1]

Recovering(s) == tx[s] # "none"

\* A transaction that begins now sets updated_at of k.
Touch(k) == since' = [s \in Services |-> IF Recovering(s) THEN since[s] \cup {k} ELSE {}]

\* A recovery under way holds the row of k: who wants to write it waits.
Free(k) == \A s \in Services : k \notin locked[s]

-----------------------------------------------------------------------------
(* Submission and the clock. *)

\* schedule_maintenance_job for a key with no row; run_at may lie ahead.
ScheduleJob(k, p, d) ==
  /\ state[k] = "ABSENT"
  /\ state' = [state EXCEPT ![k] = "SCHEDULED"]
  /\ policy' = [policy EXCEPT ![k] = p]
  /\ due' = [due EXCEPT ![k] = d]
  /\ outbox' = [outbox EXCEPT ![k] = "PENDING"]
  /\ Log(k, "JOB_SCHEDULED")
  /\ UNCHANGED <<attempts, owner, lapsed, flagged, published, valkeyVars, procVars, txVars,
                 faultVars>>

RunAtPasses(k) ==
  /\ state[k] = "SCHEDULED" /\ ~due[k]
  /\ due' = [due EXCEPT ![k] = TRUE]
  /\ UNCHANGED <<state, policy, attempts, owner, lapsed, flagged, outboxVars, events,
                 valkeyVars, procVars, txVars, faultVars>>

LeaseLapses(k) ==
  /\ state[k] = "LEASED" /\ ~lapsed[k]
  /\ lapsed' = [lapsed EXCEPT ![k] = TRUE]
  /\ UNCHANGED <<state, policy, attempts, owner, due, flagged, outboxVars, events,
                 valkeyVars, procVars, txVars, faultVars>>

-----------------------------------------------------------------------------
(* The SQL functions. *)

\* [mutant] The budget comparison off by one.
SpentOffByOne(k) == attempts[k] > policy[k].max

Spent(k) == attempts[k] >= policy[k].max

\* The state of a job whose attempt was given up.
GivenUp(k) == IF Spent(k) THEN "DEAD_LETTER" ELSE "SCHEDULED"

\* [mutant] A retry that forgets to put its outbox row back.
RetryWithoutOutbox(k) == outbox[k]

\* Its outbox row: PENDING again when the job is to be retried.
Reopened(k) == IF Spent(k) THEN outbox[k] ELSE "PENDING"

Expired == {k \in Keys : state[k] = "LEASED" /\ lapsed[k]}

-----------------------------------------------------------------------------
(* recover_expired_scheduler_leases, by process s. *)

\* BEGIN and the first statement: the rows whose lease has lapsed are locked.
RecoverUpdates(s) ==
  /\ ~Recovering(s)
  /\ \A k \in Expired : Free(k)
  /\ tx' = [tx EXCEPT ![s] = "updated"]
  /\ locked' = [locked EXCEPT ![s] = Expired]
  /\ later' = [r \in Services |->
       IF r = s THEN {} ELSE IF Recovering(r) THEN later[r] \cup {s} ELSE {}]
  /\ UNCHANGED <<jobVars, outboxVars, events, again, since>>

\* Whatever looks as if this recovery had just given it up, besides its own rows.
LooksRecovered(s) == {k \in since[s] : flagged[k]}

\* The second statement finds the jobs to be retried.  A publisher may mark one of
\* them before the statement gets to its outbox row; the row is written all the same.
RecoverReopens(s) ==
  /\ tx[s] = "updated"
  /\ tx' = [tx EXCEPT ![s] = "reopened"]
  /\ again' = [again EXCEPT ![s] = {k \in LooksRecovered(s) : state[k] = "SCHEDULED"}]
  /\ UNCHANGED <<jobVars, outboxVars, events, locked, since, later>>

\* [mutant] The audit row of a recovery that does not look how the job ended.
RecoveryEventAlways(st) == "LEASE_RECOVERED"

RecoveryEvent(st) == IF st = "DEAD_LETTER" THEN "JOB_DEAD_LETTERED" ELSE "LEASE_RECOVERED"

\* No recovery is left of a process whose transaction has ended.
TxEnds(s) ==
  /\ tx' = [tx EXCEPT ![s] = "none"]
  /\ locked' = [locked EXCEPT ![s] = {}]
  /\ again' = [again EXCEPT ![s] = {}]
  /\ later' = [r \in Services |-> IF r = s THEN {} ELSE later[r] \ {s}]

\* The third statement writes the audit rows of its own jobs and of every other that
\* looks recovered; with the commit the rest becomes visible.
RecoverCommits(s) ==
  LET own == locked[s]
      ends(k) == IF k \in own THEN GivenUp(k) ELSE state[k]
  IN /\ tx[s] = "reopened"
     /\ state' = [k \in Keys |-> ends(k)]
     /\ due' = [k \in Keys |-> due[k] \/ k \in own]
     /\ owner' = [k \in Keys |-> IF k \in own THEN NoOne ELSE owner[k]]
     /\ lapsed' = [k \in Keys |-> lapsed[k] /\ k \notin own]
     /\ flagged' = [k \in Keys |-> flagged[k] \/ k \in own]
     /\ outbox' = [k \in Keys |-> IF k \in own THEN Reopened(k)
                                 ELSE IF k \in again[s] THEN "PENDING" ELSE outbox[k]]
     /\ events' = [k \in Keys |-> [e \in EventTypes |->
          IF k \in own \cup LooksRecovered(s) /\ e = RecoveryEvent(ends(k))
          THEN events[k][e] + 1 ELSE events[k][e]]]
     /\ since' = [r \in Services |->
          IF r = s \/ ~Recovering(r) THEN {}
          ELSE IF s \in later[r] THEN since[r] \cup own ELSE since[r] \ own]
     /\ TxEnds(s)
     /\ UNCHANGED <<policy, attempts, published>>

-----------------------------------------------------------------------------
(* The functions on one row. *)

\* [mutant] A delivery id without the publish_attempts of its row.
PendingWithoutAttempts ==
  {<<k, 0>> : k \in {j \in Keys : /\ outbox[j] = "PENDING"
                                  /\ state[j] = "SCHEDULED"
                                  /\ due[j]}}

\* scheduler_pending_outbox: the rows to publish, each with the publish_attempts
\* it has now.  The order and the limit of the batch are abstracted.
PendingOutbox ==
  {<<k, published[k]>> : k \in {j \in Keys : /\ outbox[j] = "PENDING"
                                             /\ state[j] = "SCHEDULED"
                                             /\ due[j]}}

\* [mutant] Marking that does not look whether the row was marked before.
MarkTwice(k) ==
  /\ outbox' = [outbox EXCEPT ![k] = "PUBLISHED"]
  /\ published' = [published EXCEPT ![k] = @ + 1]
  /\ state' = [state EXCEPT ![k] = "QUEUED"]
  /\ Log(k, "JOB_QUEUED")
  /\ Touch(k)
  /\ UNCHANGED <<policy, attempts, owner, lapsed, due, flagged>>

\* mark_scheduler_outbox_published: nothing unless the row is still PENDING.
MarkOutboxPublished(k) ==
  IF outbox[k] = "PENDING"
  THEN /\ outbox' = [outbox EXCEPT ![k] = "PUBLISHED"]
       /\ published' = [published EXCEPT ![k] = @ + 1]
       /\ state' = [state EXCEPT ![k] = IF @ = "SCHEDULED" THEN "QUEUED" ELSE @]
       /\ IF state[k] = "SCHEDULED" THEN Touch(k) ELSE UNCHANGED since
       /\ Log(k, "JOB_QUEUED")
       /\ UNCHANGED <<policy, attempts, owner, lapsed, due, flagged>>
  ELSE UNCHANGED <<jobVars, outboxVars, events, since>>

\* claim_scheduled_job: a lapsed lease counts as QUEUED.
Claimable(k) == state[k] = "QUEUED" \/ k \in Expired

ClaimLeases(k, w) ==
  /\ state' = [state EXCEPT ![k] = "LEASED"]
  /\ attempts' = [attempts EXCEPT ![k] = @ + 1]
  /\ owner' = [owner EXCEPT ![k] = w]
  /\ lapsed' = [lapsed EXCEPT ![k] = FALSE]
  /\ Log(k, "JOB_LEASED")
  /\ Touch(k)
  /\ UNCHANGED <<policy, due, flagged>>

ClaimBuries(k) ==
  /\ state' = [state EXCEPT ![k] = "DEAD_LETTER"]
  /\ owner' = [owner EXCEPT ![k] = NoOne]
  /\ lapsed' = [lapsed EXCEPT ![k] = FALSE]
  /\ Log(k, "JOB_DEAD_LETTERED")
  /\ Touch(k)
  /\ UNCHANGED <<policy, attempts, due, flagged>>

\* The lease check of complete_scheduled_job and fail_scheduled_job; neither
\* looks at lease_expires_at.
HoldsLease(k, w) == state[k] = "LEASED" /\ owner[k] = w

CompleteJob(k) ==
  /\ state' = [state EXCEPT ![k] = "SUCCEEDED"]
  /\ owner' = [owner EXCEPT ![k] = NoOne]
  /\ lapsed' = [lapsed EXCEPT ![k] = FALSE]
  /\ Log(k, "JOB_SUCCEEDED")
  /\ flagged' = [flagged EXCEPT ![k] = FALSE]
  /\ Touch(k)
  /\ UNCHANGED <<policy, attempts, due, outboxVars>>

FailEvent(k) == IF Spent(k) THEN "JOB_DEAD_LETTERED" ELSE "JOB_FAILED"

FailJob(k) ==
  /\ state' = [state EXCEPT ![k] = GivenUp(k)]
  /\ owner' = [owner EXCEPT ![k] = NoOne]
  /\ lapsed' = [lapsed EXCEPT ![k] = FALSE]
  /\ due' = [due EXCEPT ![k] = TRUE]
  /\ outbox' = [outbox EXCEPT ![k] = Reopened(k)]
  /\ Log(k, FailEvent(k))
  /\ flagged' = [flagged EXCEPT ![k] = FALSE]
  /\ Touch(k)
  /\ UNCHANGED <<policy, attempts, published>>

-----------------------------------------------------------------------------
(* One turn of run_forever, by process s. *)

Goto(s, step) == pc' = [pc EXCEPT ![s] = step]

\* A turn begins with the recovery, and so does the RECOVER_EXPIRED_SCHEDULER_LEASES
\* handler, which may give up the very lease the process is working under.
MayRecover(s) == pc[s] = "RECOVER" \/ (pc[s] = "HANDLE" /\ policy[held[s]].recovers)

Recover(s) ==
  /\ MayRecover(s)
  /\ RecoverUpdates(s) \/ RecoverReopens(s)
  /\ UNCHANGED <<valkeyVars, procVars, faultVars>>

Recovered(s) ==
  /\ MayRecover(s)
  /\ RecoverCommits(s)
  /\ IF pc[s] = "RECOVER"
     THEN Goto(s, "SELECT") /\ UNCHANGED outcome
     ELSE Goto(s, "FINISH") /\ outcome' = [outcome EXCEPT ![s] = "returned"]
  /\ UNCHANGED <<valkeyVars, batch, held, faultVars>>

Select(s) ==
  /\ pc[s] = "SELECT"
  /\ batch' = [batch EXCEPT ![s] = PendingOutbox]
  /\ Goto(s, "PUSH")
  /\ UNCHANGED <<jobVars, outboxVars, events, valkeyVars, held, outcome, txVars, faultVars>>

\* [mutant] Publishing without the SETNX guard.
EveryDelivery(d) == TRUE

NewDelivery(d) == d \notin pushed

\* ValkeySchedulerQueue.publish: SETNX on the delivery id, LPUSH only if it was new.
Push(s, d) ==
  /\ pc[s] = "PUSH"
  /\ d \in batch[s]
  /\ pushed' = pushed \cup {d}
  /\ queue' = IF NewDelivery(d) THEN Append(queue, d) ELSE queue
  /\ batch' = [batch EXCEPT ![s] = @ \ {d}]
  /\ held' = [held EXCEPT ![s] = d[1]]
  /\ Goto(s, "MARK")
  /\ UNCHANGED <<jobVars, outboxVars, events, outcome, txVars, faultVars>>

Mark(s) ==
  /\ pc[s] = "MARK"
  /\ MarkOutboxPublished(held[s])
  /\ held' = [held EXCEPT ![s] = NoOne]
  /\ Goto(s, "PUSH")
  /\ UNCHANGED <<valkeyVars, batch, outcome, ownVars, faultVars>>

PublishedAll(s) ==
  /\ pc[s] = "PUSH"
  /\ batch[s] = {}
  /\ Goto(s, "RECEIVE")
  /\ UNCHANGED <<jobVars, outboxVars, events, valkeyVars, batch, held, outcome, txVars, faultVars>>

\* BRPOP with its timeout: the oldest message leaves Valkey for good.
Receive(s) ==
  /\ pc[s] = "RECEIVE"
  /\ IF queue = <<>>
     THEN /\ Goto(s, "RECOVER")
          /\ UNCHANGED <<queue, held>>
     ELSE /\ queue' = Tail(queue)
          /\ held' = [held EXCEPT ![s] = Head(queue)[1]]
          /\ Goto(s, "CLAIM")
  /\ UNCHANGED <<jobVars, outboxVars, events, pushed, batch, outcome, txVars, faultVars>>

ClaimRefused(s) ==
  /\ pc[s] = "CLAIM"
  /\ Free(held[s]) /\ ~Claimable(held[s])
  /\ held' = [held EXCEPT ![s] = NoOne]
  /\ Goto(s, "RECOVER")
  /\ UNCHANGED <<jobVars, outboxVars, events, valkeyVars, batch, outcome, txVars, faultVars>>

ClaimSpent(s) ==
  /\ pc[s] = "CLAIM"
  /\ Free(held[s]) /\ Claimable(held[s]) /\ Spent(held[s])
  /\ ClaimBuries(held[s])
  /\ held' = [held EXCEPT ![s] = NoOne]
  /\ Goto(s, "RECOVER")
  /\ UNCHANGED <<outboxVars, valkeyVars, batch, outcome, ownVars, faultVars>>

Claim(s) ==
  /\ pc[s] = "CLAIM"
  /\ Free(held[s]) /\ Claimable(held[s]) /\ ~Spent(held[s])
  /\ ClaimLeases(held[s], WorkerOf[s])
  /\ Goto(s, "HANDLE")
  /\ UNCHANGED <<outboxVars, valkeyVars, batch, held, outcome, ownVars, faultVars>>

\* The handler returns or raises.  Of default_handlers only the recovery one writes,
\* and returns with its commit.
Handle(s) ==
  /\ pc[s] = "HANDLE" /\ ~Recovering(s)
  /\ \E o \in {"returned", "raised"} :
       /\ policy[held[s]].recovers => o = "raised"
       /\ outcome' = [outcome EXCEPT ![s] = o]
  /\ Goto(s, "FINISH")
  /\ UNCHANGED <<jobVars, outboxVars, events, valkeyVars, batch, held, txVars, faultVars>>

\* What a process forgets when its turn ends, or when it dies and is restarted.
Forget(s) ==
  /\ batch' = [batch EXCEPT ![s] = {}]
  /\ held' = [held EXCEPT ![s] = NoOne]
  /\ outcome' = [outcome EXCEPT ![s] = "none"]
  /\ Goto(s, "RECOVER")

Complete(s) ==
  /\ pc[s] = "FINISH" /\ outcome[s] = "returned"
  /\ Free(held[s]) /\ HoldsLease(held[s], WorkerOf[s])
  /\ CompleteJob(held[s])
  /\ Forget(s)
  /\ UNCHANGED <<valkeyVars, ownVars, faultVars>>

Fail(s) ==
  /\ pc[s] = "FINISH" /\ outcome[s] = "raised"
  /\ Free(held[s]) /\ HoldsLease(held[s], WorkerOf[s])
  /\ FailJob(held[s])
  /\ Forget(s)
  /\ UNCHANGED <<valkeyVars, ownVars, faultVars>>

\* AXIGNAL_SCHEDULER_LEASE_MISMATCH leaves run_once and run_forever uncaught:
\* the process dies and its restart policy starts it anew.
LeaseMismatch(s) ==
  /\ pc[s] = "FINISH"
  /\ ~HoldsLease(held[s], WorkerOf[s])
  /\ Forget(s)
  /\ UNCHANGED <<jobVars, outboxVars, events, valkeyVars, txVars, faultVars>>

-----------------------------------------------------------------------------
(* Faults. *)

Crash(s) ==
  /\ crashes < MaxCrashes
  /\ crashes' = crashes + 1
  /\ Forget(s)
  /\ TxEnds(s) /\ since' = [since EXCEPT ![s] = {}]
  /\ UNCHANGED <<jobVars, outboxVars, events, valkeyVars, flushes>>

\* Valkey comes back empty: its list and its dedupe keys are gone.
ValkeyRestart ==
  /\ flushes < MaxFlushes
  /\ flushes' = flushes + 1
  /\ queue' = <<>>
  /\ pushed' = {}
  /\ UNCHANGED <<jobVars, outboxVars, events, procVars, txVars, crashes>>

-----------------------------------------------------------------------------

Turn(s) ==
  \/ Recover(s) \/ Recovered(s) \/ Select(s) \/ Mark(s) \/ PublishedAll(s) \/ Receive(s)
  \/ ClaimRefused(s) \/ ClaimSpent(s) \/ Claim(s) \/ Handle(s)
  \/ Complete(s) \/ Fail(s) \/ LeaseMismatch(s)
  \/ \E d \in batch[s] : Push(s, d)

Next ==
  \/ \E k \in Keys, p \in Policies, d \in BOOLEAN : ScheduleJob(k, p, d)
  \/ \E k \in Keys : RunAtPasses(k) \/ LeaseLapses(k)
  \/ \E s \in Services : Turn(s) \/ Crash(s)
  \/ ValkeyRestart

Spec == Init /\ [][Next]_vars

\* run_forever never stops turning, a run_at comes, a restart policy revives a
\* process.  A lease need not lapse before its holder finishes.
Fairness ==
  /\ \A s \in Services : WF_vars(Turn(s))
  /\ \A k \in Keys : WF_vars(RunAtPasses(k)) /\ WF_vars(LeaseLapses(k))

FairSpec == Spec /\ Fairness

-----------------------------------------------------------------------------
(* Properties. *)

\* The rows, the Valkey list and the loops of the processes have their types.
TypeOK ==
  /\ state \in [Keys -> States]
  /\ policy \in [Keys -> Policies \cup {NoPolicy}]
  /\ attempts \in [Keys -> Nat]
  /\ owner \in [Keys -> Owners]
  /\ lapsed \in [Keys -> BOOLEAN]
  /\ due \in [Keys -> BOOLEAN]
  /\ flagged \in [Keys -> BOOLEAN]
  /\ outbox \in [Keys -> {"ABSENT", "PENDING", "PUBLISHED"}]
  /\ published \in [Keys -> Nat]
  /\ events \in [Keys -> [EventTypes -> Nat]]
  /\ queue \in Seq(Deliveries)
  /\ pushed \in SUBSET Deliveries
  /\ pc \in [Services -> Steps]
  /\ batch \in [Services -> SUBSET Deliveries]
  /\ held \in [Services -> Keys \cup {NoOne}]
  /\ outcome \in [Services -> {"none", "returned", "raised"}]
  /\ tx \in [Services -> {"none", "updated", "reopened"}]
  /\ locked \in [Services -> SUBSET Keys]
  /\ again \in [Services -> SUBSET Keys]
  /\ since \in [Services -> SUBSET Keys]
  /\ later \in [Services -> SUBSET Services]
  /\ crashes \in Nat
  /\ flushes \in Nat

\* A job that waits for publication can be found by scheduler_pending_outbox: no
\* retry, overlapping recovery or stale publisher leaves a SCHEDULED job whose outbox
\* row is not PENDING, which nothing would ever look at again.  (The converse fails:
\* a recovery that overlaps another may reopen the row of a job just marked.)
ScheduledIsPending ==
  \A k \in Keys : state[k] = "SCHEDULED" => outbox[k] = "PENDING"

\* The append-only scheduler_events tell how a job went, although overlapping
\* recoveries find rows that are not theirs and write about them too: one JOB_QUEUED
\* per publication, one JOB_LEASED per attempt, JOB_SUCCEEDED once and only for a job
\* that did, JOB_DEAD_LETTERED (maybe repeated) for those that died and no other, and
\* a reason for every job that waits anew.
AuditTellsTheEnd ==
  \A k \in Keys :
    /\ events[k]["JOB_QUEUED"] = published[k]
    /\ events[k]["JOB_LEASED"] = attempts[k]
    /\ events[k]["JOB_SUCCEEDED"] = IF state[k] = "SUCCEEDED" THEN 1 ELSE 0
    /\ events[k]["JOB_DEAD_LETTERED"] > 0 <=> state[k] = "DEAD_LETTER"
    /\ state[k] \in {"SCHEDULED", "QUEUED"} /\ attempts[k] > 0
         => events[k]["JOB_FAILED"] + events[k]["LEASE_RECOVERED"] > 0

\* However many processes selected the same outbox row, the dedupe key lets one
\* message of a delivery into the list.
OneMessagePerDelivery ==
  \A i, j \in 1..Len(queue) : queue[i] = queue[j] => i = j

\* Where a state lies in the job life cycle.
PhaseOf(st) ==
  CASE st = "ABSENT" -> "Absent"
    [] st \in {"SCHEDULED", "QUEUED"} -> "Waiting"
    [] st = "LEASED" -> "Running"
    [] st = "SUCCEEDED" -> "Succeeded"
    [] OTHER -> "Buried"

JL == INSTANCE JobLifecycle WITH
        Budgets <- {p.max : p \in Policies},
        phase <- [k \in Keys |-> PhaseOf(state[k])],
        tries <- attempts,
        budget <- [k \in Keys |-> policy[k].max]

\* The scheduler implements the job life cycle: at most max_attempts tries, ended
\* jobs stay ended, and given-up tries are buried only with the budget spent.
ImplementsJobLifecycle == JL!Spec

\* With one undisturbed process, a QUEUED job always has its message in the list
\* or in the hand of the process that is about to claim it.
QueuedHasMessage ==
  \A k \in Keys : state[k] = "QUEUED" =>
    \/ \E i \in 1..Len(queue) : queue[i][1] = k
    \/ \E s \in Services : pc[s] = "CLAIM" /\ held[s] = k

\* A job that was scheduled ends: it succeeds, or is dead-lettered once its
\* attempts are spent.
EventuallySettled ==
  \A k \in Keys : state[k] = "SCHEDULED" ~> state[k] \in Terminal
=============================================================================
