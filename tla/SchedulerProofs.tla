-------------------------- MODULE SchedulerProofs --------------------------
(***************************************************************************)
(* Theorems about Scheduler, for every set of keys, processes and          *)
(* policies and every number of crashes and Valkey restarts.               *)
(*                                                                         *)
(* The inductive invariant IInv adds to the checked invariants what they   *)
(* need to survive a step: a process past a push, a receive or a claim     *)
(* holds a key, a waiting job has attempts left, whatever is in the list   *)
(* has its dedupe key set, and the rows a recovery under way has locked    *)
(* are leased jobs that no other recovery has.                             *)
(***************************************************************************)
EXTENDS Scheduler, TLAPS

\* A process between a push and its mark, or between a receive and the end of
\* its turn, has a job in hand.
HandsFull ==
  \A s \in Services : pc[s] \in {"MARK", "CLAIM", "HANDLE", "FINISH"} => held[s] \in Keys

\* A job that waits for publication or for a claim has attempts left.
WaitingHasBudget ==
  \A k \in Keys : state[k] \in {"SCHEDULED", "QUEUED"} => attempts[k] < policy[k].max

\* A submitted job has one of the policies; a key without a row has no attempts.
SubmittedHasPolicy ==
  \A k \in Keys : IF state[k] = "ABSENT" THEN attempts[k] = 0 ELSE policy[k] \in Policies

\* The dedupe key of every message in the list is set.
MessagesDeduped == \A i \in 1..Len(queue) : queue[i] \in pushed

\* What a recovery under way has locked is leased, and no other one's.
LocksAreHeld ==
  /\ \A s \in Services : \A k \in locked[s] : state[k] = "LEASED"
  /\ \A r, s \in Services : \A k \in locked[r] \cap locked[s] : r = s

IInv ==
  /\ TypeOK
  /\ LocksAreHeld
  /\ HandsFull
  /\ ScheduledIsPending
  /\ AuditTellsTheEnd
  /\ WaitingHasBudget
  /\ SubmittedHasPolicy
  /\ MessagesDeduped
  /\ OneMessagePerDelivery

USE DEF jobVars, outboxVars, valkeyVars, procVars, ownVars, txVars, faultVars

-----------------------------------------------------------------------------
(* What the transactions of the SQL functions do to the tables. *)

TableTypeOK ==
  /\ state \in [Keys -> States]
  /\ policy \in [Keys -> Policies \cup {NoPolicy}]
  /\ attempts \in [Keys -> Nat]
  /\ owner \in [Keys -> Owners]
  /\ lapsed \in [Keys -> BOOLEAN]
  /\ due \in [Keys -> BOOLEAN]
  /\ flagged \in [Keys -> BOOLEAN]
  /\ outbox \in [Keys -> {"ABSENT", "PENDING", "PUBLISHED"}]
  /\ published \in [Keys -> Nat]
  /\ events \in [Keys -> [EventTypes -> Nat]]

Tables ==
  /\ TableTypeOK
  /\ ScheduledIsPending
  /\ AuditTellsTheEnd
  /\ WaitingHasBudget
  /\ SubmittedHasPolicy

\* The budget of a submitted job is a positive number.
LEMMA PolicyMaxNat ==
  ASSUME TableTypeOK, NEW k \in Keys
  PROVE  policy[k].max \in Nat /\ policy[k].recovers \in BOOLEAN
<1>1. policy[k] \in Policies \cup {NoPolicy}
  BY DEF TableTypeOK
<1>2. \A p \in Policies : p.max \in Nat /\ p.recovers \in BOOLEAN
  BY PoliciesAssumption
<1>3. CASE policy[k] = NoPolicy
  BY <1>3 DEF NoPolicy
<1> QED BY <1>1, <1>2, <1>3

\* Appending to scheduler_events keeps its type.
LEMMA LogTypes ==
  ASSUME TableTypeOK, NEW k \in Keys, NEW e \in EventTypes, Log(k, e)
  PROVE  /\ events' \in [Keys -> [EventTypes -> Nat]]
         /\ events'[k][e] = events[k][e] + 1
         /\ \A f \in EventTypes \ {e} : events'[k][f] = events[k][f]
         /\ \A j \in Keys \ {k} : events'[j] = events[j]
BY DEF TableTypeOK, Log

\* schedule_maintenance_job keeps the tables in agreement.
LEMMA ScheduleTables ==
  ASSUME Tables, NEW k \in Keys, NEW p \in Policies, NEW d \in BOOLEAN,
         ScheduleJob(k, p, d)
  PROVE  Tables'
<1> USE DEF Tables
<1>1. events' \in [Keys -> [EventTypes -> Nat]]
      /\ events'[k]["JOB_SCHEDULED"] = events[k]["JOB_SCHEDULED"] + 1
      /\ (\A f \in EventTypes \ {"JOB_SCHEDULED"} : events'[k][f] = events[k][f])
      /\ \A j \in Keys \ {k} : events'[j] = events[j]
  BY LogTypes DEF ScheduleJob, EventTypes
<1>2. TableTypeOK'
  BY <1>1 DEF TableTypeOK, ScheduleJob, States
<1>3. ScheduledIsPending'
  BY DEF ScheduledIsPending, ScheduleJob, TableTypeOK
<1>4. p.max \in Nat \ {0}
  BY PoliciesAssumption
<1>5. attempts[k] = 0
  BY DEF SubmittedHasPolicy, ScheduleJob
<1>6. WaitingHasBudget' /\ SubmittedHasPolicy'
  BY <1>4, <1>5 DEF WaitingHasBudget, SubmittedHasPolicy, ScheduleJob, TableTypeOK
<1>7. AuditTellsTheEnd'
  BY <1>1, <1>5 DEF AuditTellsTheEnd, ScheduleJob, TableTypeOK, EventTypes
<1> QED BY <1>2, <1>3, <1>6, <1>7

\* A claim that leases keeps the tables in agreement.
LEMMA ClaimLeasesTables ==
  ASSUME Tables, NEW k \in Keys, NEW t \in Services, Claimable(k), ~Spent(k),
         ClaimLeases(k, WorkerOf[t]), UNCHANGED outboxVars
  PROVE  Tables'
<1> USE DEF Tables
<1>1. /\ events' \in [Keys -> [EventTypes -> Nat]]
      /\ events'[k]["JOB_LEASED"] = events[k]["JOB_LEASED"] + 1
      /\ \A f \in EventTypes \ {"JOB_LEASED"} : events'[k][f] = events[k][f]
      /\ \A j \in Keys \ {k} : events'[j] = events[j]
  BY LogTypes DEF ClaimLeases, EventTypes
<1>2. policy[k].max \in Nat
  BY PolicyMaxNat
<1>3. TableTypeOK'
  <2>1. WorkerOf[t] \in Owners
    BY DEF Owners
  <2>2. state' \in [Keys -> States] /\ attempts' \in [Keys -> Nat]
    BY DEF TableTypeOK, ClaimLeases, States
  <2>3. owner' \in [Keys -> Owners] /\ lapsed' \in [Keys -> BOOLEAN]
    BY <2>1 DEF TableTypeOK, ClaimLeases
  <2> QED BY <1>1, <2>2, <2>3 DEF TableTypeOK, ClaimLeases
<1>4. ScheduledIsPending'
  BY DEF ScheduledIsPending, ClaimLeases, TableTypeOK, Claimable, Expired, Spent
<1>5. WaitingHasBudget' /\ SubmittedHasPolicy'
  BY <1>2 DEF WaitingHasBudget, SubmittedHasPolicy, ClaimLeases, TableTypeOK, Claimable, Expired, Spent
<1>6. AuditTellsTheEnd'
  BY <1>1 DEF AuditTellsTheEnd, ClaimLeases, TableTypeOK, Terminal, EventTypes, Claimable, Expired, Spent
<1> QED BY <1>3, <1>4, <1>5, <1>6

\* A claim that finds the budget spent keeps the tables in agreement.
LEMMA ClaimBuriesTables ==
  ASSUME Tables, NEW k \in Keys, Claimable(k), ClaimBuries(k), UNCHANGED outboxVars
  PROVE  Tables'
<1> USE DEF Tables
<1>1. /\ events' \in [Keys -> [EventTypes -> Nat]]
      /\ events'[k]["JOB_DEAD_LETTERED"] = events[k]["JOB_DEAD_LETTERED"] + 1
      /\ \A f \in EventTypes \ {"JOB_DEAD_LETTERED"} : events'[k][f] = events[k][f]
      /\ \A j \in Keys \ {k} : events'[j] = events[j]
  BY LogTypes DEF ClaimBuries, EventTypes
<1>2. policy[k].max \in Nat
  BY PolicyMaxNat
<1>3. TableTypeOK'
  BY <1>1 DEF TableTypeOK, ClaimBuries, States, Owners
<1>4. ScheduledIsPending'
  BY DEF ScheduledIsPending, ClaimBuries, TableTypeOK, Claimable, Expired
<1>5. WaitingHasBudget' /\ SubmittedHasPolicy'
  BY <1>2 DEF WaitingHasBudget, SubmittedHasPolicy, ClaimBuries, TableTypeOK, Claimable, Expired
<1>6. AuditTellsTheEnd'
  BY <1>1 DEF AuditTellsTheEnd, ClaimBuries, TableTypeOK, Terminal, EventTypes, Claimable, Expired
<1> QED BY <1>3, <1>4, <1>5, <1>6

\* complete_scheduled_job keeps the tables in agreement.
LEMMA CompleteTables ==
  ASSUME Tables, NEW k \in Keys, state[k] = "LEASED", CompleteJob(k)
  PROVE  Tables'
<1> USE DEF Tables
<1>1. /\ events' \in [Keys -> [EventTypes -> Nat]]
      /\ events'[k]["JOB_SUCCEEDED"] = events[k]["JOB_SUCCEEDED"] + 1
      /\ \A f \in EventTypes \ {"JOB_SUCCEEDED"} : events'[k][f] = events[k][f]
      /\ \A j \in Keys \ {k} : events'[j] = events[j]
  BY LogTypes DEF CompleteJob, EventTypes
<1>2. policy[k].max \in Nat
  BY PolicyMaxNat
<1>3. TableTypeOK'
  BY <1>1 DEF TableTypeOK, CompleteJob, States, Owners
<1>4. ScheduledIsPending'
  BY DEF ScheduledIsPending, CompleteJob, TableTypeOK
<1>5. WaitingHasBudget' /\ SubmittedHasPolicy'
  BY <1>2 DEF WaitingHasBudget, SubmittedHasPolicy, CompleteJob, TableTypeOK
<1>6. AuditTellsTheEnd'
  BY <1>1 DEF AuditTellsTheEnd, CompleteJob, TableTypeOK, Terminal, EventTypes
<1> QED BY <1>3, <1>4, <1>5, <1>6

\* fail_scheduled_job keeps the tables in agreement.
LEMMA FailTables ==
  ASSUME Tables, NEW k \in Keys, state[k] = "LEASED", FailJob(k)
  PROVE  Tables'
<1> USE DEF Tables
<1>1. /\ events' \in [Keys -> [EventTypes -> Nat]]
      /\ events'[k][FailEvent(k)] = events[k][FailEvent(k)] + 1
      /\ \A f \in EventTypes \ {FailEvent(k)} : events'[k][f] = events[k][f]
      /\ \A j \in Keys \ {k} : events'[j] = events[j]
  <2>1. FailEvent(k) \in EventTypes
    BY DEF FailEvent, EventTypes
  <2> QED BY <2>1, LogTypes DEF FailJob
<1>2. policy[k].max \in Nat
  BY PolicyMaxNat
<1>3. TableTypeOK'
  BY <1>1 DEF TableTypeOK, FailJob, States, Owners, GivenUp, Reopened
<1>4. ScheduledIsPending'
  BY DEF ScheduledIsPending, FailJob, TableTypeOK, GivenUp, Reopened, Spent, FailEvent
<1>5. WaitingHasBudget' /\ SubmittedHasPolicy'
  BY <1>2 DEF WaitingHasBudget, SubmittedHasPolicy, FailJob, TableTypeOK, GivenUp, Reopened, Spent, FailEvent
<1>6. AuditTellsTheEnd'
  <2>1. CASE Spent(k)
    <3>1. FailEvent(k) = "JOB_DEAD_LETTERED" /\ state' = [state EXCEPT ![k] = "DEAD_LETTER"]
      BY <2>1 DEF FailEvent, FailJob, GivenUp
    <3> QED BY <1>1, <3>1 DEF AuditTellsTheEnd, FailJob, TableTypeOK, Terminal, EventTypes
  <2>2. CASE ~Spent(k)
    <3>1. FailEvent(k) = "JOB_FAILED" /\ state' = [state EXCEPT ![k] = "SCHEDULED"]
      BY <2>2 DEF FailEvent, FailJob, GivenUp
    <3> QED BY <1>1, <3>1 DEF AuditTellsTheEnd, FailJob, TableTypeOK, Terminal, EventTypes
  <2> QED BY <2>1, <2>2
<1> QED BY <1>3, <1>4, <1>5, <1>6

\* mark_scheduler_outbox_published keeps the tables in agreement, whether or not
\* the row was marked before.
LEMMA MarkTables ==
  ASSUME Tables, NEW k \in Keys, MarkOutboxPublished(k)
  PROVE  Tables'
<1> USE DEF Tables
<1>1. CASE outbox[k] # "PENDING"
  BY <1>1 DEF MarkOutboxPublished, TableTypeOK, ScheduledIsPending, AuditTellsTheEnd,
              WaitingHasBudget, SubmittedHasPolicy
<1>2. CASE outbox[k] = "PENDING"
  <2> USE <1>2 DEF MarkOutboxPublished
  <2>1. /\ events' \in [Keys -> [EventTypes -> Nat]]
        /\ events'[k]["JOB_QUEUED"] = events[k]["JOB_QUEUED"] + 1
        /\ \A f \in EventTypes \ {"JOB_QUEUED"} : events'[k][f] = events[k][f]
        /\ \A j \in Keys \ {k} : events'[j] = events[j]
    BY LogTypes DEF EventTypes
  <2>2. TableTypeOK'
    <3>1. state' \in [Keys -> States]
      BY DEF TableTypeOK, States
    <3>2. published' \in [Keys -> Nat]
      BY DEF TableTypeOK
    <3>3. outbox' \in [Keys -> {"ABSENT", "PENDING", "PUBLISHED"}]
      BY DEF TableTypeOK
    <3>4. UNCHANGED <<policy, attempts, owner, lapsed, due, flagged>>
      OBVIOUS
    <3> QED BY <2>1, <3>1, <3>2, <3>3, <3>4 DEF TableTypeOK
  <2>3. ScheduledIsPending'
    BY DEF ScheduledIsPending, TableTypeOK
  <2>4. WaitingHasBudget' /\ SubmittedHasPolicy'
    BY DEF WaitingHasBudget, SubmittedHasPolicy, TableTypeOK, ScheduledIsPending
  <2>5. AuditTellsTheEnd'
    BY <2>1 DEF AuditTellsTheEnd, TableTypeOK, Terminal, EventTypes
  <2> QED BY <2>2, <2>3, <2>4, <2>5
<1> QED BY <1>1, <1>2

\* The commit of recover_expired_scheduler_leases keeps the tables in agreement, for any
\* number of rows, its own or another recovery's.
LEMMA RecoverTables ==
  ASSUME Tables, LocksAreHeld, NEW s \in Services, locked[s] \in SUBSET Keys, RecoverCommits(s)
  PROVE  Tables'
<1> USE DEF Tables
<1> DEFINE own == locked[s]
           ends(k) == IF k \in own THEN GivenUp(k) ELSE state[k]
<1>0. \A k \in own : k \in Keys /\ state[k] = "LEASED"
  BY DEF LocksAreHeld
<1>1. \A k \in Keys : policy[k].max \in Nat
  BY PolicyMaxNat
<1>2. /\ state' = [k \in Keys |-> ends(k)]
      /\ outbox' = [k \in Keys |-> IF k \in own THEN Reopened(k)
                                 ELSE IF k \in again[s] THEN "PENDING" ELSE outbox[k]]
      /\ events' = [k \in Keys |-> [e \in EventTypes |->
           IF k \in own \cup LooksRecovered(s) /\ e = RecoveryEvent(ends(k))
           THEN events[k][e] + 1 ELSE events[k][e]]]
      /\ UNCHANGED <<policy, attempts, published>>
  BY DEF RecoverCommits
<1>3. TableTypeOK'
  <2>1. events' \in [Keys -> [EventTypes -> Nat]]
    BY <1>2 DEF TableTypeOK
  <2>2. state' \in [Keys -> States] /\ outbox' \in [Keys -> {"ABSENT", "PENDING", "PUBLISHED"}]
    BY <1>2 DEF TableTypeOK, States, GivenUp, Reopened
  <2>3. owner' \in [Keys -> Owners]
    BY DEF TableTypeOK, RecoverCommits, Owners
  <2>4. due' \in [Keys -> BOOLEAN] /\ lapsed' \in [Keys -> BOOLEAN] /\ flagged' \in [Keys -> BOOLEAN]
    BY DEF TableTypeOK, RecoverCommits
  <2> QED BY <1>2, <2>1, <2>2, <2>3, <2>4 DEF TableTypeOK
<1>4. ScheduledIsPending'
  BY <1>2 DEF ScheduledIsPending, TableTypeOK, GivenUp, Reopened
<1>5. WaitingHasBudget' /\ SubmittedHasPolicy'
  BY <1>0, <1>1, <1>2 DEF WaitingHasBudget, SubmittedHasPolicy, TableTypeOK, GivenUp, Spent
<1>6. AuditTellsTheEnd'
  <2> SUFFICES ASSUME NEW k \in Keys
               PROVE  /\ events'[k]["JOB_QUEUED"] = published[k]
                      /\ events'[k]["JOB_LEASED"] = attempts[k]
                      /\ events'[k]["JOB_SUCCEEDED"] = IF state'[k] = "SUCCEEDED" THEN 1 ELSE 0
                      /\ events'[k]["JOB_DEAD_LETTERED"] > 0 <=> state'[k] = "DEAD_LETTER"
                      /\ state'[k] \in {"SCHEDULED", "QUEUED"} /\ attempts[k] > 0
                           => events'[k]["JOB_FAILED"] + events'[k]["LEASE_RECOVERED"] > 0
    BY <1>2 DEF AuditTellsTheEnd
  <2>0. \A e \in EventTypes : events[k][e] \in Nat /\ attempts[k] \in Nat
    BY DEF TableTypeOK
  <2>1. events'[k] = [e \in EventTypes |->
          IF k \in own \cup LooksRecovered(s) /\ e = RecoveryEvent(ends(k))
          THEN events[k][e] + 1 ELSE events[k][e]] /\ state'[k] = ends(k)
    BY <1>2
  <2>2. ends(k) \in (IF k \in own THEN {"DEAD_LETTER", "SCHEDULED"} ELSE {state[k]})
    BY DEF GivenUp
  <2>3. CASE ends(k) = "DEAD_LETTER"
    BY <1>0, <2>0, <2>1, <2>2, <2>3 DEF AuditTellsTheEnd, RecoveryEvent, EventTypes
  <2>4. CASE ends(k) # "DEAD_LETTER"
    BY <1>0, <2>0, <2>1, <2>2, <2>4 DEF AuditTellsTheEnd, RecoveryEvent, EventTypes
  <2> QED BY <2>3, <2>4
<1> QED BY <1>3, <1>4, <1>5, <1>6

\* So does a step that does not touch them.
LEMMA UntouchedTables ==
  ASSUME Tables, UNCHANGED <<jobVars, outboxVars, events>>
  PROVE  Tables'
BY DEF Tables, TableTypeOK, ScheduledIsPending, AuditTellsTheEnd, WaitingHasBudget, SubmittedHasPolicy

\* So does the clock.
LEMMA ClockTables ==
  ASSUME Tables, NEW k \in Keys, RunAtPasses(k) \/ LeaseLapses(k)
  PROVE  Tables'
<1>1. UNCHANGED <<state, policy, attempts, owner, flagged, outboxVars, events>>
  BY DEF RunAtPasses, LeaseLapses
<1>2. lapsed' \in [Keys -> BOOLEAN] /\ due' \in [Keys -> BOOLEAN]
  BY DEF RunAtPasses, LeaseLapses, Tables, TableTypeOK
<1>3. TableTypeOK'
  BY <1>1, <1>2 DEF Tables, TableTypeOK
<1> QED BY <1>1, <1>3
       DEF Tables, ScheduledIsPending, AuditTellsTheEnd, WaitingHasBudget, SubmittedHasPolicy

-----------------------------------------------------------------------------
(* The processes and Valkey. *)

ProcTypeOK ==
  /\ queue \in Seq(Deliveries)
  /\ pushed \in SUBSET Deliveries
  /\ pc \in [Services -> Steps]
  /\ batch \in [Services -> SUBSET Deliveries]
  /\ held \in [Services -> Keys \cup {NoOne}]
  /\ outcome \in [Services -> {"none", "returned", "raised"}]
  /\ crashes \in Nat
  /\ flushes \in Nat

TxTypeOK ==
  /\ tx \in [Services -> {"none", "updated", "reopened"}]
  /\ locked \in [Services -> SUBSET Keys]
  /\ again \in [Services -> SUBSET Keys]
  /\ since \in [Services -> SUBSET Keys]
  /\ later \in [Services -> SUBSET Services]

\* The type invariant, split into tables, processes and recoveries under way.
LEMMA SplitTypeOK == TypeOK <=> TableTypeOK /\ ProcTypeOK /\ TxTypeOK
BY DEF TypeOK, TableTypeOK, ProcTypeOK, TxTypeOK

\* Every step keeps the tables in agreement.
LEMMA TablesStep ==
  ASSUME Tables, HandsFull, TxTypeOK, LocksAreHeld, [Next]_vars
  PROVE  Tables'
<1>1. ASSUME NEW k \in Keys, NEW p \in Policies, NEW d \in BOOLEAN, ScheduleJob(k, p, d)
      PROVE  Tables'
  BY <1>1, ScheduleTables
<1>2. ASSUME NEW k \in Keys, RunAtPasses(k) \/ LeaseLapses(k)
      PROVE  Tables'
  BY <1>2, ClockTables
<1>3. ASSUME NEW s \in Services, Turn(s)
      PROVE  Tables'
  <2>1. CASE Recovered(s)
    BY <2>1, RecoverTables DEF Recovered, TxTypeOK
  <2>2. CASE \/ Recover(s) \/ Select(s) \/ PublishedAll(s) \/ Receive(s) \/ ClaimRefused(s)
             \/ Handle(s) \/ LeaseMismatch(s)
    BY <2>2, UntouchedTables DEF Recover, RecoverUpdates, RecoverReopens, Select, PublishedAll,
       Receive, ClaimRefused, Handle, LeaseMismatch
  <2>3. CASE \E d \in batch[s] : Push(s, d)
    BY <2>3, UntouchedTables DEF Push
  <2>4. CASE Mark(s)
    BY <2>4, MarkTables DEF Mark, HandsFull
  <2>5. CASE ClaimSpent(s)
    BY <2>5, ClaimBuriesTables DEF ClaimSpent, HandsFull
  <2>6. CASE Claim(s)
    BY <2>6, ClaimLeasesTables DEF Claim, HandsFull
  <2>8. CASE Complete(s)
    BY <2>8, CompleteTables DEF Complete, HandsFull, HoldsLease
  <2>9. CASE Fail(s)
    BY <2>9, FailTables DEF Fail, HandsFull, HoldsLease
  <2> QED BY <1>3, <2>1, <2>2, <2>3, <2>4, <2>5, <2>6, <2>8, <2>9 DEF Turn
<1>4. ASSUME NEW s \in Services, Crash(s)
      PROVE  Tables'
  BY <1>4, UntouchedTables DEF Crash
<1>5. CASE ValkeyRestart
  BY <1>5, UntouchedTables DEF ValkeyRestart
<1>6. CASE UNCHANGED vars
  BY <1>6, UntouchedTables DEF vars
<1> QED BY <1>1, <1>2, <1>3, <1>4, <1>5, <1>6 DEF Next

\* A process that forgets its turn is typed and holds nothing.
LEMMA ForgetProc ==
  ASSUME ProcTypeOK, HandsFull, NEW s \in Services, Forget(s), UNCHANGED valkeyVars,
         crashes' \in Nat, flushes' \in Nat
  PROVE  ProcTypeOK' /\ HandsFull'
BY DEF ProcTypeOK, HandsFull, Forget, Goto, Steps

\* Every step keeps the processes typed, with a job in hand where one is needed.
LEMMA ProcStep ==
  ASSUME TypeOK, HandsFull, [Next]_vars
  PROVE  ProcTypeOK' /\ HandsFull'
<1>0. ProcTypeOK /\ TableTypeOK
  BY SplitTypeOK
<1>1. CASE UNCHANGED <<valkeyVars, procVars, faultVars>>
  BY <1>0, <1>1 DEF ProcTypeOK, HandsFull
<1>2. ASSUME NEW s \in Services, Turn(s)
      PROVE  ProcTypeOK' /\ HandsFull'
  <2> USE <1>0
  <2>0. CASE Recover(s)
    BY <1>1, <2>0 DEF Recover
  <2>1. CASE Recovered(s)
    <3>1. CASE pc[s] = "RECOVER"
      BY <2>1, <3>1 DEF Recovered, Goto, ProcTypeOK, HandsFull, Steps
    <3>2. CASE pc[s] = "HANDLE"
      BY <2>1, <3>2 DEF Recovered, Goto, ProcTypeOK, HandsFull, Steps
    <3> QED BY <2>1, <3>1, <3>2 DEF Recovered, MayRecover
  <2>2. CASE Select(s)
    <3>1. PendingOutbox \in SUBSET Deliveries
      BY DEF PendingOutbox, Deliveries, TableTypeOK
    <3> QED BY <2>2, <3>1 DEF Select, Goto, ProcTypeOK, HandsFull, Steps
  <2>3. ASSUME NEW d \in batch[s], Push(s, d)
        PROVE  ProcTypeOK' /\ HandsFull'
    <3>1. d \in Deliveries /\ d[1] \in Keys
      BY DEF ProcTypeOK, Deliveries
    <3>2. queue' \in Seq(Deliveries)
      BY <2>3, <3>1 DEF Push, ProcTypeOK
    <3> QED BY <2>3, <3>1, <3>2 DEF Push, Goto, ProcTypeOK, HandsFull, Steps
  <2>4. CASE Mark(s)
    BY <2>4 DEF Mark, Goto, ProcTypeOK, HandsFull, Steps
  <2>5. CASE PublishedAll(s)
    BY <2>5 DEF PublishedAll, Goto, ProcTypeOK, HandsFull, Steps
  <2>6. CASE Receive(s)
    <3>1. CASE queue = <<>>
      BY <2>6, <3>1 DEF Receive, Goto, ProcTypeOK, HandsFull, Steps
    <3>2. CASE queue # <<>>
      <4>1. Head(queue) \in Deliveries /\ Tail(queue) \in Seq(Deliveries)
        BY <3>2 DEF ProcTypeOK
      <4>2. Head(queue)[1] \in Keys
        BY <4>1 DEF Deliveries
      <4> QED BY <2>6, <3>2, <4>1, <4>2 DEF Receive, Goto, ProcTypeOK, HandsFull, Steps
    <3> QED BY <3>1, <3>2
  <2>7. CASE ClaimRefused(s)
    BY <2>7 DEF ClaimRefused, Goto, ProcTypeOK, HandsFull, Steps
  <2>8. CASE ClaimSpent(s)
    BY <2>8 DEF ClaimSpent, Goto, ProcTypeOK, HandsFull, Steps
  <2>9. CASE Claim(s)
    BY <2>9 DEF Claim, Goto, ProcTypeOK, HandsFull, Steps
  <2>10. CASE Handle(s)
    BY <2>10 DEF Handle, Goto, ProcTypeOK, HandsFull, Steps
  <2>11. CASE Complete(s) \/ Fail(s) \/ LeaseMismatch(s)
    <3>1. Forget(s) /\ UNCHANGED valkeyVars /\ crashes' \in Nat /\ flushes' \in Nat
      BY <2>11 DEF Complete, Fail, LeaseMismatch, ProcTypeOK
    <3> QED BY <3>1, ForgetProc
  <2> QED BY <1>2, <2>0, <2>1, <2>2, <2>3, <2>4, <2>5, <2>6, <2>7, <2>8, <2>9, <2>10, <2>11 DEF Turn
<1>3. ASSUME NEW s \in Services, Crash(s)
      PROVE  ProcTypeOK' /\ HandsFull'
  <2>1. Forget(s) /\ UNCHANGED valkeyVars /\ crashes' \in Nat /\ flushes' \in Nat
    BY <1>0, <1>3 DEF Crash, ProcTypeOK
  <2> QED BY <1>0, <2>1, ForgetProc
<1>4. CASE ValkeyRestart
  <2>1. queue' \in Seq(Deliveries)
    BY <1>4 DEF ValkeyRestart
  <2> QED BY <1>0, <1>4, <2>1 DEF ValkeyRestart, ProcTypeOK, HandsFull
<1>5. ASSUME NEW k \in Keys, NEW p \in Policies, NEW d \in BOOLEAN, ScheduleJob(k, p, d)
      PROVE  ProcTypeOK' /\ HandsFull'
  BY <1>1, <1>5 DEF ScheduleJob
<1>6. ASSUME NEW k \in Keys, RunAtPasses(k) \/ LeaseLapses(k)
      PROVE  ProcTypeOK' /\ HandsFull'
  BY <1>1, <1>6 DEF RunAtPasses, LeaseLapses
<1>7. CASE UNCHANGED vars
  BY <1>1, <1>7 DEF vars
<1> QED BY <1>2, <1>3, <1>4, <1>5, <1>6, <1>7 DEF Next

\* Every step keeps the messages of the list deduplicated: SETNX guards each LPUSH,
\* and a Valkey restart empties both.
LEMMA QueueStep ==
  ASSUME ProcTypeOK, MessagesDeduped, OneMessagePerDelivery, [Next]_vars
  PROVE  MessagesDeduped' /\ OneMessagePerDelivery'
<1> USE DEF MessagesDeduped, OneMessagePerDelivery
<1>1. CASE UNCHANGED valkeyVars
  BY <1>1
<1>2. ASSUME NEW s \in Services, NEW d \in batch[s], Push(s, d)
      PROVE  MessagesDeduped' /\ OneMessagePerDelivery'
  <2>1. CASE d \in pushed
    BY <1>2, <2>1 DEF Push, NewDelivery
  <2>2. CASE d \notin pushed
    <3>1. queue' = Append(queue, d) /\ pushed' = pushed \cup {d}
      BY <1>2, <2>2 DEF Push, NewDelivery
    <3>2. /\ Len(queue') = Len(queue) + 1
          /\ queue'[Len(queue) + 1] = d
          /\ \A i \in 1..Len(queue) : queue'[i] = queue[i]
      BY <3>1 DEF ProcTypeOK
    <3>3. Len(queue) \in Nat
      BY DEF ProcTypeOK
    <3> QED BY <2>2, <3>1, <3>2, <3>3
  <2> QED BY <2>1, <2>2
<1>3. ASSUME NEW s \in Services, Receive(s)
      PROVE  MessagesDeduped' /\ OneMessagePerDelivery'
  <2>1. CASE queue = <<>>
    BY <1>1, <1>3, <2>1 DEF Receive
  <2>2. CASE queue # <<>>
    <3>1. queue' = Tail(queue) /\ pushed' = pushed
      BY <1>3, <2>2 DEF Receive
    <3>2. /\ Len(queue) \in Nat \ {0}
          /\ Len(queue') = Len(queue) - 1
          /\ \A i \in 1..(Len(queue) - 1) : queue'[i] = queue[i + 1]
      BY <2>2, <3>1 DEF ProcTypeOK
    <3>3. MessagesDeduped'
      BY <3>1, <3>2
    <3>4. OneMessagePerDelivery'
      <4> SUFFICES ASSUME NEW i \in 1..(Len(queue) - 1), NEW j \in 1..(Len(queue) - 1),
                          queue[i + 1] = queue[j + 1]
                   PROVE  i = j
        BY <3>2
      <4> QED BY <3>2
    <3> QED BY <3>3, <3>4
  <2> QED BY <2>1, <2>2
<1>4. CASE ValkeyRestart
  BY <1>4 DEF ValkeyRestart
<1>5. CASE UNCHANGED vars
  BY <1>1, <1>5 DEF vars
<1>6. ASSUME NEW s \in Services, Turn(s), ~Receive(s), ~\E d \in batch[s] : Push(s, d)
      PROVE  UNCHANGED valkeyVars
  BY <1>6 DEF Turn, Recover, Recovered, Select, Mark, PublishedAll, ClaimRefused, ClaimSpent, Claim,
              Handle, Complete, Fail, LeaseMismatch
<1>7. ASSUME NEW k \in Keys, RunAtPasses(k) \/ LeaseLapses(k)
      PROVE  UNCHANGED valkeyVars
  BY <1>7 DEF RunAtPasses, LeaseLapses
<1>8. ASSUME NEW k \in Keys, NEW p \in Policies, NEW d \in BOOLEAN, ScheduleJob(k, p, d)
      PROVE  UNCHANGED valkeyVars
  BY <1>8 DEF ScheduleJob
<1>9. ASSUME NEW s \in Services, Crash(s)
      PROVE  UNCHANGED valkeyVars
  BY <1>9 DEF Crash
<1> QED BY <1>1, <1>2, <1>3, <1>4, <1>5, <1>6, <1>7, <1>8, <1>9 DEF Next

-----------------------------------------------------------------------------
(* The recoveries under way. *)

\* A write to one row, by a process that need not wait for it, takes no lock away and
\* gives none.
LEMMA WriteLocks ==
  ASSUME LocksAreHeld, TxTypeOK, NEW k, NEW v, Free(k),
         state' = [state EXCEPT ![k] = v], UNCHANGED locked
  PROVE  LocksAreHeld'
BY DEF LocksAreHeld, Free, TxTypeOK

\* Whatever happens, the locks of the recoveries under way stay on leased jobs and apart.
LEMMA LocksStep ==
  ASSUME LocksAreHeld, TxTypeOK, TableTypeOK, ProcTypeOK, HandsFull, [Next]_vars
  PROVE  LocksAreHeld' /\ TxTypeOK'
<1>1. CASE UNCHANGED <<state, txVars>>
  BY <1>1 DEF LocksAreHeld, TxTypeOK
<1>2. ASSUME NEW k \in Keys, Touch(k), UNCHANGED ownVars
      PROVE  TxTypeOK'
  BY <1>2 DEF Touch, TxTypeOK
<1>3. ASSUME NEW s \in Services, TxEnds(s)
      PROVE  /\ tx' \in [Services -> {"none", "updated", "reopened"}]
             /\ locked' \in [Services -> SUBSET Keys]
             /\ again' \in [Services -> SUBSET Keys]
             /\ later' \in [Services -> SUBSET Services]
             /\ locked'[s] = {}
             /\ \A r \in Services \ {s} : locked'[r] = locked[r]
  <2>1. later' \in [Services -> SUBSET Services]
    BY <1>3 DEF TxEnds, TxTypeOK
  <2> QED BY <1>3, <2>1 DEF TxEnds, TxTypeOK
<1>4. ASSUME NEW s \in Services, Turn(s)
      PROVE  LocksAreHeld' /\ TxTypeOK'
  <2>1. CASE \/ Select(s) \/ PublishedAll(s) \/ Receive(s) \/ ClaimRefused(s)
             \/ Handle(s) \/ LeaseMismatch(s) \/ \E d \in batch[s] : Push(s, d)
    BY <1>1, <2>1 DEF Select, PublishedAll, Receive, ClaimRefused, Handle, LeaseMismatch, Push
  <2>2. CASE Recover(s)
    <3>1. CASE RecoverUpdates(s)
      <4>1. \A k \in Expired : k \in Keys /\ state[k] = "LEASED" /\ \A r \in Services : k \notin locked[r]
        BY <3>1 DEF RecoverUpdates, Expired, Free
      <4>2. locked' = [locked EXCEPT ![s] = Expired] /\ UNCHANGED <<state, again, since>>
        BY <3>1 DEF RecoverUpdates
      <4>3. later' \in [Services -> SUBSET Services]
        BY <3>1 DEF RecoverUpdates, TxTypeOK
      <4>4. tx' \in [Services -> {"none", "updated", "reopened"}]
        BY <3>1 DEF RecoverUpdates, TxTypeOK
      <4>5. LocksAreHeld'
        BY <4>1, <4>2 DEF LocksAreHeld, TxTypeOK
      <4> QED BY <4>1, <4>2, <4>3, <4>4, <4>5 DEF TxTypeOK
    <3>2. CASE RecoverReopens(s)
      <4>1. LocksAreHeld'
        BY <3>2 DEF RecoverReopens, LocksAreHeld
      <4>2. {k \in LooksRecovered(s) : state[k] = "SCHEDULED"} \in SUBSET Keys
        BY DEF LooksRecovered, TxTypeOK
      <4> QED BY <3>2, <4>1, <4>2 DEF RecoverReopens, TxTypeOK
    <3> QED BY <2>2, <3>1, <3>2 DEF Recover
  <2>3. CASE Recovered(s)
    <3>1. RecoverCommits(s) /\ TxEnds(s)
      BY <2>3 DEF Recovered, RecoverCommits
    <3>2. since' \in [Services -> SUBSET Keys]
      <4>1. since' = [r \in Services |->
              IF r = s \/ ~Recovering(r) THEN {}
              ELSE IF s \in later[r] THEN since[r] \cup locked[s] ELSE since[r] \ locked[s]]
        BY <3>1 DEF RecoverCommits
      <4> QED BY <4>1 DEF TxTypeOK
    <3>3. \A k \in Keys : k \notin locked[s] => state'[k] = state[k]
      BY <3>1 DEF RecoverCommits
    <3>4. LocksAreHeld'
      BY <1>3, <3>1, <3>3 DEF LocksAreHeld, TxTypeOK
    <3> QED BY <1>3, <3>1, <3>2, <3>4 DEF TxTypeOK
  <2>4. CASE Mark(s)
    <3>0. held[s] \in Keys
      BY <2>4 DEF Mark, HandsFull
    <3>1. TxTypeOK'
      BY <1>1, <1>2, <2>4, <3>0 DEF Mark, MarkOutboxPublished, TxTypeOK
    <3>2. UNCHANGED locked /\ \A k \in Keys : state[k] = "LEASED" => state'[k] = "LEASED"
      BY <2>4, <3>0 DEF Mark, MarkOutboxPublished, TableTypeOK
    <3> QED BY <3>1, <3>2 DEF LocksAreHeld, TxTypeOK
  <2>5. CASE ClaimSpent(s) \/ Claim(s)
    <3>0. held[s] \in Keys /\ Free(held[s]) /\ Touch(held[s]) /\ UNCHANGED ownVars
      BY <2>5 DEF ClaimSpent, Claim, ClaimBuries, ClaimLeases, HandsFull
    <3>1. PICK v \in {"LEASED", "DEAD_LETTER"} : state' = [state EXCEPT ![held[s]] = v]
      BY <2>5 DEF ClaimSpent, Claim, ClaimBuries, ClaimLeases
    <3> QED BY <1>2, <3>0, <3>1, WriteLocks
  <2>6. CASE Complete(s) \/ Fail(s)
    <3>0. held[s] \in Keys /\ Free(held[s]) /\ Touch(held[s]) /\ UNCHANGED ownVars
      BY <2>6 DEF Complete, Fail, CompleteJob, FailJob, HandsFull
    <3>1. \E v : state' = [state EXCEPT ![held[s]] = v]
      BY <2>6 DEF Complete, Fail, CompleteJob, FailJob
    <3> QED BY <1>2, <3>0, <3>1, WriteLocks
  <2> QED BY <1>4, <2>1, <2>2, <2>3, <2>4, <2>5, <2>6 DEF Turn
<1>5. ASSUME NEW k \in Keys, NEW p \in Policies, NEW d \in BOOLEAN, ScheduleJob(k, p, d)
      PROVE  LocksAreHeld' /\ TxTypeOK'
  <2>1. UNCHANGED txVars /\ \A j \in Keys : state[j] = "LEASED" => state'[j] = "LEASED"
    BY <1>5 DEF ScheduleJob, TableTypeOK
  <2> QED BY <2>1 DEF LocksAreHeld, TxTypeOK
<1>6. ASSUME NEW k \in Keys, RunAtPasses(k) \/ LeaseLapses(k)
      PROVE  LocksAreHeld' /\ TxTypeOK'
  BY <1>1, <1>6 DEF RunAtPasses, LeaseLapses
<1>7. ASSUME NEW s \in Services, Crash(s)
      PROVE  LocksAreHeld' /\ TxTypeOK'
  <2>1. TxEnds(s) /\ since' = [since EXCEPT ![s] = {}] /\ UNCHANGED state
    BY <1>7 DEF Crash
  <2>2. LocksAreHeld'
    BY <1>3, <2>1 DEF LocksAreHeld
  <2> QED BY <1>3, <2>1, <2>2 DEF TxTypeOK
<1>8. CASE ValkeyRestart
  BY <1>1, <1>8 DEF ValkeyRestart
<1>9. CASE UNCHANGED vars
  BY <1>1, <1>9 DEF vars
<1> QED BY <1>4, <1>5, <1>6, <1>7, <1>8, <1>9 DEF Next

-----------------------------------------------------------------------------
(* The inductive invariant. *)

\* The invariant holds initially.
LEMMA InitIInv == Init => IInv
<1> SUFFICES ASSUME Init PROVE IInv
  OBVIOUS
<1>1. TypeOK
  BY DEF Init, TypeOK, States, Owners, Steps
<1>2. AuditTellsTheEnd
  BY DEF Init, AuditTellsTheEnd, EventTypes, Terminal
<1>5. LocksAreHeld
  BY DEF Init, LocksAreHeld
<1>3. HandsFull /\ ScheduledIsPending /\ WaitingHasBudget /\ SubmittedHasPolicy
  BY DEF Init, HandsFull, ScheduledIsPending, WaitingHasBudget, SubmittedHasPolicy
<1>4. MessagesDeduped /\ OneMessagePerDelivery
  BY DEF Init, MessagesDeduped, OneMessagePerDelivery
<1> QED BY <1>1, <1>2, <1>3, <1>4, <1>5 DEF IInv

\* Every step preserves it.
LEMMA NextIInv == IInv /\ [Next]_vars => IInv'
<1> SUFFICES ASSUME IInv, [Next]_vars PROVE IInv'
  OBVIOUS
<1>1. Tables'
  BY TablesStep, SplitTypeOK DEF IInv, Tables
<1>2. ProcTypeOK' /\ HandsFull'
  BY ProcStep DEF IInv
<1>3. MessagesDeduped' /\ OneMessagePerDelivery'
  BY QueueStep, SplitTypeOK DEF IInv
<1>5. LocksAreHeld' /\ TxTypeOK'
  BY LocksStep, SplitTypeOK DEF IInv
<1>4. TypeOK'
  BY <1>1, <1>2, <1>5 DEF Tables, TypeOK, TableTypeOK, ProcTypeOK, TxTypeOK
<1> QED BY <1>1, <1>2, <1>3, <1>4, <1>5 DEF IInv, Tables

\* IInv holds in every reachable state, whatever the processes, the clock and the
\* faults do.
THEOREM Inductive == Spec => []IInv
BY InitIInv, NextIInv, PTL DEF Spec

\* Type correctness of the scheduler.
THEOREM TypeCorrect == Spec => []TypeOK
<1>1. IInv => TypeOK
  BY DEF IInv
<1> QED BY Inductive, <1>1, PTL

\* A SCHEDULED job's outbox row is PENDING, however publishers, retries and recoveries
\* overlap: the publisher can always find it.
THEOREM OutboxNeverForgets == Spec => []ScheduledIsPending
<1>1. IInv => ScheduledIsPending
  BY DEF IInv
<1> QED BY Inductive, <1>1, PTL

\* scheduler_events tells every publication, attempt and end of a job, whatever rows
\* overlapping recoveries add about jobs that are not theirs.
THEOREM AuditNeverMisleads == Spec => []AuditTellsTheEnd
<1>1. IInv => AuditTellsTheEnd
  BY DEF IInv
<1> QED BY Inductive, <1>1, PTL

\* The dedupe key admits one message of a delivery to the list, however many
\* processes publish.
THEOREM DeliveriesAreDeduped == Spec => []OneMessagePerDelivery
<1>1. IInv => OneMessagePerDelivery
  BY DEF IInv
<1> QED BY Inductive, <1>1, PTL

-----------------------------------------------------------------------------
(* The scheduler implements JobLifecycle. *)

\* Initial states map to initial states.
LEMMA InitJobLifecycle == Init => JL!Init
BY DEF Init, JL!Init, PhaseOf, NoPolicy

\* A set of leases given up in one recovery is one GiveUp of the life cycle.
LEMMA GiveUpMaps ==
  ASSUME IInv, NEW K \in SUBSET Keys, \A k \in K : state[k] = "LEASED",
         state' = [k \in Keys |-> IF k \in K THEN GivenUp(k) ELSE state[k]],
         UNCHANGED <<policy, attempts>>
  PROVE  JL!GiveUp(K)
<1>1. \A k \in Keys : policy[k].max \in Nat /\ attempts[k] \in Nat
  BY PolicyMaxNat, SplitTypeOK DEF IInv, TableTypeOK
<1>2. \A k \in K : PhaseOf(state[k]) = "Running"
  BY DEF PhaseOf
<1>3. \A k \in Keys : PhaseOf(state'[k]) =
        IF k \in K THEN IF attempts[k] < policy[k].max THEN "Waiting" ELSE "Buried"
                   ELSE PhaseOf(state[k])
  BY <1>1 DEF PhaseOf, GivenUp, Spent
<1> QED BY <1>2, <1>3 DEF JL!GiveUp

\* A step that leaves states, attempts and policies alone is a stuttering step.
LEMMA StutterMaps ==
  ASSUME UNCHANGED <<state, policy, attempts>>
  PROVE  UNCHANGED JL!vars
BY DEF JL!vars

\* Every step maps to a step of the life cycle or to a stutter.
LEMMA StepJobLifecycle ==
  ASSUME IInv, [Next]_vars
  PROVE  [JL!Next]_(JL!vars)
<1>0. TableTypeOK /\ HandsFull
  BY SplitTypeOK DEF IInv
<1>1. ASSUME NEW k \in Keys, NEW p \in Policies, NEW d \in BOOLEAN, ScheduleJob(k, p, d)
      PROVE  JL!Next
  <2>1. JL!Submit(k, p.max)
    BY <1>0, <1>1 DEF JL!Submit, ScheduleJob, PhaseOf, TableTypeOK
  <2> QED BY <2>1 DEF JL!Next
<1>2. ASSUME NEW s \in Services, RecoverCommits(s)
      PROVE  JL!Next
  <2>1. locked[s] \in SUBSET Keys /\ \A k \in locked[s] : state[k] = "LEASED"
    BY SplitTypeOK DEF IInv, TxTypeOK, LocksAreHeld
  <2>2. state' = [k \in Keys |-> IF k \in locked[s] THEN GivenUp(k) ELSE state[k]]
        /\ UNCHANGED <<policy, attempts>>
    BY <1>2 DEF RecoverCommits
  <2>3. JL!GiveUp(locked[s])
    BY <2>1, <2>2, GiveUpMaps
  <2> QED BY <2>1, <2>3 DEF JL!Next
<1>3. ASSUME NEW s \in Services, Turn(s)
      PROVE  [JL!Next]_(JL!vars)
  <2>1. CASE Recovered(s)
    BY <1>2, <2>1 DEF Recovered
  <2>2. CASE \/ Recover(s) \/ Select(s) \/ PublishedAll(s) \/ Receive(s) \/ ClaimRefused(s)
             \/ Handle(s) \/ LeaseMismatch(s)
    BY <2>2, StutterMaps DEF Recover, RecoverUpdates, RecoverReopens, Select, PublishedAll,
       Receive, ClaimRefused, Handle, LeaseMismatch
  <2>3. ASSUME NEW d \in batch[s], Push(s, d)
        PROVE  UNCHANGED JL!vars
    BY <2>3, StutterMaps DEF Push
  <2>4. CASE Mark(s)
    <3>1. \A k \in Keys : PhaseOf(state'[k]) = PhaseOf(state[k])
      BY <1>0, <2>4 DEF Mark, MarkOutboxPublished, PhaseOf, TableTypeOK
    <3>2. UNCHANGED <<policy, attempts>>
      BY <2>4 DEF Mark, MarkOutboxPublished
    <3> QED BY <3>1, <3>2 DEF JL!vars
  <2>5. CASE ClaimSpent(s)
    <3>0. held[s] \in Keys
      BY <1>0, <2>5 DEF ClaimSpent, HandsFull
    <3>1. state[held[s]] = "LEASED"
      BY <1>0, <2>5, <3>0, PolicyMaxNat
         DEF ClaimSpent, Claimable, Expired, Spent, IInv, WaitingHasBudget, TableTypeOK
    <3>2. state' = [k \in Keys |-> IF k \in {held[s]} THEN GivenUp(k) ELSE state[k]]
      BY <1>0, <2>5, <3>0 DEF ClaimSpent, ClaimBuries, GivenUp, TableTypeOK
    <3>3. UNCHANGED <<policy, attempts>>
      BY <2>5 DEF ClaimSpent, ClaimBuries
    <3>4. JL!GiveUp({held[s]})
      BY <3>0, <3>1, <3>2, <3>3, GiveUpMaps
    <3> QED BY <3>0, <3>4 DEF JL!Next
  <2>6. CASE Claim(s)
    <3>0. held[s] \in Keys
      BY <1>0, <2>6 DEF Claim, HandsFull
    <3>1. attempts[held[s]] < policy[held[s]].max
      BY <1>0, <2>6, <3>0, PolicyMaxNat DEF Claim, Spent, TableTypeOK
    <3>2. PhaseOf(state[held[s]]) \in {"Waiting", "Running"}
      BY <2>6 DEF Claim, Claimable, Expired, PhaseOf
    <3>3. JL!Try(held[s])
      BY <1>0, <2>6, <3>0, <3>1, <3>2 DEF JL!Try, Claim, ClaimLeases, PhaseOf, TableTypeOK
    <3> QED BY <3>0, <3>3 DEF JL!Next
  <2>8. CASE Complete(s)
    <3>0. held[s] \in Keys /\ state[held[s]] = "LEASED"
      BY <1>0, <2>8 DEF Complete, HandsFull, HoldsLease
    <3>1. JL!Succeed(held[s])
      BY <1>0, <2>8, <3>0 DEF JL!Succeed, Complete, CompleteJob, PhaseOf, TableTypeOK
    <3> QED BY <3>0, <3>1 DEF JL!Next
  <2>9. CASE Fail(s)
    <3>0. held[s] \in Keys /\ state[held[s]] = "LEASED"
      BY <1>0, <2>9 DEF Fail, HandsFull, HoldsLease
    <3>1. state' = [k \in Keys |-> IF k \in {held[s]} THEN GivenUp(k) ELSE state[k]]
      BY <1>0, <2>9, <3>0 DEF Fail, FailJob, TableTypeOK
    <3>2. UNCHANGED <<policy, attempts>>
      BY <2>9 DEF Fail, FailJob
    <3>3. JL!GiveUp({held[s]})
      BY <3>0, <3>1, <3>2, GiveUpMaps
    <3> QED BY <3>0, <3>3 DEF JL!Next
  <2> QED BY <1>3, <2>1, <2>2, <2>3, <2>4, <2>5, <2>6, <2>8, <2>9 DEF Turn
<1>4. ASSUME NEW k \in Keys, RunAtPasses(k) \/ LeaseLapses(k)
      PROVE  UNCHANGED JL!vars
  BY <1>4, StutterMaps DEF RunAtPasses, LeaseLapses
<1>5. ASSUME NEW s \in Services, Crash(s)
      PROVE  UNCHANGED JL!vars
  BY <1>5, StutterMaps DEF Crash
<1>6. CASE ValkeyRestart
  BY <1>6, StutterMaps DEF ValkeyRestart
<1>7. CASE UNCHANGED vars
  BY <1>7, StutterMaps DEF vars
<1> QED BY <1>1, <1>3, <1>4, <1>5, <1>6, <1>7 DEF Next

\* The scheduler, with its outbox, queue, leases, crashes and restarts, implements
\* the job life cycle: no more than max_attempts tries, nothing moves once ended.
THEOREM Refinement == Spec => ImplementsJobLifecycle
BY InitJobLifecycle, Inductive, StepJobLifecycle, PTL DEF Spec, ImplementsJobLifecycle, JL!Spec

=============================================================================
