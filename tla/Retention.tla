------------------------------ MODULE Retention ------------------------------
(***************************************************************************)
(* Suspension and deletion of a workspace: 090 and 132, and run_once of    *)
(* retention_worker.py, composed with the token ledger and the paid        *)
(* lifecycle of the same tenant into the whole tenant (TenantSpec).        *)
(*                                                                         *)
(* request_workspace_deletion is two steps: its release of the open        *)
(* reservations does not lock the entitlements that have none, and the     *)
(* reservation guard reads the workspace row without a lock, so that a     *)
(* reservation can still commit before the request does.  A purge that     *)
(* raises is rolled back with its own PURGE_FAILED, and leaves the claim.  *)
(***************************************************************************)
EXTENDS Billing

CONSTANTS PurgeWorkers, NoWorker,
          RetentionTerm, \* the retention period, in ticks
          LeaseTerm      \* purge_lease_seconds, in ticks

\* Both terms are settings, and at least a second long.
ASSUME RetentionAssumption ==
  /\ {RetentionTerm, LeaseTerm} \subseteq Nat \ {0}
  /\ NoWorker \notin PurgeWorkers

VARIABLES
  retentionUntil,        \* workspace_lifecycle.retention_until
  lease,                 \* purge_lease_owner and purge_lease_expires_at
  purging                \* workers between their claim and their purge

retentionVars == <<retentionUntil, lease, purging>>
tenantVars == <<ledgerVars, billingVars, retentionVars>>

NoLease == [owner |-> NoWorker, until |-> 0]

TenantInit ==
  /\ LedgerAndBillingInit
  /\ retentionUntil = 0
  /\ lease = NoLease
  /\ purging = {}

\* The first statement of a deletion request that has the workspace row.
RequestDeletion ==
  /\ ~deleting
  /\ workspace \notin BeingDeleted \cup {"NONE"}
  /\ deleting' = TRUE
  /\ locked' = {o \in Operations : reservation[o].state = "RESERVED"}
  /\ UNCHANGED <<entitlementVars, reservationVars, grant, workspace, tombstone,
                 requestVars, now, billingVars, retentionVars>>

\* Its totals, the suspension of every live entitlement, and its commit.
CommitDeletion ==
  LET released(k) == TokensOf({o \in locked : reservation[o].kind = k})
  IN
  /\ deleting
  /\ ReleaseRows(locked)
  /\ reserved' = [k \in Kinds |-> Max({0, reserved[k] - released(k)})]
  /\ entitlement' = [k \in Kinds |->
       IF entitlement[k] \in {"ACTIVE", "READ_ONLY"} THEN "SUSPENDED" ELSE entitlement[k]]
  /\ workspace' = "DELETION_REQUESTED"
  /\ retentionUntil' = now + RetentionTerm
  /\ lease' = NoLease
  /\ deleting' = FALSE /\ locked' = {}
  /\ UNCHANGED <<consumed, trialEnds, grant, tombstone, requestVars, now, billingVars,
                 purging>>

\* operator_suspend_workspace: open reservations stay open
SuspendWorkspace ==
  /\ ~deleting
  /\ workspace \in {"ACTIVE", "READ_ONLY", "SUSPENDED"}
  /\ entitlement' = [k \in Kinds |->
       IF entitlement[k] \in {"ACTIVE", "READ_ONLY"} THEN "SUSPENDED" ELSE entitlement[k]]
  /\ workspace' = "SUSPENDED"
  /\ UNCHANGED <<reserved, consumed, trialEnds, reservationVars, grant, tombstone,
                 requestVars, lockVars, now, billingVars, retentionVars>>

\* [mutant] the deadline is not looked at
DueAtOnce == retentionUntil > 0

PurgeDue == retentionUntil <= now

\* queue_due_workspace_purges
QueueDue ==
  /\ workspace = "DELETION_REQUESTED"
  /\ PurgeDue
  /\ workspace' = "PURGE_QUEUED"
  /\ UNCHANGED <<entitlementVars, reservationVars, grant, tombstone, requestVars,
                 lockVars, now, billingVars, retentionVars>>

\* claim_workspace_purge: a queued purge, or one whose lease has run out
ClaimPurge(w) ==
  /\ w \notin purging
  /\ \/ workspace = "PURGE_QUEUED"
     \/ workspace = "PURGING" /\ lease.until <= now
  /\ workspace' = "PURGING"
  /\ lease' = [owner |-> w, until |-> now + LeaseTerm]
  /\ purging' = purging \cup {w}
  /\ UNCHANGED <<entitlementVars, reservationVars, grant, tombstone, requestVars,
                 lockVars, now, billingVars, retentionUntil>>

\* Every row of the tenant goes.  The grant and the account are the identity schema's.
Wipe ==
  /\ entitlement' = [k \in Kinds |-> "ABSENT"]
  /\ reserved' = [k \in Kinds |-> 0] /\ consumed' = [k \in Kinds |-> 0]
  /\ reservation' = [o \in Operations |-> NoReservation]
  /\ costRow' = [o \in Operations |-> "NONE"]
  /\ selection' = [s \in Selections |-> NothingSelected]
  /\ paidFor' = NoSelection
  /\ receipts' = {}
  /\ workspace' = "NONE"
  /\ tombstone' = TRUE
  /\ retentionUntil' = 0 /\ lease' = NoLease
  /\ UNCHANGED <<trialEnds, account, grant, requestVars, lockVars, now, providerVars>>

\* purge_claimed_workspace by the owner of the claim.  The worker compares the lease
\* with the time of its claim, so the lease may have run out.  A tenant has one tombstone:
\* where one stands already, its insertion raises.
Purge(w) ==
  /\ w \in purging
  /\ workspace = "PURGING" /\ lease.owner = w
  /\ ~tombstone
  /\ Wipe
  /\ purging' = purging \ {w}

\* The purge raises, finds another owner's lease, or the worker dies.
GiveUpPurge(w) ==
  /\ w \in purging
  /\ purging' = purging \ {w}
  /\ UNCHANGED <<ledgerVars, billingVars, retentionUntil, lease>>

\* reapply_deletion_tombstone
ReapplyTombstone ==
  /\ tombstone
  /\ ~deleting
  /\ Wipe
  /\ UNCHANGED purging

TenantNext ==
  \/ LedgerNext /\ UNCHANGED <<billingVars, retentionVars>>
  \/ BillingNext /\ UNCHANGED retentionVars
  \/ RequestDeletion \/ CommitDeletion \/ SuspendWorkspace
  \/ QueueDue \/ ReapplyTombstone
  \/ \E w \in PurgeWorkers : ClaimPurge(w) \/ Purge(w) \/ GiveUpPurge(w)

TenantSpec == TenantInit /\ [][TenantNext]_tenantVars
-----------------------------------------------------------------------------
(* Properties *)

\* A workspace under deletion leaves it only by its purge: no expiry, provider event,
\* trial or operator brings it back.
DeletionIsSticky ==
  [][(workspace \in BeingDeleted) => workspace' \in BeingDeleted \/ tombstone']_workspace

\* A workspace is erased no sooner than the retention period after the request,
\* whatever claims, lapsed leases and second workers there were.
RetentionIsKept ==
  [][~tombstone /\ tombstone' => retentionUntil > 0 /\ retentionUntil <= now]_tombstone
=============================================================================
