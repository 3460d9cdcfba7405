----------------------------- MODULE TokenLedger -----------------------------
(***************************************************************************)
(* One tenant's AI token ledger: the functions of 080 to 082 and 123, 125  *)
(* on organisation_entitlements, ai_token_reservations and the identity    *)
(* schema's trial account, with the triggers they fire, and the requests   *)
(* of /ai/authorize, /ai/usage/reconcile and /ai/usage/release that call   *)
(* them.  An authorization is four transactions,                           *)
(*                                                                         *)
(*   start the prepared trial -> expire a due trial -> reserve -> read     *)
(*                                                                         *)
(* and any other request, the clock and the billing and retention modules  *)
(* may come between two of them.  A function is one transaction and so one *)
(* step, except the two that rely on something they read without a lock:   *)
(* reserve_ai_tokens looks its operation up before it has the entitlement's *)
(* row lock and again with it, and the trial's INSERT looks for a deletion *)
(* tombstone before it may have to wait for the workspace row.             *)
(*                                                                         *)
(* The tables are isolated by tenant, so one tenant is the whole model.    *)
(* An entitlement is named by its kind (a tenant has at most one trial     *)
(* ever, and the one paid row is updated in place), a reservation by its   *)
(* operation id, which is unique.  A request's terms are its token count.  *)
(* The identity runtime is enabled: trials start on the first request.     *)
(***************************************************************************)
EXTENDS Integers, FiniteSetsExt, Functions

CONSTANTS Operations,    \* operation ids: texts of 8 to 200 characters
          Callers,       \* authorization requests in flight at once
          Amounts,       \* token counts a request may ask for
          TrialBudget,   \* token_budget_total of a trial (1 000 000)
          GrantTokens,   \* token_budget_ceiling of the trial grant
          GrantCost,     \* cost_budget_microunits of the trial grant
          Rate,          \* cost_microunits_per_token
          TrialTerm,     \* the 7 days of a trial, in ticks
          TokenTTL,      \* life of a capability token, clock skew included
          MaxTime        \* bound: ticks of the clock

ASSUME LedgerAssumption ==
  /\ IsFiniteSet(Operations)
  /\ Amounts \subseteq Nat \ {0}
  /\ {TrialBudget, GrantTokens, GrantCost, Rate, TrialTerm, TokenTTL, MaxTime} \subseteq Nat
  /\ Rate > 0 /\ GrantTokens <= TrialBudget

Kinds == {"TRIAL", "PAID_MONTHLY"}
EntitlementStates == {"ABSENT", "ACTIVE", "READ_ONLY", "SUSPENDED", "CANCELLED"}
ReservationStates == {"NONE", "RESERVED", "RECONCILED", "RELEASED"}
BeingDeleted == {"DELETION_REQUESTED", "PURGE_QUEUED", "PURGING"}
WorkspaceStates == {"NONE", "ACTIVE", "READ_ONLY", "SUSPENDED"} \cup BeingDeleted

VARIABLES
  \* organisation_entitlements
  entitlement, reserved, consumed, trialEnds,
  \* ai_token_reservations, and trial_cost_reservations by their state
  reservation, costRow,
  \* trial_grants.state and trial_usage_accounts
  grant, account,
  \* workspace_lifecycle.state, and whether the tenant has a deletion tombstone
  workspace, tombstone,
  \* authorizations in flight, when the capability token of an operation ends
  call, token,
  \* an open deletion request, which holds the workspace row, and the
  \* reservation rows it has released and not committed
  deleting, locked,
  now

entitlementVars == <<entitlement, reserved, consumed, trialEnds>>
reservationVars == <<reservation, costRow, account>>
requestVars == <<call, token>>
lockVars == <<deleting, locked>>
ledgerVars == <<entitlementVars, reservationVars, grant, workspace, tombstone,
                requestVars, lockVars, now>>

NoReservation == [state |-> "NONE", kind |-> "TRIAL", tokens |-> 0, actual |-> 0]
NoAccount == [open |-> FALSE, reserved |-> 0, consumed |-> 0,
              costReserved |-> 0, costConsumed |-> 0]
Idle == [pc |-> "idle"]
Request == [pc : {"start", "sweep", "lookup", "lock", "read"}, op : Operations,
            tokens : Amounts, at : 0..MaxTime]

Init ==
  /\ entitlement = [k \in Kinds |-> "ABSENT"]
  /\ reserved = [k \in Kinds |-> 0]
  /\ consumed = [k \in Kinds |-> 0]
  /\ trialEnds = 0
  /\ reservation = [o \in Operations |-> NoReservation]
  /\ costRow = [o \in Operations |-> "NONE"]
  /\ grant \in {"ELIGIBILITY_PENDING", "READY"}
  /\ account = NoAccount
  /\ workspace = "NONE"
  /\ tombstone = FALSE
  /\ call = [c \in Callers |-> Idle]
  /\ token = [o \in Operations |-> 0]
  /\ deleting = FALSE
  /\ locked = {}
  /\ now = 0

-----------------------------------------------------------------------------
(* Helpers on the rows. *)

\* The open reservations drawn on an entitlement.
OpenOn(k) ==
  {o \in Operations : reservation[o].state = "RESERVED" /\ reservation[o].kind = k}

\* What the rows hold, what was used of them, and what some of them hold together.
Tokens == [o \in Operations |-> reservation[o].tokens]
Actuals == [o \in Operations |-> reservation[o].actual]
TokensOf(S) == SumFunctionOnSet(Tokens, S)

\* The open deletion request has not updated the entitlement's row.
Unlocked(k) == \A o \in locked : reservation[o].kind # k

\* A transaction has inserted the trial and not committed it.
Starting == \E c \in Callers : call[c].pc = "start"

\* [mutant] the entitlement's state whatever the workspace is in
SyncedAlways(w, state) == IF state = "CANCELLED" THEN w ELSE state

\* sync_workspace_lifecycle_from_entitlement: an entitlement's new state is the
\* workspace's, unless it is CANCELLED or the workspace is being deleted.
Synced(w, state) ==
  IF w \in BeingDeleted \/ state = "CANCELLED" THEN w ELSE state

\* [mutant] only a released row is refused
NotReleased(o) == reservation[o].state \in {"RESERVED", "RECONCILED"}

Open(o) == reservation[o].state = "RESERVED"

\* [mutant] the cost is settled only while the trial is active
CostOpenWhileActive(o) == costRow[o] = "RESERVED" /\ entitlement["TRIAL"] = "ACTIVE"

\* The row has a cost reservation that is not settled, whatever became of the trial.
CostOpen(o) == costRow[o] = "RESERVED"

\* [mutant] the hold is kept
ChargeAndHold(k, n, used) ==
  UNCHANGED reserved /\ consumed' = [consumed EXCEPT ![k] = @ + used]

\* The entitlement gives back a hold of n tokens of which some were used.
Charge(k, n, used) ==
  /\ reserved' = [reserved EXCEPT ![k] = @ - n]
  /\ consumed' = [consumed EXCEPT ![k] = @ + used]

\* A row leaves RESERVED with reconcile_trial_cost_from_tokens, its trigger: if it
\* has a cost row, the account gives up what it held and takes on what it used, at
\* requested cost * actual / requested in whole microunits.
Settle(o, state, used) ==
  LET n == reservation[o].tokens
      cost == n * Rate
  IN
  /\ reservation' = [reservation EXCEPT ![o].state = state, ![o].actual = used]
  /\ IF CostOpen(o)
     THEN /\ costRow' = [costRow EXCEPT ![o] = state]
          /\ account' = [account EXCEPT !.reserved = @ - n, !.consumed = @ + used,
                            !.costReserved = @ - cost,
                            !.costConsumed = @ + (cost * used) \div n]
     ELSE UNCHANGED <<costRow, account>>

\* [mutant] the trigger is missed when many rows change at once
ReleaseRowsOnly(S) ==
  /\ reservation' = [o \in Operations |->
       IF o \in S THEN [reservation[o] EXCEPT !.state = "RELEASED"] ELSE reservation[o]]
  /\ UNCHANGED <<costRow, account>>

\* One UPDATE releases all rows of S, with the trigger's work for each of them.
ReleaseRows(S) ==
  LET held == TokensOf({o \in S : CostOpen(o)})
  IN
  /\ reservation' = [o \in Operations |->
       IF o \in S THEN [reservation[o] EXCEPT !.state = "RELEASED"] ELSE reservation[o]]
  /\ costRow' = [o \in Operations |->
       IF o \in S /\ CostOpen(o) THEN "RELEASED" ELSE costRow[o]]
  /\ account' = [account EXCEPT !.reserved = @ - held, !.costReserved = @ - held * Rate]

TrialDue(t) == entitlement["TRIAL"] = "ACTIVE" /\ trialEnds <= t

\* [mutant] a state the table does not have
ExpireToExpired ==
  /\ ~deleting
  /\ entitlement' = [entitlement EXCEPT !["TRIAL"] = "EXPIRED"]
  /\ workspace' = Synced(workspace, "READ_ONLY")

\* expire_due_trial of a trial that is due: the state's trigger needs the workspace row
Expire ==
  /\ ~deleting
  /\ entitlement' = [entitlement EXCEPT !["TRIAL"] = "READ_ONLY"]
  /\ workspace' = Synced(workspace, "READ_ONLY")

GoOn(c, pc) == call' = [call EXCEPT ![c].pc = pc]
Answer(c) == call' = [call EXCEPT ![c] = Idle]
-----------------------------------------------------------------------------
(* POST /ai/authorize *)

\* The tenant's trial exists already, whatever its state: the request goes on.
Authorize(c, o, n) ==
  /\ call[c] = Idle
  /\ entitlement["TRIAL"] # "ABSENT"
  /\ call' = [call EXCEPT ![c] = [pc |-> "sweep", op |-> o, tokens |-> n, at |-> now]]
  /\ UNCHANGED <<entitlementVars, reservationVars, grant, workspace, tombstone,
                 token, lockVars, now>>

\* start_prepared_identity_trial up to the trial's INSERT: it has the grant's row
\* (nobody else is starting), the grant is ready, no entitlement is active (unique
\* index) and the tenant has no tombstone (insert trigger).
StartTrial(c, o, n) ==
  /\ call[c] = Idle
  /\ ~Starting
  /\ entitlement["TRIAL"] = "ABSENT"
  /\ grant = "READY"
  /\ \A k \in Kinds : entitlement[k] # "ACTIVE"
  /\ ~tombstone
  /\ call' = [call EXCEPT ![c] = [pc |-> "start", op |-> o, tokens |-> n, at |-> now]]
  /\ UNCHANGED <<entitlementVars, reservationVars, grant, workspace, tombstone,
                 token, lockVars, now>>

\* The rest of it: the workspace row (insert trigger), the grant and its account.
CommitTrial(c) ==
  /\ call[c].pc = "start"
  /\ ~deleting
  /\ entitlement' = [entitlement EXCEPT !["TRIAL"] = "ACTIVE"]
  /\ trialEnds' = call[c].at + TrialTerm
  /\ workspace' = Synced(workspace, "ACTIVE")
  /\ grant' = "ACTIVE"
  /\ account' = [NoAccount EXCEPT !.open = TRUE]
  /\ GoOn(c, "sweep")
  /\ UNCHANGED <<reserved, consumed, reservation, costRow, tombstone, token, lockVars, now>>

\* EntitlementRepository.reserve: take the time, expire a due trial in a
\* transaction of its own, and give up if there was one.
Sweep(c) ==
  /\ call[c].pc = "sweep"
  /\ IF TrialDue(now)
     THEN Expire /\ Answer(c)
     ELSE /\ call' = [call EXCEPT ![c].pc = "lookup", ![c].at = now]
          /\ UNCHANGED <<entitlement, workspace>>
  /\ UNCHANGED <<reserved, consumed, trialEnds, reservationVars, grant, tombstone,
                 token, lockVars, now>>

\* [mutant] the terms are not compared
ReplayAny(c) == GoOn(c, "read")

\* The operation is reserved already: the same terms return that row, whatever
\* its state, other terms are a conflict.
Replay(c) ==
  LET same == reservation[call[c].op].tokens = call[c].tokens
  IN IF same THEN GoOn(c, "read") ELSE Answer(c)

\* reserve_ai_tokens before it has the entitlement's lock
Lookup(c) ==
  /\ call[c].pc = "lookup"
  /\ IF reservation[call[c].op].state # "NONE" THEN Replay(c)
     ELSE GoOn(c, "lock")
  /\ UNCHANGED <<entitlementVars, reservationVars, grant, workspace, tombstone,
                 token, lockVars, now>>

\* [mutant] open reservations are not counted
AccountAdmitsUnspent(n) ==
  /\ grant = "ACTIVE" /\ account.open
  /\ account.consumed + n <= GrantTokens
  /\ account.costConsumed + n * Rate <= GrantCost

\* reserve_trial_cost_from_tokens: the trial's own grant and account bound it too.
AccountAdmits(n) ==
  /\ grant = "ACTIVE"
  /\ account.open
  /\ account.reserved + account.consumed + n <= GrantTokens
  /\ account.costReserved + account.costConsumed + n * Rate <= GrantCost

\* Every check of reserve_ai_tokens and of the insert's triggers.  The time is
\* the one the request took before its sweep.
Admits(k, n, at) ==
  /\ workspace \in {"NONE", "ACTIVE"}
  /\ k = "TRIAL" =>
       /\ at < trialEnds
       /\ reserved[k] + consumed[k] + n <= TrialBudget
       /\ AccountAdmits(n)

Draw(c, k, o, n) ==
  /\ reservation' = [reservation EXCEPT
       ![o] = [state |-> "RESERVED", kind |-> k, tokens |-> n, actual |-> 0]]
  /\ reserved' = [reserved EXCEPT ![k] = @ + n]
  /\ IF k = "TRIAL"
     THEN /\ costRow' = [costRow EXCEPT ![o] = "RESERVED"]
          /\ account' = [account EXCEPT !.reserved = @ + n, !.costReserved = @ + n * Rate]
     ELSE UNCHANGED <<costRow, account>>
  /\ GoOn(c, "read")

\* reserve_ai_tokens under the lock of the active entitlement; without an active
\* one, or where a check fails, the request is refused.
Reserve(c) ==
  LET o == call[c].op
      n == call[c].tokens
      active == {k \in Kinds : entitlement[k] = "ACTIVE"}
  IN
  /\ call[c].pc = "lock"
  /\ \A k \in active : Unlocked(k)
  /\ \/ /\ active # {} /\ reservation[o].state # "NONE"
        /\ Replay(c)
        /\ UNCHANGED <<reserved, reservationVars>>
     \/ \E k \in active :
          /\ reservation[o].state = "NONE"
          /\ Admits(k, n, call[c].at)
          /\ Draw(c, k, o, n)
     \/ /\ \/ active = {}
           \/ \E k \in active :
                reservation[o].state = "NONE" /\ ~Admits(k, n, call[c].at)
        /\ Answer(c)
        /\ UNCHANGED <<reserved, reservationVars>>
  /\ UNCHANGED <<entitlement, consumed, trialEnds, grant, workspace, tombstone,
                 token, lockVars, now>>

\* EntitlementRepository.usage, which sweeps again, and the answer: a capability
\* token for the reservation, unless the tenant has no entitlement left.
Read(c) ==
  /\ call[c].pc = "read"
  /\ IF TrialDue(now) THEN Expire
     ELSE UNCHANGED <<entitlement, workspace>>
  /\ token' = IF \E k \in Kinds : entitlement[k] # "ABSENT"
              THEN [token EXCEPT ![call[c].op] = now + TokenTTL] ELSE token
  /\ Answer(c)
  /\ UNCHANGED <<reserved, consumed, trialEnds, reservationVars, grant, tombstone,
                 lockVars, now>>
-----------------------------------------------------------------------------
(* Settling a reservation.  Both routes need a token that has not expired, and *)
(* neither asks whether the entitlement is still active.                       *)

Reconcile(o, actual) ==
  LET row == reservation[o] IN
  /\ token[o] > now
  /\ o \notin locked /\ Unlocked(row.kind)
  /\ Open(o)
  /\ actual \in 0..row.tokens
  /\ Charge(row.kind, row.tokens, actual)
  /\ Settle(o, "RECONCILED", actual)
  /\ UNCHANGED <<entitlement, trialEnds, grant, workspace, tombstone, requestVars,
                 lockVars, now>>

Release(o) ==
  LET row == reservation[o] IN
  /\ token[o] > now
  /\ o \notin locked /\ Unlocked(row.kind)
  /\ Open(o)
  /\ Charge(row.kind, row.tokens, 0)
  /\ Settle(o, "RELEASED", 0)
  /\ UNCHANGED <<entitlement, trialEnds, grant, workspace, tombstone, requestVars,
                 lockVars, now>>

\* Every reader of the entitlement, and POST /trials/expire, expires a due trial.
ExpireTrial ==
  /\ TrialDue(now)
  /\ Expire
  /\ UNCHANGED <<reserved, consumed, trialEnds, reservationVars, grant, tombstone,
                 requestVars, lockVars, now>>

\* approve_trial_step_up
ApproveStepUp ==
  /\ grant = "ELIGIBILITY_PENDING"
  /\ grant' = "READY"
  /\ UNCHANGED <<entitlementVars, reservationVars, workspace, tombstone,
                 requestVars, lockVars, now>>

Tick ==
  /\ now < MaxTime
  /\ now' = now + 1
  /\ UNCHANGED <<entitlementVars, reservationVars, grant, workspace, tombstone,
                 requestVars, lockVars>>

LedgerNext ==
  \/ \E c \in Callers, o \in Operations, n \in Amounts :
       Authorize(c, o, n) \/ StartTrial(c, o, n)
  \/ \E c \in Callers : CommitTrial(c) \/ Sweep(c) \/ Lookup(c) \/ Reserve(c) \/ Read(c)
  \/ \E o \in Operations : \E actual \in 0..reservation[o].tokens : Reconcile(o, actual)
  \/ \E o \in Operations : Release(o)
  \/ ExpireTrial \/ ApproveStepUp \/ Tick

Spec == Init /\ [][LedgerNext]_ledgerVars
-----------------------------------------------------------------------------
(* Properties *)

TypeOK ==
  /\ entitlement \in [Kinds -> EntitlementStates]
  /\ reserved \in [Kinds -> Int] /\ consumed \in [Kinds -> Nat]
  /\ trialEnds \in Nat
  /\ reservation \in [Operations -> [state : ReservationStates, kind : Kinds,
                                      tokens : Nat, actual : Nat]]
  /\ costRow \in [Operations -> ReservationStates]
  /\ grant \in {"ELIGIBILITY_PENDING", "READY", "ACTIVE"}
  /\ account \in [open : BOOLEAN, reserved : Int, consumed : Nat,
                   costReserved : Int, costConsumed : Nat]
  /\ workspace \in WorkspaceStates
  /\ tombstone \in BOOLEAN
  /\ call \in [Callers -> {Idle} \cup Request]
  /\ token \in [Operations -> Nat]
  /\ deleting \in BOOLEAN /\ locked \subseteq Operations
  /\ now \in 0..MaxTime

\* The counters of an entitlement are the sums of its reservations.
SpentOn(k) ==
  {o \in Operations : reservation[o].state = "RECONCILED" /\ reservation[o].kind = k}

LedgerBalanced ==
  \A k \in Kinds :
    /\ reserved[k] = TokensOf(OpenOn(k))
    /\ consumed[k] = SumFunctionOnSet(Actuals, SpentOn(k))

\* The trial's cost account agrees with its entitlement, in tokens and at the price.
AccountAgrees ==
  entitlement["TRIAL"] # "ABSENT" =>
    /\ account.reserved = reserved["TRIAL"]
    /\ account.consumed = consumed["TRIAL"]
    /\ account.costReserved = Rate * reserved["TRIAL"]
    /\ account.costConsumed = Rate * consumed["TRIAL"]

\* The token ledger, which the functions keep, and the cost account, which triggers
\* keep, both add up: no request, retry, settlement, expiry, provider event or
\* deletion loses a reservation or counts one twice.
BooksAgree == LedgerBalanced /\ AccountAgrees

\* No interleaving of reservations and settlements takes the trial over its token
\* budget, its grant's ceiling or its cost budget (the tables' CHECKs never fire).
WithinBudget ==
  /\ reserved["TRIAL"] + consumed["TRIAL"] <= TrialBudget
  /\ account.reserved + account.consumed <= GrantTokens
  /\ account.costReserved + account.costConsumed <= GrantCost

\* An authorization that is about to answer has a reservation of its own terms,
\* also when a retry of the operation with other terms overtook it.
AnswerMatchesReservation ==
  \A c \in Callers : call[c].pc = "read" /\ ~tombstone =>
    /\ reservation[call[c].op].state # "NONE"
    /\ reservation[call[c].op].tokens = call[c].tokens

\* A settled reservation is settled for good: neither a second settlement nor a
\* replay of its operation reopens it or changes what it used.
SettlementIsFinal ==
  [][\A o \in Operations :
       reservation[o].state \in {"RECONCILED", "RELEASED"} /\ ~tombstone'
         => reservation'[o] = reservation[o]]_reservation

\* The trial's ledger keeps the promise of TokenBudget.
Budget == INSTANCE TokenBudget WITH
  Budget <- TrialBudget, held <- reserved["TRIAL"], spent <- consumed["TRIAL"]
ImplementsBudget == Budget!Spec
=============================================================================
