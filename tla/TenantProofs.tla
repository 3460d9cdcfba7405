---------------------------- MODULE TenantProofs ----------------------------
(***************************************************************************)
(* Theorems about the paid lifecycle beside the ledger (BillingSpec) and   *)
(* about the whole tenant (TenantSpec), with suspension, deletion and      *)
(* purge, for every set of operations, requests, selections and workers,   *)
(* every term and every bound on the events Stripe sends.                  *)
(*                                                                         *)
(* The ledger's invariant survives the others' steps because each of them  *)
(* either moves no tokens (StandKeeps), releases whole rows and has the    *)
(* entitlement give up what they held (ReleaseKeeps), or erases all        *)
(* (WipeKeeps).  The locks of an open deletion request say that what it    *)
(* releases at its commit is still open.                                   *)
(***************************************************************************)
EXTENDS Retention, TokenLedgerProofs

USE DEF entitlementVars, reservationVars, requestVars, lockVars,
        providerVars, billingVars, retentionVars

\* While a deletion request is open the workspace is not being deleted yet; the rows
\* it has released are open, and there are none otherwise.
Locks ==
  /\ deleting => workspace \notin BeingDeleted
  /\ ~deleting => locked = {}
  /\ \A o \in locked : reservation[o].state = "RESERVED"
-----------------------------------------------------------------------------
(* What a step of each part leaves of the others' state *)

\* A state that is not a deletion's does not become one by the entitlements' trigger.
LEMMA SyncedStays ==
  ASSUME NEW w, NEW state \in {"ACTIVE", "READ_ONLY", "SUSPENDED", "CANCELLED"}
  PROVE  /\ w \in BeingDeleted => Synced(w, state) = w
         /\ w \notin BeingDeleted => Synced(w, state) \notin BeingDeleted
BY DEF Synced, BeingDeleted

\* The ledger's own steps keep the workspace where it is with respect to a deletion.
LEMMA LedgerFrame ==
  ASSUME TypeOK, [LedgerNext]_ledgerVars
  PROVE  /\ UNCHANGED <<tombstone, deleting, locked>>
         /\ workspace \in BeingDeleted => workspace' = workspace
         /\ workspace \notin BeingDeleted => workspace' \notin BeingDeleted
         /\ now' \in Nat /\ now <= now'
<1> DEFINE Kept == /\ UNCHANGED <<tombstone, deleting, locked>>
                   /\ workspace \in BeingDeleted => workspace' = workspace
                   /\ workspace \notin BeingDeleted => workspace' \notin BeingDeleted
                   /\ now' \in Nat /\ now <= now'
<1>0. now \in Nat
  BY ConstantTypes DEF TypeOK
<1>1. ASSUME Expire, UNCHANGED <<tombstone, lockVars, now>> PROVE Kept
  BY <1>0, <1>1, SyncedStays DEF Expire
<1>2. ASSUME UNCHANGED <<workspace, tombstone, lockVars, now>> PROVE Kept
  BY <1>0, <1>2
<1>3. ASSUME NEW c \in Callers, CommitTrial(c) PROVE Kept
  BY <1>0, <1>3, SyncedStays DEF CommitTrial
<1>4. ASSUME Tick PROVE Kept
  BY <1>0, <1>4 DEF Tick
<1> HIDE DEF Kept
<1>5. ASSUME NEW c \in Callers, NEW o \in Operations, NEW n \in Amounts,
             Authorize(c, o, n) \/ StartTrial(c, o, n)
      PROVE  Kept
  BY <1>2, <1>5 DEF Authorize, StartTrial
<1>6. ASSUME NEW c \in Callers, Sweep(c) \/ Lookup(c) \/ Reserve(c) \/ Read(c) PROVE Kept
  BY <1>1, <1>2, <1>6 DEF Sweep, Lookup, Reserve, Read
<1>7. ASSUME NEW o \in Operations,
             (\E actual \in 0..reservation[o].tokens : Reconcile(o, actual)) \/ Release(o)
      PROVE  Kept
  BY <1>2, <1>7 DEF Reconcile, Release
<1>8. ASSUME ExpireTrial \/ ApproveStepUp \/ UNCHANGED ledgerVars PROVE Kept
  BY <1>1, <1>2, <1>8 DEF ExpireTrial, ApproveStepUp, ledgerVars
<1>9. Kept
  BY <1>3, <1>4, <1>5, <1>6, <1>7, <1>8 DEF LedgerNext
<1> QED BY <1>9 DEF Kept

\* Open rows are released, and each entitlement gives up what its own of them held: the
\* budgets, the books and the answers survive.
LEMMA ReleaseKeeps ==
  ASSUME IInv, NEW S \in SUBSET Operations,
         \A o \in S : reservation[o].state = "RESERVED", ReleaseRows(S),
         reserved' = [k \in Kinds |->
           reserved[k] - TokensOf({o \in S : reservation[o].kind = k})],
         UNCHANGED <<consumed, trialEnds, grant, tombstone, requestVars>>,
         entitlement' \in [Kinds -> EntitlementStates],
         entitlement'["TRIAL"] = "ABSENT" <=> entitlement["TRIAL"] = "ABSENT",
         workspace' \in WorkspaceStates,
         deleting' \in BOOLEAN, locked' \subseteq Operations, now' \in 0..MaxTime
  PROVE  IInv'
<1> USE ConstantTypes
<1>1. TypeOK /\ RowsHaveTokens /\ WithinBudget /\ AnswerMatchesReservation /\ Books
  BY DEF IInv
<1> DEFINE held == TokensOf({o \in S : CostOpen(o)})
           price == held * Rate
<1>2. \A T \in SUBSET Operations : TokensOf(T) \in Nat
  BY <1>1, RowFunctions, SumParts DEF TokensOf
<1>3. held \in Nat /\ price \in Nat
  <2>1. {o \in S : CostOpen(o)} \in SUBSET Operations
    OBVIOUS
  <2> QED BY <2>1, <1>2
<1>4. \A k \in Kinds : TokensOf({o \in S : reservation[o].kind = k}) \in Nat
  <2>1. \A k \in Kinds : {o \in S : reservation[o].kind = k} \in SUBSET Operations
    OBVIOUS
  <2> QED BY <2>1, <1>2
<1>5. reserved' \in [Kinds -> Int] /\ \A k \in Kinds : reserved'[k] <= reserved[k]
  BY <1>1, <1>4 DEF TypeOK
<1>6. /\ reservation' \in [Operations -> [state : ReservationStates, kind : Kinds,
                                          tokens : Nat, actual : Nat]]
      /\ costRow' \in [Operations -> ReservationStates]
      /\ \A o \in Operations :
           /\ reservation'[o].tokens = reservation[o].tokens
           /\ reservation'[o].kind = reservation[o].kind
           /\ reservation'[o].state = IF o \in S THEN "RELEASED" ELSE reservation[o].state
           /\ costRow'[o] = IF o \in S /\ CostOpen(o) THEN "RELEASED" ELSE costRow[o]
  BY <1>1 DEF ReleaseRows, TypeOK, ReservationStates
<1>7. account' = [account EXCEPT !.reserved = @ - held, !.costReserved = @ - price]
  BY DEF ReleaseRows
<1> HIDE DEF held, price
<1>8. /\ account' \in [open : BOOLEAN, reserved : Int, consumed : Nat,
                         costReserved : Int, costConsumed : Nat]
      /\ account'.reserved = account.reserved - held
      /\ account'.costReserved = account.costReserved - price
      /\ account'.consumed = account.consumed
      /\ account'.costConsumed = account.costConsumed
  <2>1. account \in [open : BOOLEAN, reserved : Int, consumed : Nat,
                      costReserved : Int, costConsumed : Nat]
    BY <1>1 DEF TypeOK
  <2>2. account.reserved - held \in Int /\ account.costReserved - price \in Int
    BY <2>1, <1>3
  <2> QED BY <2>1, <2>2, <1>7, Zenon
<1>9. TypeOK'
  BY <1>1, <1>5, <1>6, <1>8 DEF TypeOK
<1>10. RowsHaveTokens'
  BY <1>1, <1>6 DEF RowsHaveTokens, CostOpen
<1>11. WithinBudget'
  <2>1. /\ reserved'["TRIAL"] <= reserved["TRIAL"] /\ consumed' = consumed
        /\ reserved'["TRIAL"] \in Int
    BY <1>5 DEF Kinds
  <2> QED BY <1>1, <1>3, <1>8, <2>1, TrialNumbers DEF WithinBudget
<1>12. AnswerMatchesReservation'
  <2>1. SUFFICES ASSUME NEW c \in Callers, call[c].pc = "read", ~tombstone
                 PROVE  /\ reservation'[call[c].op].state # "NONE"
                        /\ reservation'[call[c].op].tokens = call[c].tokens
    BY DEF AnswerMatchesReservation
  <2>2. call[c].op \in Operations
    BY <1>1, <2>1, InFlight
  <2>3. /\ reservation[call[c].op].state # "NONE"
        /\ reservation[call[c].op].tokens = call[c].tokens
    BY <1>1, <2>1 DEF AnswerMatchesReservation
  <2> QED BY <2>2, <2>3, <1>6
<1>13. Books'
  <2>1. LedgerBalanced'
    BY <1>1, ReleaseBalance DEF Books, BooksAgree
  <2>2. AccountAgrees'
    <3>1. reserved'["TRIAL"]
            = reserved["TRIAL"] - TokensOf({o \in S : reservation[o].kind = "TRIAL"})
      BY DEF Kinds
    <3>2. Agrees => Agrees'
      BY <1>1, <3>1, ReleaseAgrees DEF Books
    <3> QED BY <1>1, <3>2 DEF Books, BooksAgree, AccountAgrees, Agrees
  <2>3. CostMatches'
    BY <1>1, <1>6 DEF Books, CostMatches, CostOpen
  <2>4. NoTrialRows'
    BY <1>1, <1>6 DEF Books, NoTrialRows
  <2>5. OneStarter'
    BY <1>1 DEF Books, OneStarter, Starting
  <2> QED BY <2>1, <2>2, <2>3, <2>4, <2>5 DEF Books, BooksAgree
<1> QED BY <1>9, <1>10, <1>11, <1>12, <1>13 DEF IInv
-----------------------------------------------------------------------------
(* The provider's events and the operators *)

Settings == {"ACTIVE", "READ_ONLY", "SUSPENDED", "CANCELLED"}

\* What an event or an operator may do to the ledger: release all that is open on one
\* entitlement whose row no deletion has, give the entitlements new states, and sync the
\* workspace.
Touches(k) ==
  /\ KeepReservations \/ (ReleaseAll(k) /\ Unlocked(k))
  /\ UNCHANGED <<consumed, trialEnds, grant, tombstone, requestVars, lockVars, now>>
  /\ entitlement' \in [Kinds -> EntitlementStates]
  /\ entitlement'["TRIAL"] = "ABSENT" <=> entitlement["TRIAL"] = "ABSENT"
  /\ workspace' = workspace \/ \E state \in Settings : workspace' = Synced(workspace, state)

\* An entitlement that gives up all its open rows gives up what it holds.
LEMMA ReleaseAllGivesUp ==
  ASSUME IInv, NEW k \in Kinds, ReleaseAll(k)
  PROVE  /\ OpenOn(k) \in SUBSET Operations
         /\ \A o \in OpenOn(k) : reservation[o].state = "RESERVED"
         /\ ReleaseRows(OpenOn(k))
         /\ reserved' = [l \in Kinds |->
              reserved[l] - TokensOf({o \in OpenOn(k) : reservation[o].kind = l})]
<1>1. /\ TypeOK /\ LedgerBalanced
      /\ reserved \in [Kinds -> Int] /\ reserved' = [reserved EXCEPT ![k] = 0]
  BY DEF IInv, Books, BooksAgree, TypeOK, ReleaseAll
<1>2. SumFunctionOnSet(Tokens, {}) = 0
  BY <1>1, RowFunctions, SumRemove, {} \in SUBSET Operations
<1>3. ASSUME NEW l \in Kinds
      PROVE  reserved'[l] = reserved[l] - TokensOf({o \in OpenOn(k) : reservation[o].kind = l})
  <2>1. CASE l = k
    <3>1. {o \in OpenOn(k) : reservation[o].kind = l} = OpenOn(k)
      BY <2>1 DEF OpenOn
    <3>2. reserved[k] = TokensOf(OpenOn(k)) /\ reserved[k] - reserved[k] = 0
      BY <1>1 DEF LedgerBalanced
    <3>3. reserved'[k] = 0
      BY <1>1
    <3>4. reserved[l] - TokensOf({o \in OpenOn(k) : reservation[o].kind = l})
            = reserved[k] - reserved[k]
      BY ONLY <2>1, <3>1, <3>2
    <3> QED BY ONLY <2>1, <3>2, <3>3, <3>4
  <2>2. CASE l # k
    <3>1. {o \in OpenOn(k) : reservation[o].kind = l} = {}
      BY <2>2 DEF OpenOn
    <3>2. reserved'[l] = reserved[l] /\ reserved[l] \in Int
      BY <1>1, <2>2
    <3> QED BY <1>2, <3>1, <3>2 DEF TokensOf
  <2> QED BY <2>1, <2>2
<1>4. DOMAIN reserved' = Kinds /\ reserved' = [l \in Kinds |-> reserved'[l]]
  BY <1>1
<1> QED BY <1>3, <1>4 DEF OpenOn, ReleaseAll

\* A step that moves no tokens keeps the ledger's invariant, if it gives an entitlement
\* another state only and never makes a trial or removes one.
LEMMA StandKeeps ==
  ASSUME IInv, KeepReservations,
         UNCHANGED <<consumed, trialEnds, grant, tombstone, requestVars, now>>,
         entitlement' \in [Kinds -> EntitlementStates],
         entitlement'["TRIAL"] = "ABSENT" <=> entitlement["TRIAL"] = "ABSENT",
         workspace' \in WorkspaceStates,
         deleting' \in BOOLEAN, locked' \subseteq Operations
  PROVE  IInv'
<1>1. TypeOK'
  BY DEF IInv, TypeOK, KeepReservations
<1>2. RowsHaveTokens' /\ WithinBudget' /\ AnswerMatchesReservation'
  BY DEF IInv, KeepReservations, RowsHaveTokens, WithinBudget, AnswerMatchesReservation
<1>3. LedgerBalanced'
  BY DEF IInv, Books, BooksAgree, LedgerBalanced, TokensOf, Tokens, Actuals, OpenOn,
         SpentOn, KeepReservations
<1>4. AccountAgrees' /\ CostMatches' /\ NoTrialRows' /\ OneStarter'
  BY DEF IInv, Books, BooksAgree, AccountAgrees, CostMatches, NoTrialRows,
         OneStarter, Starting, KeepReservations
<1> QED BY <1>1, <1>2, <1>3, <1>4 DEF IInv, Books, BooksAgree

\* Such a step keeps the ledger's invariant and the deletion's locks, and does not move
\* the workspace into a deletion or out of one.
LEMMA TouchKeeps ==
  ASSUME IInv, Locks, NEW k \in Kinds, Touches(k)
  PROVE  /\ IInv' /\ Locks'
         /\ workspace \in BeingDeleted => workspace' = workspace
         /\ workspace \notin BeingDeleted => workspace' \notin BeingDeleted
<1>1. TypeOK
  BY DEF IInv
<1>2. /\ workspace \in BeingDeleted => workspace' = workspace
      /\ workspace \notin BeingDeleted => workspace' \notin BeingDeleted
      /\ workspace' \in WorkspaceStates
  BY <1>1, SyncedStays, SyncedTypes DEF Touches, Settings, TypeOK
<1>3. /\ deleting' = deleting /\ deleting \in BOOLEAN
      /\ locked' = locked /\ locked \subseteq Operations
      /\ now' = now /\ now \in 0..MaxTime
  BY <1>1 DEF Touches, TypeOK
<1>4. CASE KeepReservations
  <2>1. IInv'
    BY <1>2, <1>3, <1>4, StandKeeps DEF Touches
  <2>2. Locks'
    BY <1>2, <1>3, <1>4 DEF Locks, KeepReservations
  <2> QED BY <1>2, <2>1, <2>2
<1>5. CASE ReleaseAll(k) /\ Unlocked(k)
  <2>1. IInv'
    BY <1>2, <1>3, <1>5, ReleaseAllGivesUp, ReleaseKeeps DEF Touches
  <2>2. \A o \in locked : reservation'[o] = reservation[o]
    <3>1. \A o \in locked : o \in Operations /\ o \notin OpenOn(k)
      BY <1>3, <1>5 DEF OpenOn, Unlocked
    <3> QED BY <1>5, <3>1 DEF ReleaseAll, ReleaseRows
  <2>3. Locks'
    BY <1>2, <1>3, <2>2 DEF Locks
  <2> QED BY <1>2, <2>1, <2>3
<1> QED BY <1>4, <1>5 DEF Touches

\* Every step of the paid lifecycle leaves the ledger alone or is such a step.
LEMMA BillingTouches ==
  ASSUME IInv, Locks, BillingNext
  PROVE  UNCHANGED ledgerVars \/ \E k \in Kinds : Touches(k)
<1>0. entitlement \in [Kinds -> EntitlementStates] /\ "TRIAL" \in Kinds /\ "PAID_MONTHLY" \in Kinds
  BY DEF IInv, TypeOK, Kinds
<1> DEFINE Rest == UNCHANGED <<consumed, trialEnds, grant, tombstone, requestVars, lockVars, now>>
<1>1. ASSUME KeepReservations, UNCHANGED <<entitlement, workspace>>, Rest
      PROVE  Touches("TRIAL")
  BY <1>0, <1>1 DEF Touches
<1>2. ASSUME NEW s, NEW state \in {"SUSPENDED", "CANCELLED"}, EndPaid(s, state), Rest
      PROVE  Touches("TRIAL") \/ Touches("PAID_MONTHLY")
  <2>1. CASE PaidOf(s)
    <3>1. /\ ReleaseAll("PAID_MONTHLY") /\ Unlocked("PAID_MONTHLY")
          /\ entitlement' = [entitlement EXCEPT !["PAID_MONTHLY"] = state]
          /\ workspace' = Synced(workspace, state)
      BY <1>2, <2>1 DEF EndPaid
    <3>2. entitlement' \in [Kinds -> EntitlementStates] /\ entitlement'["TRIAL"] = entitlement["TRIAL"]
      BY <1>0, <3>1 DEF EntitlementStates
    <3> QED BY <1>2, <3>1, <3>2 DEF Touches, Settings
  <2>2. CASE ~PaidOf(s)
    BY <1>1, <1>2, <2>2 DEF EndPaid
  <2> QED BY <2>1, <2>2
<1>3. ASSUME NEW e, ActivatePaid(e) PROVE Touches("TRIAL")
  <2>1. Unlocked("TRIAL")
    BY <1>3 DEF ActivatePaid, Locks, Unlocked
  <2>2. /\ entitlement' = [entitlement EXCEPT !["PAID_MONTHLY"] = "ACTIVE",
                             !["TRIAL"] = IF TrialToReplace THEN "READ_ONLY" ELSE @]
        /\ workspace' = Synced(workspace, "ACTIVE")
        /\ Rest
        /\ KeepReservations \/ ReleaseAll("TRIAL")
    BY <1>3 DEF ActivatePaid, Receive
  <2>3. /\ entitlement' \in [Kinds -> EntitlementStates]
        /\ entitlement'["TRIAL"] = "ABSENT" <=> entitlement["TRIAL"] = "ABSENT"
    BY <1>0, <2>2 DEF EntitlementStates, TrialToReplace
  <2> QED BY <2>1, <2>2, <2>3 DEF Touches, Settings
<1>4. ASSUME NEW e, Webhook(e) PROVE Touches("TRIAL") \/ Touches("PAID_MONTHLY")
  <2>1. CASE ActivatePaid(e)
    BY <1>3, <2>1
  <2>2. CASE SuspendPaid(e) \/ CancelPaid(e)
    BY <1>2, <2>2 DEF SuspendPaid, CancelPaid, Receive
  <2>3. CASE CheckoutCompleted(e) \/ CheckoutExpired(e) \/ RecordStale(e)
    BY <1>1, <2>3 DEF CheckoutCompleted, CheckoutExpired, RecordStale, Receive
  <2> QED BY <1>4, <2>1, <2>2, <2>3 DEF Webhook
<1>5. ASSUME NEW s, Rollback(s) PROVE Touches("TRIAL") \/ Touches("PAID_MONTHLY")
  BY <1>2, <1>5 DEF Rollback
<1> HIDE DEF Rest
<1>6. ASSUME NEW s \in Selections,
             \/ \E plan \in Offered : SelectPlan(s, plan)
             \/ \E atEnd \in BOOLEAN : CancelSubscription(s, atEnd)
             \/ CreateSession(s) \/ MarkCheckout(s) \/ UpgradeSubscription(s)
             \/ CustomerPays(s) \/ SessionExpires(s) \/ PaymentFails(s)
             \/ PaymentRecovers(s) \/ SubscriptionEnds(s)
      PROVE  UNCHANGED ledgerVars
  BY <1>6 DEF SelectPlan, CancelSubscription, CreateSession, MarkCheckout,
       UpgradeSubscription, CustomerPays, SessionExpires, PaymentFails, PaymentRecovers,
       SubscriptionEnds, Elsewhere, Frame
<1> QED BY <1>0, <1>4, <1>5, <1>6 DEF BillingNext
-----------------------------------------------------------------------------
(* Suspension, deletion and purge *)

\* A workspace under deletion has a retention period, and its purge waits for the end.
Retained ==
  /\ retentionUntil \in Nat
  /\ workspace \in BeingDeleted => retentionUntil > 0
  /\ workspace \in {"PURGE_QUEUED", "PURGING"} => retentionUntil <= now

\* The first transaction's locks survive what other requests do meanwhile.
LEMMA LedgerKeepsLocks ==
  ASSUME IInv, Locks, [LedgerNext]_ledgerVars
  PROVE  Locks'
<1>1. TypeOK
  BY DEF IInv
<1>2. /\ deleting' = deleting /\ locked' = locked
      /\ workspace \notin BeingDeleted => workspace' \notin BeingDeleted
  BY <1>1, LedgerFrame DEF Locks
<1>3. ASSUME NEW o \in locked PROVE reservation'[o].state = "RESERVED"
  <2>1. o \in Operations /\ reservation[o].state = "RESERVED"
    BY <1>1, <1>3 DEF TypeOK, Locks
  <2>2. ASSUME NEW c \in Callers, NEW k \in Kinds, call[c].pc = "lock",
               reservation[call[c].op].state = "NONE",
               Draw(c, k, call[c].op, call[c].tokens)
        PROVE  reservation'[o].state = "RESERVED"
    BY <1>1, <2>1, <2>2, InFlight DEF Draw, TypeOK
  <2>3. ASSUME NEW p \in Operations, p \notin locked, NEW state, NEW used,
               Settle(p, state, used)
        PROVE  reservation'[o].state = "RESERVED"
    BY <1>1, <1>3, <2>1, <2>3 DEF Settle, TypeOK
  <2>4. ASSUME UNCHANGED booksVars \/ \E c \in Callers : CommitTrial(c)
        PROVE  reservation'[o].state = "RESERVED"
    BY <2>1, <2>4 DEF booksVars, CommitTrial
  <2> QED BY <1>1, <2>2, <2>3, <2>4, BooksStep
<1> QED BY <1>2, <1>3 DEF Locks

\* The state an operator's suspension or a deletion gives the entitlements.
LEMMA SuspensionTypes ==
  ASSUME TypeOK,
         entitlement' = [k \in Kinds |->
           IF entitlement[k] \in {"ACTIVE", "READ_ONLY"} THEN "SUSPENDED" ELSE entitlement[k]]
  PROVE  /\ entitlement' \in [Kinds -> EntitlementStates]
         /\ entitlement'["TRIAL"] = "ABSENT" <=> entitlement["TRIAL"] = "ABSENT"
BY DEF TypeOK, Kinds, EntitlementStates

\* The deletion's commit gives back exactly what its locked rows held: the Max with 0
\* that bounds the counters from below changes nothing.
LEMMA DeletionGivesBack ==
  ASSUME IInv, Locks, CommitDeletion
  PROVE  reserved' = [k \in Kinds |->
           reserved[k] - TokensOf({o \in locked : reservation[o].kind = k})]
<1>1. TypeOK /\ LedgerBalanced /\ locked \subseteq Operations
  BY DEF IInv, Books, BooksAgree, TypeOK
<1>2. ASSUME NEW k \in Kinds
      PROVE  reserved'[k] = reserved[k] - TokensOf({o \in locked : reservation[o].kind = k})
  <2> DEFINE mine == {o \in locked : reservation[o].kind = k}
             d == reserved[k] - TokensOf(mine)
  <2>1. mine \in SUBSET OpenOn(k) /\ OpenOn(k) \ mine \in SUBSET Operations
    BY <1>1 DEF Locks, OpenOn
  <2>2. reserved[k] = TokensOf(OpenOn(k))
    BY <1>1 DEF LedgerBalanced
  <2>3. reserved'[k] = Max({0, d})
    BY DEF CommitDeletion
  <2> HIDE DEF mine
  <2>4. TokensOf(OpenOn(k)) = TokensOf(mine) + TokensOf(OpenOn(k) \ mine)
    BY <1>1, <2>1, RowFunctions, SumParts DEF TokensOf
  <2>5. TokensOf(mine) \in Nat /\ TokensOf(OpenOn(k) \ mine) \in Nat
    BY <1>1, <2>1, RowFunctions, SumParts DEF TokensOf
  <2>6. d \in Nat
    BY <2>2, <2>4, <2>5
  <2> HIDE DEF d
  <2>7. Max({0, d}) = d
    BY <2>6 DEF Max
  <2> QED BY <2>3, <2>7 DEF d, mine
<1> QED BY <1>2 DEF CommitDeletion

LEMMA EmptyBooksAfter == Empty' => Books'
BY EmptyBooks, PTL

\* An erasure leaves empty books.
LEMMA WipeKeeps ==
  ASSUME IInv, Wipe
  PROVE  IInv'
<1> USE ConstantTypes
<1>1. /\ TypeOK /\ WithinBudget /\ Books
      /\ reserved' = [k \in Kinds |-> 0] /\ consumed' = [k \in Kinds |-> 0]
      /\ UNCHANGED <<trialEnds, account, grant, call, token, deleting, locked, now>>
  BY DEF IInv, Wipe
<1>2. TypeOK'
  <2>1. NoReservation \in [state : ReservationStates, kind : Kinds, tokens : Nat, actual : Nat]
    BY DEF NoReservation, ReservationStates, Kinds
  <2>2. reservation' \in [Operations -> [state : ReservationStates, kind : Kinds,
                                          tokens : Nat, actual : Nat]]
    BY <2>1 DEF Wipe
  <2>3. /\ entitlement' \in [Kinds -> EntitlementStates]
        /\ costRow' \in [Operations -> ReservationStates]
        /\ workspace' \in WorkspaceStates
    BY DEF Wipe, EntitlementStates, ReservationStates, WorkspaceStates
  <2>4. tombstone' \in BOOLEAN
    BY DEF Wipe
  <2> QED BY <1>1, <2>2, <2>3, <2>4 DEF TypeOK
<1>3. RowsHaveTokens'
  BY DEF Wipe, RowsHaveTokens, NoReservation
<1>4. WithinBudget'
  BY <1>1 DEF WithinBudget, Kinds
<1>5. AnswerMatchesReservation'
  BY DEF Wipe, AnswerMatchesReservation
<1>6. /\ \A o \in Operations : reservation'[o].state = "NONE" /\ costRow'[o] = "NONE"
      /\ \A k \in Kinds : reserved'[k] = 0 /\ consumed'[k] = 0
      /\ entitlement'["TRIAL"] = "ABSENT"
  BY DEF Wipe, NoReservation, Kinds
<1>7. OneStarter'
  BY <1>1, <1>6 DEF Books, OneStarter, Starting
<1>8. Books'
  <2>1. Empty'
    BY <1>2, <1>6, <1>7 DEF Empty
  <2> QED BY <2>1, EmptyBooksAfter
<1> QED BY <1>2, <1>3, <1>4, <1>5, <1>8 DEF IInv
-----------------------------------------------------------------------------
(* The tenant *)

TenantInv == IInv /\ Locks /\ Retained

\* Every step of suspension, deletion and purge keeps the invariant.
LEMMA RetentionStep ==
  ASSUME TenantInv,
         \/ RequestDeletion \/ CommitDeletion \/ SuspendWorkspace
         \/ QueueDue \/ ReapplyTombstone
         \/ \E w \in PurgeWorkers : ClaimPurge(w) \/ Purge(w) \/ GiveUpPurge(w)
  PROVE  TenantInv'
<1>1. /\ IInv /\ Locks /\ Retained /\ TypeOK
      /\ entitlement \in [Kinds -> EntitlementStates] /\ workspace \in WorkspaceStates
      /\ deleting \in BOOLEAN /\ locked \subseteq Operations
      /\ now \in Nat /\ now \in 0..MaxTime /\ retentionUntil \in Nat
  BY ConstantTypes DEF TenantInv, IInv, TypeOK, Retained
<1>2. CASE RequestDeletion
  <2>1. IInv'
    BY <1>1, <1>2, StandKeeps DEF RequestDeletion, KeepReservations
  <2>2. Locks' /\ Retained'
    BY <1>1, <1>2 DEF RequestDeletion, Locks, Retained, BeingDeleted
  <2> QED BY <2>1, <2>2 DEF TenantInv
<1>3. CASE CommitDeletion
  <2>1. IInv'
    <3>1. /\ entitlement' \in [Kinds -> EntitlementStates]
          /\ entitlement'["TRIAL"] = "ABSENT" <=> entitlement["TRIAL"] = "ABSENT"
      BY <1>1, <1>3, SuspensionTypes DEF CommitDeletion
    <3>2. workspace' \in WorkspaceStates /\ deleting' \in BOOLEAN /\ locked' \subseteq Operations
      BY <1>3 DEF CommitDeletion, WorkspaceStates, BeingDeleted
    <3>3. /\ ReleaseRows(locked) /\ now' \in 0..MaxTime
          /\ UNCHANGED <<consumed, trialEnds, grant, tombstone, requestVars>>
      BY <1>1, <1>3 DEF CommitDeletion
    <3>4. reserved' = [k \in Kinds |->
            reserved[k] - TokensOf({o \in locked : reservation[o].kind = k})]
      BY <1>1, <1>3, DeletionGivesBack
    <3>5. locked \in SUBSET Operations /\ \A o \in locked : reservation[o].state = "RESERVED"
      BY <1>1 DEF Locks
    <3> QED BY <1>1, <3>1, <3>2, <3>3, <3>4, <3>5, ReleaseKeeps
  <2>2. Locks'
    BY <1>3 DEF CommitDeletion, Locks
  <2>3. Retained'
    <3>1. RetentionTerm \in Nat /\ RetentionTerm > 0
      BY RetentionAssumption
    <3> QED BY <1>1, <1>3, <3>1 DEF CommitDeletion, Retained, BeingDeleted
  <2> QED BY <2>1, <2>2, <2>3 DEF TenantInv
<1>4. CASE SuspendWorkspace
  <2>1. IInv'
    BY <1>1, <1>4, SuspensionTypes, StandKeeps
      DEF SuspendWorkspace, KeepReservations, WorkspaceStates
  <2>2. Locks' /\ Retained'
    BY <1>1, <1>4 DEF SuspendWorkspace, Locks, Retained, BeingDeleted
  <2> QED BY <2>1, <2>2 DEF TenantInv
<1>5. CASE QueueDue \/ \E w \in PurgeWorkers : ClaimPurge(w)
  <2>1. /\ KeepReservations
        /\ UNCHANGED <<entitlementVars, grant, tombstone, requestVars, lockVars, now, retentionUntil>>
        /\ workspace \in BeingDeleted /\ workspace' \in BeingDeleted
    BY <1>5 DEF QueueDue, ClaimPurge, KeepReservations, BeingDeleted
  <2>2. IInv'
    BY <1>1, <2>1, StandKeeps DEF WorkspaceStates
  <2>3. Locks'
    BY <1>1, <2>1 DEF Locks, KeepReservations
  <2>4. retentionUntil <= now
    BY <1>1, <1>5 DEF QueueDue, ClaimPurge, PurgeDue, Retained
  <2>5. Retained'
    BY <1>1, <2>1, <2>4 DEF Retained
  <2> QED BY <2>2, <2>3, <2>5 DEF TenantInv
<1>6. CASE ReapplyTombstone \/ \E w \in PurgeWorkers : Purge(w)
  <2>1. Wipe /\ ~deleting
    BY <1>1, <1>6 DEF ReapplyTombstone, Purge, Locks, BeingDeleted
  <2>2. IInv'
    BY <1>1, <2>1, WipeKeeps
  <2>3. Locks' /\ Retained'
    BY <1>1, <2>1 DEF Wipe, Locks, Retained, BeingDeleted
  <2> QED BY <2>2, <2>3 DEF TenantInv
<1>7. CASE \E w \in PurgeWorkers : GiveUpPurge(w)
  <2>1. UNCHANGED <<ledgerVars, retentionUntil>>
    BY <1>7 DEF GiveUpPurge
  <2>2. IInv'
    <3>1. KeepReservations /\ UNCHANGED <<entitlement, workspace, deleting, locked>>
          /\ UNCHANGED <<consumed, trialEnds, grant, tombstone, requestVars, now>>
      BY <2>1 DEF ledgerVars, KeepReservations
    <3> QED BY <1>1, <3>1, StandKeeps
  <2>3. Locks' /\ Retained'
    BY <1>1, <2>1 DEF ledgerVars, Locks, Retained
  <2> QED BY <2>2, <2>3 DEF TenantInv
<1> QED BY <1>2, <1>3, <1>4, <1>5, <1>6, <1>7

\* A step of the paid lifecycle that does not touch the ledger keeps its invariant, and
\* one that does keeps it as an event or an operator may.
LEMMA BillingStep ==
  ASSUME IInv, Locks, BillingNext
  PROVE  /\ IInv' /\ Locks' /\ now' = now /\ tombstone' = tombstone
         /\ workspace \in BeingDeleted => workspace' = workspace
         /\ workspace \notin BeingDeleted => workspace' \notin BeingDeleted
<1>1. CASE UNCHANGED ledgerVars
  <2>1. /\ KeepReservations /\ UNCHANGED <<entitlement, workspace, deleting, locked>>
        /\ UNCHANGED <<consumed, trialEnds, grant, tombstone, requestVars, now>>
    BY <1>1 DEF ledgerVars, KeepReservations
  <2>2. /\ entitlement \in [Kinds -> EntitlementStates] /\ workspace \in WorkspaceStates
        /\ deleting \in BOOLEAN /\ locked \subseteq Operations
    BY DEF IInv, TypeOK
  <2>3. IInv'
    BY <2>1, <2>2, StandKeeps
  <2> QED BY <2>1, <2>3 DEF Locks, KeepReservations
<1>2. ASSUME NEW k \in Kinds, Touches(k)
      PROVE  /\ IInv' /\ Locks' /\ now' = now /\ tombstone' = tombstone
             /\ workspace \in BeingDeleted => workspace' = workspace
             /\ workspace \notin BeingDeleted => workspace' \notin BeingDeleted
  BY <1>2, TouchKeeps DEF Touches
<1> QED BY <1>1, <1>2, BillingTouches

LEMMA TenantStep ==
  ASSUME TenantInv, [TenantNext]_tenantVars
  PROVE  TenantInv'
<1>0. IInv /\ Locks /\ Retained /\ TypeOK /\ now \in Nat
  BY ConstantTypes DEF TenantInv, IInv, TypeOK
<1>1. ASSUME [LedgerNext]_ledgerVars, UNCHANGED retentionVars PROVE TenantInv'
  <2>1. IInv' /\ Locks'
    BY <1>0, <1>1, LedgerStep, LedgerKeepsLocks
  <2>2. Retained'
    BY <1>0, <1>1, LedgerFrame DEF Retained, BeingDeleted
  <2> QED BY <2>1, <2>2 DEF TenantInv
<1>2. CASE BillingNext /\ UNCHANGED retentionVars
  <2>1. IInv' /\ Locks'
    BY <1>0, <1>2, BillingStep
  <2>2. Retained'
    BY <1>0, <1>2, BillingStep DEF Retained, BeingDeleted
  <2> QED BY <2>1, <2>2 DEF TenantInv
<1>3. CASE UNCHANGED tenantVars
  BY <1>1, <1>3 DEF tenantVars
<1> QED BY <1>1, <1>2, <1>3, RetentionStep DEF TenantNext

\* What is inductive about the tenant.
LEMMA TenantInductive == TenantSpec => []TenantInv
<1>1. TenantInit => TenantInv
  <2>1. Init => IInv
    BY Beginning
  <2> QED BY <2>1 DEF TenantInit, LedgerAndBillingInit, TenantInv, Init, Locks, Retained, BeingDeleted
<1>2. TenantInv /\ [TenantNext]_tenantVars => TenantInv'
  BY TenantStep
<1> QED BY <1>1, <1>2, PTL DEF TenantSpec

\* Whatever requests, provider events, operators and purges interleave, the entitlements'
\* counters are the sums of their reservations and the cost account shows the trial's.
THEOREM TenantBooksBalance == TenantSpec => []BooksAgree
<1>1. TenantInv => BooksAgree
  BY DEF TenantInv, IInv, Books
<1> QED BY <1>1, TenantInductive, PTL

\* Nor do a payment, a deletion's release or an erasure take the trial over its budgets.
THEOREM TenantBudgetHolds == TenantSpec => []WithinBudget
<1>1. TenantInv => WithinBudget
  BY DEF TenantInv, IInv
<1> QED BY <1>1, TenantInductive, PTL

\* Only a purge takes a workspace out of its deletion: no expiry, provider event, trial
\* or operator brings it back.
THEOREM DeletionsStick == TenantSpec => DeletionIsSticky
<1> DEFINE Sticks == workspace \in BeingDeleted => workspace' \in BeingDeleted \/ tombstone'
<1>1. TenantInv /\ [TenantNext]_tenantVars => [Sticks]_workspace
  <2> SUFFICES ASSUME TenantInv, [TenantNext]_tenantVars PROVE Sticks
    OBVIOUS
  <2>0. IInv /\ Locks /\ TypeOK
    BY DEF TenantInv, IInv
  <2>1. CASE [LedgerNext]_ledgerVars
    BY <2>0, <2>1, LedgerFrame
  <2>2. CASE BillingNext
    BY <2>0, <2>2, BillingStep
  <2>3. CASE RequestDeletion \/ CommitDeletion \/ QueueDue
    BY <2>3 DEF RequestDeletion, CommitDeletion, QueueDue, BeingDeleted
  <2>4. CASE SuspendWorkspace
    BY <2>4 DEF SuspendWorkspace, BeingDeleted
  <2>5. CASE ReapplyTombstone \/ \E w \in PurgeWorkers : Purge(w)
    BY <2>5 DEF ReapplyTombstone, Purge, Wipe
  <2>6. CASE \E w \in PurgeWorkers : ClaimPurge(w) \/ GiveUpPurge(w)
    BY <2>6 DEF ClaimPurge, GiveUpPurge, ledgerVars, BeingDeleted
  <2> QED BY <2>1, <2>2, <2>3, <2>4, <2>5, <2>6 DEF TenantNext, tenantVars
<1> QED BY <1>1, TenantInductive, PTL DEF TenantSpec, DeletionIsSticky

\* A workspace is erased no sooner than its retention period after the request.
THEOREM RetentionPeriodsAreKept == TenantSpec => RetentionIsKept
<1> DEFINE Kept == ~tombstone /\ tombstone' => retentionUntil > 0 /\ retentionUntil <= now
<1>1. TenantInv /\ [TenantNext]_tenantVars => [Kept]_tombstone
  <2> SUFFICES ASSUME TenantInv, [TenantNext]_tenantVars, ~tombstone, tombstone'
               PROVE  retentionUntil > 0 /\ retentionUntil <= now
    OBVIOUS
  <2>0. IInv /\ Locks /\ TypeOK /\ Retained
    BY DEF TenantInv, IInv
  <2>1. CASE [LedgerNext]_ledgerVars
    BY <2>0, <2>1, LedgerFrame
  <2>2. CASE BillingNext
    BY <2>0, <2>2, BillingStep
  <2>3. CASE RequestDeletion \/ CommitDeletion \/ SuspendWorkspace \/ QueueDue \/ ReapplyTombstone
    BY <2>3 DEF RequestDeletion, CommitDeletion, SuspendWorkspace, QueueDue, ReapplyTombstone
  <2>4. CASE \E w \in PurgeWorkers : Purge(w)
    BY <2>0, <2>4 DEF Purge, Retained, BeingDeleted
  <2>5. CASE \E w \in PurgeWorkers : ClaimPurge(w) \/ GiveUpPurge(w)
    BY <2>5 DEF ClaimPurge, GiveUpPurge, ledgerVars
  <2> QED BY <2>1, <2>2, <2>3, <2>4, <2>5 DEF TenantNext, tenantVars
<1> QED BY <1>1, TenantInductive, PTL DEF TenantSpec, RetentionIsKept
-----------------------------------------------------------------------------
(* Paid access *)

\* Selections in these states give no access.
Dead == Ended \cup {"NONE", "SELECTED", "SUSPENDED"}

\* Stripe has a subscription only for a session that was paid, and its events say so.
Paying ==
  /\ stripe = [s \in Selections |-> stripe[s]]
  /\ \A s \in Selections :
       /\ {"session", "status"} \subseteq DOMAIN stripe[s]
       /\ stripe[s].status # "none" => stripe[s].session = "complete"
  /\ \A e \in sent :
       /\ e.sel \in Selections
       /\ stripe[e.sel].session = IF e.type = "expired" THEN "expired" ELSE "complete"

SelectionRows ==
  /\ selection = [s \in Selections |-> selection[s]]
  /\ \A s \in Selections : "state" \in DOMAIN selection[s]

\* The tenant's access: a trial gives way to the paid entitlement, which is for a
\* selection that was paid and is not over, and holds nothing once it is cancelled.
Access ==
  /\ entitlement["TRIAL"] = "ACTIVE" => entitlement["PAID_MONTHLY"] # "ACTIVE"
  /\ Starting => entitlement["PAID_MONTHLY"] # "ACTIVE"
  /\ entitlement["PAID_MONTHLY"] = "ACTIVE" =>
       /\ paidFor \in Selections
       /\ stripe[paidFor].session = "complete"
       /\ selection[paidFor].state \notin Dead
  /\ CancelledHoldsNothing

PaidInv == Paying /\ SelectionRows /\ Access

\* What Stripe reports of a session is what has become of it.
LEMMA ReportKeeps ==
  ASSUME Paying, NEW s \in Selections, NEW r, NEW types, Report(s, r, types),
         {"session", "status"} \subseteq DOMAIN r,
         r.status # "none" => r.session = "complete",
         stripe[s].session \in {"open", r.session},
         \A ty \in types : r.session = IF ty = "expired" THEN "expired" ELSE "complete"
  PROVE  /\ Paying'
         /\ \A t \in Selections :
              stripe[t].session = "complete" => stripe'[t].session = "complete"
<1>1. PICK at \in {stamp, stamp + 1} \ {0}, delivered \in (SUBSET types) \ {{}} :
        /\ sent' = sent \cup {[sel |-> s, type |-> ty, status |-> r.status, plan |-> r.plan,
                                atEnd |-> r.atEnd, at |-> at] : ty \in delivered}
        /\ stripe' = [stripe EXCEPT ![s] = r]
  BY DEF Report
<1>2. /\ stripe'[s] = r
      /\ \A t \in Selections \ {s} : stripe'[t] = stripe[t]
      /\ stripe' = [t \in Selections |-> stripe'[t]]
  BY <1>1 DEF Paying
<1>3. \A e \in sent' \ sent : e.sel = s /\ e.type \in types
  BY <1>1
<1>4. stripe[s].session = "complete" => r.session = "complete"
  OBVIOUS
<1>5. ASSUME NEW e \in sent'
      PROVE  /\ e.sel \in Selections
             /\ stripe'[e.sel].session = IF e.type = "expired" THEN "expired" ELSE "complete"
  <2>1. CASE e \notin sent
    BY <1>2, <1>3, <2>1
  <2>2. CASE e \in sent
    BY <1>2, <2>2 DEF Paying
  <2> QED BY <2>1, <2>2
<1> QED BY <1>2, <1>4, <1>5 DEF Paying

\* Nothing in the paid lifecycle makes Stripe forget that a session was paid.
LEMMA PayingStep ==
  ASSUME Paying, BillingNext
  PROVE  /\ Paying'
         /\ \A t \in Selections :
              stripe[t].session = "complete" => stripe'[t].session = "complete"
<1> DEFINE Good == /\ Paying'
                   /\ \A t \in Selections :
                        stripe[t].session = "complete" => stripe'[t].session = "complete"
<1>1. ASSUME UNCHANGED <<stripe, sent>> PROVE Good
  BY <1>1 DEF Paying
<1>2. ASSUME NEW s \in Selections, CreateSession(s) PROVE Good
  <2>1. /\ stripe[s].session = "none" /\ sent' = sent
        /\ stripe' = [stripe EXCEPT ![s].session = "open", ![s].plan = selection[s].plan]
    BY <1>2 DEF CreateSession
  <2>2. /\ \A t \in Selections \ {s} : stripe'[t] = stripe[t]
        /\ stripe' = [t \in Selections |-> stripe'[t]]
        /\ DOMAIN stripe'[s] = DOMAIN stripe[s]
        /\ stripe'[s].status = stripe[s].status /\ stripe'[s].session = "open"
    BY <2>1 DEF Paying
  <2>3. stripe[s].status = "none" /\ \A e \in sent : e.sel # s
    BY <2>1 DEF Paying
  <2> QED BY <2>1, <2>2, <2>3 DEF Paying
<1>3. ASSUME NEW s \in Selections, CustomerPays(s) PROVE Good
  <2> DEFINE r == [stripe[s] EXCEPT !.session = "complete", !.status = "active"]
  <2>1. Report(s, r, {"completed", "updated"}) /\ stripe[s].session = "open"
    BY <1>3 DEF CustomerPays
  <2>2. {"session", "status"} \subseteq DOMAIN r /\ r.session = "complete"
    BY DEF Paying
  <2> HIDE DEF r
  <2> QED BY <2>1, <2>2, ReportKeeps
<1>4. ASSUME NEW s \in Selections, SessionExpires(s) PROVE Good
  <2> DEFINE r == [stripe[s] EXCEPT !.session = "expired"]
  <2>1. Report(s, r, {"expired"}) /\ stripe[s].session = "open"
    BY <1>4 DEF SessionExpires
  <2>2. /\ {"session", "status"} \subseteq DOMAIN r
        /\ r.session = "expired" /\ r.status = stripe[s].status /\ stripe[s].status = "none"
    BY <2>1 DEF Paying
  <2> HIDE DEF r
  <2> QED BY <2>1, <2>2, ReportKeeps
<1>5. ASSUME NEW s \in Selections, NEW r, NEW types, Report(s, r, types), "expired" \notin types,
             stripe[s].session = "complete", r.session = "complete",
             {"session", "status"} \subseteq DOMAIN r
      PROVE  Good
  BY <1>5, ReportKeeps
<1>6. ASSUME NEW s \in Selections, Live(s)
      PROVE  /\ stripe[s].session = "complete"
             /\ \A x : LET r == [stripe[s] EXCEPT !.status = x]
                       IN r.session = "complete" /\ {"session", "status"} \subseteq DOMAIN r
             /\ \A x : LET r == [stripe[s] EXCEPT !.plan = x]
                       IN r.session = "complete" /\ {"session", "status"} \subseteq DOMAIN r
             /\ \A x : LET r == [stripe[s] EXCEPT !.atEnd = x]
                       IN r.session = "complete" /\ {"session", "status"} \subseteq DOMAIN r
  BY <1>6 DEF Live, Paying
<1> HIDE DEF Good
<1>7. ASSUME NEW s \in Selections,
             PaymentFails(s) \/ PaymentRecovers(s) \/ SubscriptionEnds(s)
      PROVE  Good
  BY <1>5, <1>6, <1>7 DEF PaymentFails, PaymentRecovers, SubscriptionEnds, Live
<1>8. ASSUME NEW s \in Selections,
             UpgradeSubscription(s) \/ \E atEnd \in BOOLEAN : CancelSubscription(s, atEnd)
      PROVE  Good
  BY <1>1, <1>5, <1>6, <1>8
    DEF UpgradeSubscription, CancelSubscription, Command, providerVars
<1>9. ASSUME NEW s \in Selections,
             (\E plan \in Offered : SelectPlan(s, plan)) \/ MarkCheckout(s) \/ Rollback(s)
      PROVE  Good
  BY <1>1, <1>9 DEF SelectPlan, MarkCheckout, Rollback, providerVars
<1>10. ASSUME NEW e, Webhook(e) PROVE Good
  BY <1>1, <1>10 DEF Webhook, ActivatePaid, SuspendPaid, CancelPaid, CheckoutCompleted,
       CheckoutExpired, RecordStale, Receive, providerVars
<1>11. Good
  BY <1>2, <1>3, <1>4, <1>7, <1>8, <1>9, <1>10 DEF BillingNext
<1> QED BY <1>11 DEF Good

\* The ledger's own steps leave the paid entitlement's state alone, draw on it only while
\* it is active, and make a trial only where no entitlement was active when it began.
LEMMA LedgerSpares ==
  ASSUME TypeOK, [LedgerNext]_ledgerVars
  PROVE  /\ entitlement'["PAID_MONTHLY"] = entitlement["PAID_MONTHLY"]
         /\ entitlement'["TRIAL"] = "ACTIVE" => entitlement["TRIAL"] = "ACTIVE" \/ Starting
         /\ Starting' => Starting \/ entitlement["PAID_MONTHLY"] # "ACTIVE"
         /\ entitlement["PAID_MONTHLY"] # "ACTIVE" => OpenOn("PAID_MONTHLY")' \subseteq OpenOn("PAID_MONTHLY")
<1>0. /\ entitlement \in [Kinds -> EntitlementStates] /\ "TRIAL" \in Kinds /\ "PAID_MONTHLY" \in Kinds
      /\ call \in [Callers -> {Idle} \cup Request] /\ Idle.pc = "idle"
  BY DEF TypeOK, Kinds, Idle
<1> DEFINE States == /\ entitlement'["PAID_MONTHLY"] = entitlement["PAID_MONTHLY"]
                     /\ entitlement'["TRIAL"] = "ACTIVE" => entitlement["TRIAL"] = "ACTIVE" \/ Starting
           Starts == Starting' => Starting \/ entitlement["PAID_MONTHLY"] # "ACTIVE"
           Later == {"sweep", "lookup", "lock", "read"}
<1>1. ASSUME Expire \/ UNCHANGED entitlement PROVE States
  BY <1>0, <1>1 DEF Expire
<1>2. ASSUME UNCHANGED call \/ \E c \in Callers : Answer(c) \/ \E pc \in Later : GoOn(c, pc)
      PROVE  Starts
  <2>1. ASSUME NEW d \in Callers, call'[d].pc = "start" PROVE call[d].pc = "start"
    <3>1. ASSUME NEW c \in Callers, Answer(c) PROVE call[d].pc = "start"
      BY <1>0, <2>1, <3>1 DEF Answer
    <3>2. ASSUME NEW c \in Callers, NEW pc \in Later, GoOn(c, pc) PROVE call[d].pc = "start"
      <4>1. call'[d] = IF d = c THEN [call[c] EXCEPT !.pc = pc] ELSE call[d]
        BY <1>0, <3>2 DEF GoOn
      <4>2. [call[c] EXCEPT !.pc = pc].pc = pc
        BY <1>0 DEF Request, Idle
      <4> QED BY <2>1, <4>1, <4>2
    <3> QED BY <1>2, <2>1, <3>1, <3>2
  <2> QED BY <2>1 DEF Starting
<1>3. ASSUME NEW c \in Callers, NEW o \in Operations, NEW n \in Amounts, Authorize(c, o, n)
      PROVE  States /\ Starts
  BY <1>0, <1>1, <1>3 DEF Authorize, Starting
<1>4. ASSUME NEW c \in Callers, NEW o \in Operations, NEW n \in Amounts, StartTrial(c, o, n)
      PROVE  States /\ Starts
  BY <1>0, <1>1, <1>4 DEF StartTrial
<1>5. ASSUME NEW c \in Callers, CommitTrial(c) PROVE States /\ Starts
  BY <1>0, <1>2, <1>5 DEF CommitTrial, Starting
<1>6. ASSUME NEW c \in Callers, Sweep(c) PROVE States /\ Starts
  <2>1. States
    BY <1>1, <1>6 DEF Sweep
  <2>2. CASE Answer(c)
    BY <1>2, <2>1, <2>2
  <2>3. CASE call' = [call EXCEPT ![c].pc = "lookup", ![c].at = now]
    <3>1. call[c] \in Request /\ call'[c] = [call[c] EXCEPT !.pc = "lookup", !.at = now]
      BY <1>0, <1>6, <2>3 DEF Sweep
    <3>2. call'[c].pc = "lookup" /\ \A d \in Callers \ {c} : call'[d] = call[d]
      BY <1>0, <2>3, <3>1 DEF Request
    <3> QED BY <2>1, <3>2 DEF Starting
  <2> QED BY <1>6, <2>2, <2>3 DEF Sweep
<1>7. ASSUME NEW c \in Callers, Lookup(c) PROVE States /\ Starts
  BY <1>1, <1>2, <1>7 DEF Lookup, Replay
<1>8. ASSUME NEW c \in Callers, Reserve(c) PROVE States /\ Starts
  <2>1. Answer(c) \/ \E pc \in Later : GoOn(c, pc)
    BY <1>8 DEF Reserve, Replay, Draw
  <2> QED BY <1>1, <1>2, <1>8, <2>1 DEF Reserve
<1>9. ASSUME NEW c \in Callers, Read(c) PROVE States /\ Starts
  BY <1>1, <1>2, <1>9 DEF Read
<1>10. ASSUME NEW o \in Operations,
              (\E actual \in 0..reservation[o].tokens : Reconcile(o, actual)) \/ Release(o)
       PROVE  States /\ Starts
  BY <1>1, <1>2, <1>10 DEF Reconcile, Release
<1>11. ASSUME ExpireTrial \/ ApproveStepUp \/ Tick \/ UNCHANGED ledgerVars
       PROVE  States /\ Starts
  BY <1>1, <1>2, <1>11 DEF ExpireTrial, ApproveStepUp, Tick, ledgerVars
<1> HIDE DEF States, Starts
<1>12. States /\ Starts
  BY <1>3, <1>4, <1>5, <1>6, <1>7, <1>8, <1>9, <1>10, <1>11 DEF LedgerNext
<1>13. ASSUME entitlement["PAID_MONTHLY"] # "ACTIVE", NEW o \in OpenOn("PAID_MONTHLY")'
       PROVE  o \in OpenOn("PAID_MONTHLY")
  <2>0. /\ o \in Operations
        /\ reservation'[o].state = "RESERVED" /\ reservation'[o].kind = "PAID_MONTHLY"
    BY <1>13 DEF OpenOn
  <2>1. ASSUME NEW c \in Callers, NEW k \in Kinds, call[c].pc = "lock", entitlement[k] = "ACTIVE",
               Draw(c, k, call[c].op, call[c].tokens)
        PROVE  o \in OpenOn("PAID_MONTHLY")
    BY <2>0, <2>1, <1>13, InFlight DEF Draw, TypeOK, OpenOn
  <2>2. ASSUME NEW p \in Operations, NEW state \in {"RECONCILED", "RELEASED"}, NEW used,
               Settle(p, state, used)
        PROVE  o \in OpenOn("PAID_MONTHLY")
    BY <2>0, <2>2 DEF Settle, TypeOK, OpenOn
  <2>3. ASSUME UNCHANGED booksVars \/ \E c \in Callers : CommitTrial(c)
        PROVE  o \in OpenOn("PAID_MONTHLY")
    BY <2>0, <2>3 DEF booksVars, CommitTrial, OpenOn
  <2> QED BY <2>1, <2>2, <2>3, BooksStep
<1> QED BY <1>12, <1>13 DEF States, Starts

\* A selection's row goes to the given state.
RowTo(s, state) ==
  /\ selection'[s].state = state /\ "state" \in DOMAIN selection'[s]
  /\ selection' = [t \in Selections |-> selection'[t]]
  /\ \A t \in Selections \ {s} : selection'[t] = selection[t]

\* The paid entitlement's end: it holds nothing afterwards.
LEMMA EndPaidEmpties ==
  ASSUME TypeOK, Access, NEW s, NEW state \in {"SUSPENDED", "CANCELLED"}, EndPaid(s, state),
         UNCHANGED <<call, paidFor>>
  PROVE  /\ paidFor = s => entitlement'["PAID_MONTHLY"] = state
         /\ paidFor # s => entitlement'["PAID_MONTHLY"] = entitlement["PAID_MONTHLY"]
         /\ entitlement'["TRIAL"] = entitlement["TRIAL"]
         /\ CancelledHoldsNothing'
<1>1. CASE PaidOf(s)
  <2>1. /\ entitlement' = [entitlement EXCEPT !["PAID_MONTHLY"] = state]
        /\ ReleaseRows(OpenOn("PAID_MONTHLY"))
    BY <1>1 DEF EndPaid, ReleaseAll
  <2>2. OpenOn("PAID_MONTHLY")' = {}
    BY <2>1 DEF ReleaseRows, OpenOn, TypeOK
  <2> QED BY <1>1, <2>1, <2>2 DEF PaidOf, TypeOK, Kinds, CancelledHoldsNothing
<1>2. CASE ~PaidOf(s)
  BY <1>2 DEF EndPaid, PaidOf, KeepReservations, Access, CancelledHoldsNothing, OpenOn
<1> QED BY <1>1, <1>2

\* Every step of the paid lifecycle keeps what is said of the tenant's access.
LEMMA AccessStep ==
  ASSUME TypeOK, PaidInv, BillingNext
  PROVE  SelectionRows' /\ Access'
<1>0. /\ entitlement \in [Kinds -> EntitlementStates] /\ "TRIAL" \in Kinds /\ "PAID_MONTHLY" \in Kinds
      /\ Paying /\ SelectionRows /\ Access
  BY DEF TypeOK, Kinds, PaidInv
<1>1. \A t \in Selections : stripe[t].session = "complete" => stripe'[t].session = "complete"
  BY <1>0, PayingStep
\* a step on the selections, or on Stripe, alone
<1>2. ASSUME NEW s \in Selections, NEW state, RowTo(s, state),
             UNCHANGED <<entitlement, reservation, call, paidFor>>,
             state \notin Dead \/ paidFor # s \/ entitlement["PAID_MONTHLY"] # "ACTIVE"
      PROVE  SelectionRows' /\ Access'
  BY <1>0, <1>1, <1>2
    DEF RowTo, SelectionRows, Access, Starting, CancelledHoldsNothing, OpenOn
<1>3. ASSUME UNCHANGED <<selection, entitlement, reservation, call, paidFor>>
      PROVE  SelectionRows' /\ Access'
  BY <1>0, <1>1, <1>3 DEF SelectionRows, Access, Starting, CancelledHoldsNothing, OpenOn
\* the selection's paid entitlement ends with it
<1>4. ASSUME NEW s \in Selections, NEW state, NEW row, RowTo(s, row),
             state \in {"SUSPENDED", "CANCELLED"}, EndPaid(s, state), UNCHANGED <<call, paidFor>>
      PROVE  SelectionRows' /\ Access'
  <2>1. /\ paidFor = s => entitlement'["PAID_MONTHLY"] = state
        /\ paidFor # s => entitlement'["PAID_MONTHLY"] = entitlement["PAID_MONTHLY"]
        /\ entitlement'["TRIAL"] = entitlement["TRIAL"]
        /\ CancelledHoldsNothing'
    BY <1>0, <1>4, EndPaidEmpties
  <2> QED BY <1>0, <1>1, <1>4, <2>1 DEF RowTo, SelectionRows, Access, Starting
<1>5. UNCHANGED ledgerVars => UNCHANGED <<entitlement, reservation, call>>
  BY DEF ledgerVars
<1>6. ASSUME NEW s \in Selections, NEW plan \in Offered, SelectPlan(s, plan)
      PROVE  SelectionRows' /\ Access'
  <2>1. RowTo(s, "SELECTED")
    BY <1>0, <1>6 DEF SelectPlan, SelectionRows, RowTo, NothingSelected
  <2> QED BY <1>2, <1>5, <1>6, <2>1 DEF SelectPlan, Frame
<1>7. ASSUME NEW s \in Selections, MarkCheckout(s) PROVE SelectionRows' /\ Access'
  <2>1. RowTo(s, "CHECKOUT_CREATED")
    BY <1>0, <1>7 DEF MarkCheckout, SelectionRows, RowTo
  <2>2. "CHECKOUT_CREATED" \notin Dead
    BY DEF Dead, Ended
  <2> QED BY <1>2, <1>5, <1>7, <2>1, <2>2 DEF MarkCheckout, Frame
<1>8. ASSUME NEW s \in Selections, UpgradeSubscription(s) PROVE SelectionRows' /\ Access'
  <2>1. selection' = selection \/ RowTo(s, "UPGRADE_PENDING")
    BY <1>0, <1>8 DEF UpgradeSubscription, SelectionRows, RowTo
  <2>2. "UPGRADE_PENDING" \notin Dead
    BY DEF Dead, Ended
  <2> QED BY <1>2, <1>3, <1>5, <1>8, <2>1, <2>2 DEF UpgradeSubscription, Frame
<1>9. ASSUME NEW s \in Selections, NEW atEnd \in BOOLEAN, CancelSubscription(s, atEnd)
      PROVE  SelectionRows' /\ Access'
  <2>1. selection' = selection \/ RowTo(s, "CANCEL_PENDING")
    BY <1>0, <1>9 DEF CancelSubscription, SelectionRows, RowTo
  <2>2. "CANCEL_PENDING" \notin Dead
    BY DEF Dead, Ended
  <2> QED BY <1>2, <1>3, <1>5, <1>9, <2>1, <2>2 DEF CancelSubscription, Frame
<1>10. ASSUME NEW s \in Selections, Rollback(s) PROVE SelectionRows' /\ Access'
  <2>1. RowTo(s, "ROLLED_BACK")
    BY <1>0, <1>10 DEF Rollback, SelectionRows, RowTo
  <2> QED BY <1>4, <1>10, <2>1 DEF Rollback
<1>11. ASSUME NEW s \in Selections,
              \/ CreateSession(s) \/ CustomerPays(s) \/ SessionExpires(s)
              \/ PaymentFails(s) \/ PaymentRecovers(s) \/ SubscriptionEnds(s)
       PROVE  SelectionRows' /\ Access'
  BY <1>3, <1>5, <1>11 DEF CreateSession, CustomerPays, SessionExpires, PaymentFails,
       PaymentRecovers, SubscriptionEnds, Elsewhere, Frame
<1>12. ASSUME NEW e \in sent, Webhook(e) PROVE SelectionRows' /\ Access'
  <2>0. /\ e.sel \in Selections
        /\ stripe[e.sel].session = IF e.type = "expired" THEN "expired" ELSE "complete"
        /\ call' = call
    BY <1>0, <1>12 DEF Paying, Webhook, ActivatePaid, SuspendPaid, CancelPaid,
         CheckoutCompleted, CheckoutExpired, RecordStale, Receive
  <2>1. CASE ActivatePaid(e)
    <3> DEFINE row == IF e.atEnd THEN "CANCEL_AT_PERIOD_END" ELSE "ACTIVE"
    <3>1. RowTo(e.sel, row) /\ row \notin Dead
      BY <1>0, <2>0, <2>1 DEF ActivatePaid, SelectionRows, RowTo, Dead, Ended
    <3>2. /\ ~Starting /\ paidFor' = e.sel /\ e.type = "updated"
          /\ entitlement' = [entitlement EXCEPT !["PAID_MONTHLY"] = "ACTIVE",
               !["TRIAL"] = IF TrialToReplace THEN "READ_ONLY" ELSE @]
      BY <2>1 DEF ActivatePaid, Admitted
    <3>3. entitlement'["PAID_MONTHLY"] = "ACTIVE" /\ entitlement'["TRIAL"] # "ACTIVE"
      BY <1>0, <3>2 DEF TrialToReplace
    <3> HIDE DEF row
    <3> QED BY <1>0, <1>1, <2>0, <3>1, <3>2, <3>3
              DEF RowTo, SelectionRows, Access, Starting, CancelledHoldsNothing
  <2>2. CASE SuspendPaid(e)
    <3>1. RowTo(e.sel, "SUSPENDED")
      BY <1>0, <2>0, <2>2 DEF SuspendPaid, SelectionRows, RowTo
    <3> QED BY <1>4, <2>0, <2>2, <3>1 DEF SuspendPaid
  <2>3. CASE CancelPaid(e)
    <3>1. RowTo(e.sel, "CANCELLED")
      BY <1>0, <2>0, <2>3 DEF CancelPaid, SelectionRows, RowTo
    <3> QED BY <1>4, <2>0, <2>3, <3>1 DEF CancelPaid
  <2>4. CASE CheckoutCompleted(e)
    <3>1. RowTo(e.sel, "CHECKOUT_COMPLETED") /\ "CHECKOUT_COMPLETED" \notin Dead
      BY <1>0, <2>0, <2>4 DEF CheckoutCompleted, SelectionRows, RowTo, Dead, Ended
    <3> QED BY <1>2, <2>0, <2>4, <3>1 DEF CheckoutCompleted, KeepReservations
  \* a session that expired was never paid, so it is not the paid entitlement's
  <2>5. CASE CheckoutExpired(e)
    <3>1. RowTo(e.sel, "FAILED")
      BY <1>0, <2>0, <2>5 DEF CheckoutExpired, SelectionRows, RowTo
    <3>2. paidFor # e.sel \/ entitlement["PAID_MONTHLY"] # "ACTIVE"
      BY <1>0, <2>0, <2>5 DEF CheckoutExpired, Access
    <3> QED BY <1>2, <2>0, <2>5, <3>1, <3>2 DEF CheckoutExpired, KeepReservations
  <2>6. CASE RecordStale(e)
    BY <1>3, <2>0, <2>6 DEF RecordStale, KeepReservations
  <2> QED BY <1>12, <2>1, <2>2, <2>3, <2>4, <2>5, <2>6 DEF Webhook
<1> QED BY <1>6, <1>7, <1>8, <1>9, <1>10, <1>11, <1>12 DEF BillingNext

LEMMA PaidStep ==
  ASSUME TypeOK, PaidInv, BillingNext \/ ([LedgerNext]_ledgerVars /\ UNCHANGED billingVars)
  PROVE  PaidInv'
<1>1. CASE BillingNext
  BY <1>1, PayingStep, AccessStep DEF PaidInv
<1>2. CASE [LedgerNext]_ledgerVars /\ UNCHANGED billingVars
  <2>1. Paying' /\ SelectionRows'
    BY <1>2 DEF PaidInv, Paying, SelectionRows
  <2>2. Access'
    BY <1>2, LedgerSpares DEF PaidInv, Access, CancelledHoldsNothing
  <2> QED BY <2>1, <2>2 DEF PaidInv
<1> QED BY <1>1, <1>2

\* One active entitlement at most, in the words of the model.
LEMMA AccessFollows ==
  ASSUME Access
  PROVE  AccessFollowsTheSelection
<1>1. OneActiveEntitlement
  <2> DEFINE active == {k \in Kinds : entitlement[k] = "ACTIVE"}
  <2>1. active = {} \/ active = {"TRIAL"} \/ active = {"PAID_MONTHLY"}
    BY DEF Access, Kinds
  <2>2. Cardinality({}) = 0 /\ \A x : Cardinality({x}) = 1
    BY FS_EmptySet, FS_Singleton
  <2>3. Cardinality(active) \in {0, 1}
    BY <2>1, <2>2
  <2> QED BY <2>3 DEF OneActiveEntitlement
<1>2. AccessNeedsLiveSelection
  BY BillingAssumption DEF Access, Dead, AccessNeedsLiveSelection
<1>3. CancelledHoldsNothing
  BY DEF Access
<1> QED BY <1>1, <1>2, <1>3 DEF AccessFollowsTheSelection

LEMMA PaidBeginning == LedgerAndBillingInit => PaidInv
<1> SUFFICES ASSUME LedgerAndBillingInit PROVE PaidInv
  OBVIOUS
<1>1. Paying /\ SelectionRows
  BY DEF LedgerAndBillingInit, BillingInit, Paying, SelectionRows, NothingSelected
<1>2. Access
  BY DEF LedgerAndBillingInit, Init, Access, Starting, Idle, CancelledHoldsNothing, Kinds
<1> QED BY <1>1, <1>2 DEF PaidInv

LEMMA BillingInductive == BillingSpec => [](IInv /\ Locks /\ PaidInv)
<1>1. LedgerAndBillingInit => IInv /\ Locks /\ PaidInv
  BY Beginning, PaidBeginning DEF LedgerAndBillingInit, Init, Locks
<1>2. (IInv /\ Locks /\ PaidInv)
        /\ [(LedgerNext /\ UNCHANGED billingVars) \/ BillingNext]_<<ledgerVars, billingVars>>
      => (IInv /\ Locks /\ PaidInv)'
  <2> SUFFICES ASSUME IInv, Locks, PaidInv,
                      [(LedgerNext /\ UNCHANGED billingVars) \/ BillingNext]_<<ledgerVars, billingVars>>
               PROVE  IInv' /\ Locks' /\ PaidInv'
    OBVIOUS
  <2>0. TypeOK
    BY DEF IInv
  <2>1. CASE [LedgerNext]_ledgerVars /\ UNCHANGED billingVars
    BY <2>0, <2>1, LedgerStep, LedgerKeepsLocks, PaidStep
  <2>2. CASE BillingNext
    BY <2>0, <2>2, BillingStep, PaidStep
  <2> QED BY <2>1, <2>2
<1> QED BY <1>1, <1>2, PTL DEF BillingSpec

\* One entitlement at most is active, the paid one only for a selection that was paid and
\* is not over, and a cancelled one holds no tokens: whatever the customer does, however
\* late and often Stripe's events come, and whenever a subscription is rolled back.
THEOREM AccessFollowsSelections == BillingSpec => []AccessFollowsTheSelection
<1>1. IInv /\ Locks /\ PaidInv => AccessFollowsTheSelection
  BY AccessFollows DEF PaidInv
<1> QED BY <1>1, BillingInductive, PTL

\* No late event of an earlier subscription suspends or cancels the one that replaced it.
THEOREM LateEventsAreHarmless == BillingSpec => LateEventsSpareTheNewPlan
<1> DEFINE Spared == \A e \in receipts' \ receipts :
             e.sel # paidFor => \/ entitlement'["PAID_MONTHLY"] = entitlement["PAID_MONTHLY"]
                                \/ paidFor' = e.sel
<1>1. [(LedgerNext /\ UNCHANGED billingVars) \/ BillingNext]_<<ledgerVars, billingVars>>
        => [Spared]_receipts
  <2> SUFFICES ASSUME BillingNext, receipts' # receipts PROVE Spared
    BY DEF billingVars
  <2>1. PICK e \in sent \ receipts : Webhook(e)
    BY DEF BillingNext, SelectPlan, CancelSubscription, CreateSession, MarkCheckout,
      UpgradeSubscription, Rollback, CustomerPays, SessionExpires, PaymentFails,
      PaymentRecovers, SubscriptionEnds, Elsewhere
  <2>2. receipts' = receipts \cup {e}
    BY <2>1 DEF Webhook, ActivatePaid, SuspendPaid, CancelPaid, CheckoutCompleted,
      CheckoutExpired, RecordStale, Receive
  <2>3. e.sel # paidFor => \/ entitlement' = entitlement \/ paidFor' = e.sel
    BY <2>1 DEF Webhook, ActivatePaid, SuspendPaid, CancelPaid, CheckoutCompleted,
      CheckoutExpired, RecordStale, EndPaid, PaidOf
  <2> QED BY <2>2, <2>3
<1> QED BY <1>1, PTL DEF BillingSpec, LateEventsSpareTheNewPlan
-----------------------------------------------------------------------------
(* The paid lifecycle beside deletion and purge *)

\* Suspension, deletion and purge take access away, and give none.
LEMMA RetentionSparesAccess ==
  ASSUME TypeOK, PaidInv,
         \/ RequestDeletion \/ CommitDeletion \/ SuspendWorkspace
         \/ QueueDue \/ ReapplyTombstone
         \/ \E w \in PurgeWorkers : ClaimPurge(w) \/ Purge(w) \/ GiveUpPurge(w)
  PROVE  PaidInv'
<1>0. /\ entitlement \in [Kinds -> EntitlementStates] /\ "TRIAL" \in Kinds /\ "PAID_MONTHLY" \in Kinds
      /\ Paying /\ SelectionRows /\ Access
  BY DEF TypeOK, Kinds, PaidInv
<1>1. ASSUME UNCHANGED <<selection, paidFor, stripe, sent, call>>,
             \A k \in Kinds :
               /\ entitlement'[k] = "ACTIVE" => entitlement[k] = "ACTIVE"
               /\ entitlement'[k] = "CANCELLED" => entitlement[k] = "CANCELLED",
             OpenOn("PAID_MONTHLY")' \subseteq OpenOn("PAID_MONTHLY")
      PROVE  PaidInv'
  <2>1. Paying' /\ SelectionRows'
    BY <1>0, <1>1 DEF Paying, SelectionRows
  <2>2. Access'
    BY <1>0, <1>1 DEF Access, Starting, CancelledHoldsNothing
  <2> QED BY <2>1, <2>2 DEF PaidInv
<1>2. CASE RequestDeletion \/ QueueDue \/ \E w \in PurgeWorkers : ClaimPurge(w) \/ GiveUpPurge(w)
  BY <1>1, <1>2 DEF RequestDeletion, QueueDue, ClaimPurge, GiveUpPurge, ledgerVars, billingVars,
       providerVars, OpenOn
<1>3. CASE SuspendWorkspace
  BY <1>1, <1>3 DEF SuspendWorkspace, billingVars, providerVars, OpenOn
<1>4. CASE CommitDeletion
  <2>1. OpenOn("PAID_MONTHLY")' \subseteq OpenOn("PAID_MONTHLY")
    BY <1>4 DEF CommitDeletion, ReleaseRows, OpenOn, TypeOK
  <2> QED BY <1>1, <1>4, <2>1 DEF CommitDeletion, billingVars, providerVars
<1>5. CASE ReapplyTombstone \/ \E w \in PurgeWorkers : Purge(w)
  <2>1. Wipe
    BY <1>5 DEF ReapplyTombstone, Purge
  <2>2. Paying'
    BY <1>0, <2>1 DEF Wipe, providerVars, Paying
  <2>3. SelectionRows'
    BY <2>1 DEF Wipe, SelectionRows, NothingSelected
  <2>4. Access'
    BY <1>0, <2>1 DEF Wipe, Access, CancelledHoldsNothing
  <2> QED BY <2>2, <2>3, <2>4 DEF PaidInv
<1> QED BY <1>2, <1>3, <1>4, <1>5

LEMMA TenantAccess == TenantSpec => []PaidInv
<1>1. TenantInit => PaidInv
  BY PaidBeginning DEF TenantInit
<1>2. TenantInv /\ PaidInv /\ [TenantNext]_tenantVars => PaidInv'
  <2> SUFFICES ASSUME TenantInv, PaidInv, [TenantNext]_tenantVars PROVE PaidInv'
    OBVIOUS
  <2>0. TypeOK
    BY DEF TenantInv, IInv
  <2>1. CASE BillingNext \/ ([LedgerNext]_ledgerVars /\ UNCHANGED billingVars)
    BY <2>0, <2>1, PaidStep
  <2>2. CASE UNCHANGED tenantVars
    BY <2>0, <2>2, PaidStep DEF tenantVars
  <2> QED BY <2>0, <2>1, <2>2, RetentionSparesAccess DEF TenantNext
<1> QED BY <1>1, <1>2, TenantInductive, PTL DEF TenantSpec

\* Suspension, deletion and purge beside it leave access following the selection.
THEOREM TenantAccessFollowsSelections == TenantSpec => []AccessFollowsTheSelection
<1>1. PaidInv => AccessFollowsTheSelection
  BY AccessFollows DEF PaidInv
<1> QED BY <1>1, TenantAccess, PTL

\* What was settled stays settled until the tenant is erased, whatever a payment or a
\* deletion releases.
THEOREM TenantSettlesForGood == TenantSpec => SettlementIsFinal
<1> DEFINE Final == \A o \in Operations :
                      reservation[o].state \in {"RECONCILED", "RELEASED"} /\ ~tombstone'
                        => reservation'[o] = reservation[o]
<1>1. TenantInv /\ [TenantNext]_tenantVars => [Final]_reservation
  <2> SUFFICES ASSUME TenantInv, [TenantNext]_tenantVars PROVE Final
    OBVIOUS
  <2>0. IInv /\ Locks /\ TypeOK
    BY DEF TenantInv, IInv
  <2>1. CASE [LedgerNext]_ledgerVars
    BY <2>0, <2>1, RowsKeepTerms DEF IInv
  <2>2. ASSUME UNCHANGED reservation PROVE Final
    BY <2>2
  <2>3. ASSUME NEW S, ReleaseRows(S), \A o \in S : reservation[o].state = "RESERVED" PROVE Final
    BY <2>3 DEF ReleaseRows
  <2> HIDE DEF Final
  <2>4. CASE BillingNext
    <3>1. ASSUME NEW k \in Kinds, Touches(k) PROVE Final
      BY <2>2, <2>3, <3>1 DEF Touches, KeepReservations, ReleaseAll, OpenOn
    <3> QED BY <2>0, <2>2, <2>4, <3>1, BillingTouches DEF ledgerVars
  <2>5. CASE CommitDeletion
    BY <2>0, <2>3, <2>5 DEF CommitDeletion, Locks
  <2>6. CASE ReapplyTombstone \/ \E w \in PurgeWorkers : Purge(w)
    BY <2>6 DEF ReapplyTombstone, Purge, Wipe, Final
  <2>7. CASE RequestDeletion \/ SuspendWorkspace \/ QueueDue
             \/ \E w \in PurgeWorkers : ClaimPurge(w) \/ GiveUpPurge(w)
    BY <2>2, <2>7 DEF RequestDeletion, SuspendWorkspace, QueueDue, ClaimPurge, GiveUpPurge, ledgerVars
  <2> QED BY <2>1, <2>4, <2>5, <2>6, <2>7 DEF TenantNext, tenantVars
<1> QED BY <1>1, TenantInductive, PTL DEF TenantSpec, SettlementIsFinal
=============================================================================
