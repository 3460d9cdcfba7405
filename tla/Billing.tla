------------------------------- MODULE Billing -------------------------------
(***************************************************************************)
(* The paid lifecycle of one tenant: the functions of 100 on the tenant's  *)
(* plan selections and on its entitlements (TokenLedger), the routes of    *)
(* billing_routes.py that call them and Stripe, and Stripe's webhook.      *)
(*                                                                         *)
(* Stripe is external: a checkout session and a subscription per selection, *)
(* which emit events stamped in whole seconds (so stamps may tie).  Events *)
(* are delivered in any order and repeatedly; a delivery that raises       *)
(* leaves no receipt and may come again.  An event is its type, what it    *)
(* says of the subscription and its stamp.  subscription.created and       *)
(* .updated are handled alike and are both "updated"; invoice.paid changes *)
(* nothing and is left out.  A selection is named by its operation id.     *)
(***************************************************************************)
EXTENDS TokenLedger

CONSTANTS Selections, NoSelection,
          Offered,       \* plans on offer, of PROFESSIONAL and TEAM
          MaxEvents      \* bound: events of Stripe that are ever delivered

ASSUME BillingAssumption ==
  /\ NoSelection \notin Selections
  /\ Offered \subseteq {"PROFESSIONAL", "TEAM"}
  /\ MaxEvents \in Nat

NoPlan == "NONE"
Ended == {"CANCELLED", "FAILED", "ROLLED_BACK"}
SelectionStates ==
  Ended \cup {"NONE", "SELECTED", "CHECKOUT_CREATED", "CHECKOUT_COMPLETED", "ACTIVE",
              "UPGRADE_PENDING", "CANCEL_PENDING", "CANCEL_AT_PERIOD_END", "SUSPENDED"}

VARIABLES
  \* billing_plan_selections, and billing_selection_id of the paid entitlement
  selection, paidFor,
  \* stripe_webhook_receipts
  receipts,
  \* Stripe: sessions and subscriptions, events and their clock
  stripe, sent, stamp

providerVars == <<stripe, sent, stamp>>
billingVars == <<selection, paidFor, receipts, providerVars>>

NothingSelected == [state |-> "NONE", plan |-> "PROFESSIONAL", pending |-> NoPlan,
                    atEnd |-> FALSE, last |-> 0]

BillingInit ==
  /\ selection = [s \in Selections |-> NothingSelected]
  /\ paidFor = NoSelection
  /\ receipts = {}
  /\ stripe = [s \in Selections |-> [session |-> "none", status |-> "none",
                                    plan |-> "PROFESSIONAL", atEnd |-> FALSE]]
  /\ sent = {}
  /\ stamp = 0

\* What a step on the selections alone leaves as it is.
Frame == UNCHANGED ledgerVars

\* billing_one_nonterminal_selection_per_tenant_idx
OnlyOpen(s) == \A t \in Selections \ {s} : selection[t].state \in Ended \cup {"NONE"}
-----------------------------------------------------------------------------
(* Stripe *)

Live(s) == stripe[s].status \in {"active", "past_due"}

\* Stripe's record of s becomes r, which it reports in events of the given types.
\* The ones it sends are those that will ever be delivered: the others are lost
\* (not all of them, to bound what Stripe does by the events it sends).
Report(s, r, types) ==
  \E t \in {stamp, stamp + 1} \ {0}, delivered \in (SUBSET types) \ {{}} :
    LET events == {[sel |-> s, type |-> ty, status |-> r.status, plan |-> r.plan,
                    atEnd |-> r.atEnd, at |-> t] : ty \in delivered}
    IN /\ Cardinality(sent \cup events) <= MaxEvents
       /\ sent' = sent \cup events
       /\ stamp' = t
       /\ stripe' = [stripe EXCEPT ![s] = r]

\* A change at Stripe that no one here asked for
Elsewhere == UNCHANGED <<selection, paidFor, receipts>> /\ Frame

CustomerPays(s) ==
  /\ stripe[s].session = "open"
  /\ Report(s, [stripe[s] EXCEPT !.session = "complete", !.status = "active"],
            {"completed", "updated"})
  /\ Elsewhere

SessionExpires(s) ==
  /\ stripe[s].session = "open"
  /\ Report(s, [stripe[s] EXCEPT !.session = "expired"], {"expired"})
  /\ Elsewhere

PaymentFails(s) ==
  /\ stripe[s].status = "active"
  /\ Report(s, [stripe[s] EXCEPT !.status = "past_due"], {"payment_failed", "updated"})
  /\ Elsewhere

PaymentRecovers(s) ==
  /\ stripe[s].status = "past_due"
  /\ Report(s, [stripe[s] EXCEPT !.status = "active"], {"updated"})
  /\ Elsewhere

\* The period ends, dunning gives up or an operator cancels at Stripe.
SubscriptionEnds(s) ==
  /\ Live(s)
  /\ \E ty \in {"deleted", "updated"} :
       Report(s, [stripe[s] EXCEPT !.status = "canceled"], {ty})
  /\ Elsewhere
-----------------------------------------------------------------------------
(* The customer's routes: a transaction and then a call to Stripe, which may fail *)
(* or never be made.  A call that succeeds late has the effect of one that is     *)
(* made at once and whose event is late.                                          *)

\* request_paid_plan_selection, for an id Stripe has not seen.  (Repeating a
\* selection returns its row, and repeats the two steps below.)
SelectPlan(s, plan) ==
  /\ selection[s].state = "NONE" /\ stripe[s].session = "none"
  /\ entitlement["PAID_MONTHLY"] \notin {"ACTIVE", "SUSPENDED"}
  /\ OnlyOpen(s)
  /\ selection' = [selection EXCEPT
       ![s] = [NothingSelected EXCEPT !.state = "SELECTED", !.plan = plan]]
  /\ UNCHANGED <<paidFor, receipts, providerVars>> /\ Frame

\* StripeGateway.create_checkout_session: the idempotency key is the selection's,
\* so there is one session, and what has happened to the selection is not looked at.
CreateSession(s) ==
  /\ selection[s].state # "NONE"
  /\ stripe[s].session = "none"
  /\ stripe' = [stripe EXCEPT ![s].session = "open", ![s].plan = selection[s].plan]
  /\ UNCHANGED <<selection, paidFor, receipts, sent, stamp>> /\ Frame

\* mark_checkout_session_created
MarkCheckout(s) ==
  /\ stripe[s].session # "none"
  /\ selection[s].state \in {"SELECTED", "CHECKOUT_CREATED"}
  /\ selection' = [selection EXCEPT ![s].state = "CHECKOUT_CREATED"]
  /\ UNCHANGED <<paidFor, receipts, providerVars>> /\ Frame

\* The command reaches Stripe, or not.
Command(s, r, type) ==
  \/ Live(s) /\ Report(s, r, {type})
  \/ UNCHANGED providerVars

\* request_paid_plan_upgrade, or a retry of one that is pending, and the command
UpgradeSubscription(s) ==
  /\ \/ /\ selection[s].state = "ACTIVE" /\ selection[s].plan = "PROFESSIONAL"
        /\ selection' = [selection EXCEPT ![s].state = "UPGRADE_PENDING", ![s].pending = "TEAM"]
     \/ /\ selection[s].state = "UPGRADE_PENDING" /\ selection[s].pending = "TEAM"
        /\ UNCHANGED selection
  /\ Command(s, [stripe[s] EXCEPT !.plan = "TEAM"], "updated")
  /\ UNCHANGED <<paidFor, receipts>> /\ Frame

\* request_paid_cancellation, or a retry, and the command
CancelSubscription(s, atEnd) ==
  /\ \/ /\ selection[s].state \in {"ACTIVE", "CANCEL_AT_PERIOD_END", "SUSPENDED"}
        /\ selection' = [selection EXCEPT ![s].state = "CANCEL_PENDING", ![s].atEnd = atEnd]
     \/ /\ selection[s].state = "CANCEL_PENDING" /\ selection[s].atEnd = atEnd
        /\ UNCHANGED selection
  /\ IF atEnd THEN Command(s, [stripe[s] EXCEPT !.atEnd = TRUE], "updated")
     ELSE Command(s, [stripe[s] EXCEPT !.status = "canceled"], "deleted")
  /\ UNCHANGED <<paidFor, receipts>> /\ Frame
-----------------------------------------------------------------------------
(* apply_stripe_billing_event *)

\* Older than what the selection has seen, or a change of one that is over.
Stale(e) ==
  \/ e.at < selection[e.sel].last
  \/ selection[e.sel].state \in {"CANCELLED", "ROLLED_BACK"} /\ e.type = "updated"

\* A change that is let through, for the plan that is selected or pending.
Admitted(e, status) ==
  LET row == selection[e.sel]
  IN /\ e.type = "updated" /\ e.status = status /\ ~Stale(e)
     /\ e.plan = IF row.pending # NoPlan THEN row.pending ELSE row.plan

\* [mutant] the counter without the rows
ReleaseCounter(k) ==
  reserved' = [reserved EXCEPT ![k] = 0] /\ UNCHANGED reservationVars

\* release_billing_reservations
ReleaseAll(k) ==
  /\ ReleaseRows(OpenOn(k))
  /\ reserved' = [reserved EXCEPT ![k] = 0]

KeepReservations == UNCHANGED <<reserved, reservationVars>>

\* [mutant] the tenant's paid entitlement, whichever selection it is for
PaidOfTenant(s) == paidFor # NoSelection

\* [mutant] one that holds nothing is not looked at
PaidInUse(s) == paidFor = s /\ OpenOn("PAID_MONTHLY") # {}

\* The paid entitlement is the selection's (billing_selection_id).
PaidOf(s) == paidFor = s

\* The selection's paid entitlement, if it has one, goes to the given state.
EndPaid(s, state) ==
  IF PaidOf(s)
  THEN /\ Unlocked("PAID_MONTHLY")
       /\ state = "CANCELLED" \/ ~deleting
       /\ ReleaseAll("PAID_MONTHLY")
       /\ entitlement' = [entitlement EXCEPT !["PAID_MONTHLY"] = state]
       /\ workspace' = Synced(workspace, state)
  ELSE KeepReservations /\ UNCHANGED <<entitlement, workspace>>

\* The receipt, and what no event touches.
Receive(e) ==
  /\ receipts' = receipts \cup {e}
  /\ UNCHANGED <<consumed, trialEnds, grant, tombstone, requestVars, lockVars, now,
                 providerVars>>

\* [mutant] only a trial that holds something is closed
TrialInUse == entitlement["TRIAL"] = "ACTIVE" /\ OpenOn("TRIAL") # {}

TrialToReplace == entitlement["TRIAL"] = "ACTIVE"

\* The subscription is active: the trial gives way to the paid entitlement.  Its
\* insert or update waits for a trial that is being started, and then fails.
ActivatePaid(e) ==
  LET s == e.sel IN
  /\ Admitted(e, "active")
  /\ OnlyOpen(s)
  /\ ~Starting /\ ~deleting
  /\ entitlement["PAID_MONTHLY"] = "ABSENT" => ~tombstone
  /\ IF TrialToReplace THEN ReleaseAll("TRIAL") ELSE KeepReservations
  /\ entitlement' = [entitlement EXCEPT !["PAID_MONTHLY"] = "ACTIVE",
                       !["TRIAL"] = IF TrialToReplace THEN "READ_ONLY" ELSE @]
  /\ workspace' = Synced(workspace, "ACTIVE")
  /\ paidFor' = s
  /\ selection' = [selection EXCEPT ![s] =
       [state |-> IF e.atEnd THEN "CANCEL_AT_PERIOD_END" ELSE "ACTIVE", plan |-> e.plan,
        pending |-> NoPlan, atEnd |-> e.atEnd, last |-> e.at]]
  /\ Receive(e)

\* past_due and unpaid; a failed payment suspends whether it is stale or not.
SuspendPaid(e) ==
  /\ e.type = "payment_failed" \/ Admitted(e, "past_due")
  /\ OnlyOpen(e.sel)
  /\ EndPaid(e.sel, "SUSPENDED")
  /\ selection' = [selection EXCEPT ![e.sel].state = "SUSPENDED", ![e.sel].last = e.at]
  /\ UNCHANGED paidFor
  /\ Receive(e)

\* A deletion cancels whether it is stale or not.
CancelPaid(e) ==
  /\ e.type = "deleted" \/ Admitted(e, "canceled")
  /\ EndPaid(e.sel, "CANCELLED")
  /\ selection' = [selection EXCEPT ![e.sel].state = "CANCELLED", ![e.sel].atEnd = FALSE,
                                   ![e.sel].last = e.at]
  /\ UNCHANGED paidFor
  /\ Receive(e)

CheckoutCompleted(e) ==
  /\ e.type = "completed" /\ ~Stale(e)
  /\ OnlyOpen(e.sel)
  /\ selection' = [selection EXCEPT ![e.sel].state = "CHECKOUT_COMPLETED",
                                   ![e.sel].last = e.at]
  /\ KeepReservations
  /\ UNCHANGED <<entitlement, workspace, paidFor>>
  /\ Receive(e)

\* [mutant] a state the table does not have
CheckoutExpiredState(e) ==
  /\ e.type = "expired" /\ selection[e.sel].state # "ACTIVE"
  /\ selection' = [selection EXCEPT ![e.sel].state = "EXPIRED", ![e.sel].last = e.at]
  /\ KeepReservations
  /\ UNCHANGED <<entitlement, workspace, paidFor>>
  /\ Receive(e)

CheckoutExpired(e) ==
  /\ e.type = "expired" /\ selection[e.sel].state # "ACTIVE"
  /\ selection' = [selection EXCEPT ![e.sel].state = "FAILED", ![e.sel].last = e.at]
  /\ KeepReservations
  /\ UNCHANGED <<entitlement, workspace, paidFor>>
  /\ Receive(e)

\* STALE and nothing more
RecordStale(e) ==
  /\ e.type \in {"completed", "updated"} /\ Stale(e)
  /\ KeepReservations
  /\ UNCHANGED <<entitlement, workspace, paidFor, selection>>
  /\ Receive(e)

\* rollback_paid_lifecycle
Rollback(s) ==
  /\ selection[s].state # "NONE"
  /\ EndPaid(s, "CANCELLED")
  /\ selection' = [selection EXCEPT ![s].state = "ROLLED_BACK", ![s].atEnd = FALSE,
                                   ![s].pending = NoPlan]
  /\ UNCHANGED <<paidFor, receipts, consumed, trialEnds, grant, tombstone, requestVars,
                 lockVars, now, providerVars>>

\* A delivery Stripe makes for the first time, or again after a refusal.
Webhook(e) ==
  /\ selection[e.sel].state # "NONE"
  /\ \/ ActivatePaid(e) \/ SuspendPaid(e) \/ CancelPaid(e)
     \/ CheckoutCompleted(e) \/ CheckoutExpired(e) \/ RecordStale(e)

BillingNext ==
  \/ \E s \in Selections, plan \in Offered : SelectPlan(s, plan)
  \/ \E s \in Selections, atEnd \in BOOLEAN : CancelSubscription(s, atEnd)
  \/ \E s \in Selections :
       \/ CreateSession(s) \/ MarkCheckout(s)
       \/ UpgradeSubscription(s) \/ Rollback(s)
       \/ CustomerPays(s) \/ SessionExpires(s) \/ PaymentFails(s) \/ PaymentRecovers(s)
       \/ SubscriptionEnds(s)
  \/ \E e \in sent \ receipts : Webhook(e)

LedgerAndBillingInit == Init /\ BillingInit

BillingSpec ==
  /\ LedgerAndBillingInit
  /\ [][(LedgerNext /\ UNCHANGED billingVars) \/ BillingNext]_<<ledgerVars, billingVars>>
-----------------------------------------------------------------------------
(* Properties *)

BillingTypeOK ==
  /\ selection \in [Selections -> [state : SelectionStates, plan : {"PROFESSIONAL", "TEAM"},
       pending : {NoPlan, "TEAM"}, atEnd : BOOLEAN, last : 0..MaxEvents]]
  /\ paidFor \in Selections \cup {NoSelection}
  /\ receipts \subseteq sent
  /\ stripe \in [Selections -> [session : {"none", "open", "complete", "expired"},
       status : {"none", "active", "past_due", "canceled"},
       plan : {"PROFESSIONAL", "TEAM"}, atEnd : BOOLEAN]]

\* A tenant has one active entitlement at most: paying ends the trial in the same
\* transaction, and a trial cannot start beside an active subscription.
OneActiveEntitlement == Cardinality({k \in Kinds : entitlement[k] = "ACTIVE"}) <= 1

\* Nothing is held on a cancelled subscription, however its last authorizations,
\* the provider's events and a rollback interleave.
CancelledHoldsNothing ==
  entitlement["PAID_MONTHLY"] = "CANCELLED" => OpenOn("PAID_MONTHLY") = {}

\* Paid access never outlives the selection it was granted for.
AccessNeedsLiveSelection ==
  entitlement["PAID_MONTHLY"] = "ACTIVE" =>
    /\ paidFor # NoSelection
    /\ selection[paidFor].state \notin Ended \cup {"NONE", "SELECTED", "SUSPENDED"}

\* What a tenant may use follows the plan it selected: one entitlement at most is active,
\* the paid one only while its selection lives, and a cancelled one holds no tokens.
AccessFollowsTheSelection == OneActiveEntitlement /\ AccessNeedsLiveSelection /\ CancelledHoldsNothing

\* An event of an earlier subscription, however late, neither suspends nor cancels
\* the one that replaced it.
LateEventsSpareTheNewPlan ==
  [][\A e \in receipts' \ receipts :
       e.sel # paidFor => \/ entitlement'["PAID_MONTHLY"] = entitlement["PAID_MONTHLY"]
                          \/ paidFor' = e.sel]_receipts

\* docs/security/AX-F9-T15-stripe-paid-lifecycle-boundary.md: older events "cannot
\* reactivate a cancelled or rolled-back subscription".  When a deletion has been
\* received, the subscription is not active by an event older than the deletion.
OlderEventsNeverReactivate ==
  \A e \in receipts :
    e.type = "deleted" /\ e.sel = paidFor /\ entitlement["PAID_MONTHLY"] = "ACTIVE"
      => e.at <= selection[paidFor].last
=============================================================================
