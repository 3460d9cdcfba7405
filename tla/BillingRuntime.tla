---------------------------- MODULE BillingRuntime ----------------------------
(***************************************************************************)
(* The configuration side of the paid lifecycle (Billing has its states):  *)
(* which settings let a checkout, an upgrade and a webhook through, which  *)
(* price a plan is sold at and which plan a price is read as.  Settings    *)
(* are read at every request, and an operator deploys others in between:   *)
(* prices are rotated, keys and modes changed, gates opened and closed.    *)
(*                                                                         *)
(* One selection of one tenant.  Stripe's sandbox and its live mode hold   *)
(* sessions and subscriptions of their own.  The deterministic provider    *)
(* sells nothing: its events are made, signed and delivered by a route of  *)
(* the test runtime.  Cancellation is left to Billing.                     *)
(***************************************************************************)
EXTENDS Naturals, FiniteSets

CONSTANTS
  Deployments,   \* the settings an operator may put in force
  Prices,        \* Stripe prices
  MaxStamp       \* bound: seconds of Stripe's event clock

Modes == {"sandbox", "live"}
Plans == {"PROFESSIONAL", "TEAM"}
NoPrice == "no price"
NoMapping == "no plan"

VARIABLES
  deployed,      \* the settings in force
  checkingOut,   \* where the one checkout request in flight is
  chosen,        \* the row of billing_plan_selections
  stripeSide,    \* per mode: the session and the subscription
  events,        \* signed events Stripe has sent
  processed,     \* stripe_webhook_receipts
  clockAtStripe,
  activated,     \* history: the plans that were ever activated
  soldUnder      \* history, per mode: the settings that put the subscription at its price
                 \* (in a set, empty if support put it there)

billingRuntimeVars == <<deployed, checkingOut, chosen, stripeSide, events, processed,
                        clockAtStripe, activated, soldUnder>>

NoSession == [session |-> "none", price |-> NoPrice, active |-> FALSE]
Unchosen == [state |-> "NONE", plan |-> "PROFESSIONAL", pending |-> NoMapping, session |-> "none",
             price |-> NoPrice, last |-> 0]

BillingRuntimeInit ==
  /\ deployed \in Deployments
  /\ checkingOut = "no"
  /\ chosen = Unchosen
  /\ stripeSide = [m \in Modes |-> NoSession]
  /\ events = {} /\ processed = {} /\ clockAtStripe = 0
  /\ activated = {} /\ soldUnder = [m \in Modes |-> {}]

-----------------------------------------------------------------------------
(* BillingSettings: the gates. *)

RequireStore == deployed.store

RequireRuntime == RequireStore /\ deployed.runtime /\ deployed.provider \in {"stripe", "test"}

ExpectedAccount == deployed.account

\* In sandbox-only mode the key must be a test key; otherwise any key will do.
SandboxSecret == deployed.key # "none" /\ (deployed.sandboxOnly => deployed.key = "sandbox")

\* The deterministic provider, in an environment that is the test runtime's.
RequireTestProvider ==
  RequireRuntime /\ deployed.provider = "test" /\ deployed.testRuntime
    /\ deployed.environment = "test" /\ ExpectedAccount

PriceMappings == deployed.professional # NoPrice /\ deployed.team # NoPrice

RequireCheckout ==
  /\ RequireRuntime /\ deployed.checkout /\ ExpectedAccount
  /\ IF deployed.provider = "test" THEN RequireTestProvider ELSE SandboxSecret
  /\ PriceMappings

\* The price mappings are not among what webhooks need.
RequireWebhooks ==
  /\ RequireRuntime /\ deployed.webhooks /\ ExpectedAccount
  /\ deployed.provider = "test" => RequireTestProvider
  /\ deployed.signingSecret # "none"

RequireLifecycle == RequireCheckout /\ deployed.lifecycle

PriceForPlan(plan) == IF plan = "TEAM" THEN deployed.team ELSE deployed.professional

\* The plan of a price under some settings: of two plans mapped to one price, the first; an
\* unset mapping equals a missing price.
PlanUnder(settings, price) ==
  IF price = settings.professional THEN "PROFESSIONAL"
  ELSE IF price = settings.team THEN "TEAM"
  ELSE NoMapping

PlanForPrice(price) == PlanUnder(deployed, price)

-----------------------------------------------------------------------------
(* The checkout route: three transactions, one of them at Stripe. *)

Deploy(settings) ==
  /\ deployed' = settings
  /\ checkingOut' = "no"
  /\ UNCHANGED <<chosen, stripeSide, events, processed, clockAtStripe, activated, soldUnder>>

\* request_paid_plan_selection; the same operation again finds its row.
BeginCheckout(plan) ==
  /\ checkingOut = "no"
  /\ RequireCheckout
  /\ chosen.state = "NONE" \/ chosen.plan = plan
  /\ chosen' = IF chosen.state = "NONE" THEN [chosen EXCEPT !.state = "SELECTED", !.plan = plan] ELSE chosen
  /\ checkingOut' = "session"
  /\ UNCHANGED <<deployed, stripeSide, events, processed, clockAtStripe, activated, soldUnder>>

\* Stripe answers a repeated idempotency key with the session it made, and refuses it
\* with another price.
SessionAtStripe(mode, price) ==
  IF stripeSide[mode].session = "none"
  THEN /\ stripeSide' = [stripeSide EXCEPT ![mode].session = "open", ![mode].price = price]
       /\ soldUnder' = [soldUnder EXCEPT ![mode] = {deployed}]
  ELSE stripeSide[mode].price = price /\ UNCHANGED <<stripeSide, soldUnder>>

\* verify_account and the session, in the mode of the key.
CreateSessionAtStripe ==
  /\ checkingOut = "session" /\ deployed.provider = "stripe"
  /\ \/ /\ deployed.keyOfAccount
        /\ SessionAtStripe(deployed.key, PriceForPlan(chosen.plan))
        /\ checkingOut' = "mark"
     \/ checkingOut' = "no" /\ UNCHANGED <<stripeSide, soldUnder>>
  /\ UNCHANGED <<deployed, chosen, events, processed, clockAtStripe, activated>>

CreateTestSession ==
  /\ checkingOut = "session" /\ deployed.provider = "test"
  /\ checkingOut' = "mark"
  /\ UNCHANGED <<deployed, chosen, stripeSide, events, processed, clockAtStripe, activated, soldUnder>>

SessionName == IF deployed.provider = "test" THEN "test" ELSE deployed.key

\* mark_checkout_session_created
MarkCheckoutCreated ==
  /\ checkingOut = "mark"
  /\ chosen' = IF chosen.state \in {"SELECTED", "CHECKOUT_CREATED"} /\ chosen.session \in {"none", SessionName}
               THEN [chosen EXCEPT !.state = "CHECKOUT_CREATED", !.session = SessionName,
                                   !.price = PriceForPlan(chosen.plan)]
               ELSE chosen
  /\ checkingOut' = "no"
  /\ UNCHANGED <<deployed, stripeSide, events, processed, clockAtStripe, activated, soldUnder>>

\* The upgrade route: request_paid_plan_upgrade, or a retry of one that is pending, and
\* the call, which reaches the subscription only with a key of its mode.
RequestUpgrade ==
  /\ RequireLifecycle
  /\ \/ chosen.state = "ACTIVE" /\ chosen.plan = "PROFESSIONAL"
     \/ chosen.state = "UPGRADE_PENDING"
  /\ chosen' = [chosen EXCEPT !.state = "UPGRADE_PENDING", !.pending = "TEAM"]
  /\ \/ UNCHANGED <<stripeSide, events, clockAtStripe, soldUnder>>
     \/ /\ deployed.provider = "stripe" /\ deployed.keyOfAccount /\ chosen.session = deployed.key
        /\ stripeSide[deployed.key].active /\ clockAtStripe < MaxStamp
        /\ clockAtStripe' = clockAtStripe + 1
        /\ stripeSide' = [stripeSide EXCEPT ![deployed.key].price = deployed.team]
        /\ soldUnder' = [soldUnder EXCEPT ![deployed.key] = {deployed}]
        /\ events' = events \cup {[type |-> "updated", mode |-> deployed.key, price |-> deployed.team,
                                   at |-> clockAtStripe + 1]}
  /\ UNCHANGED <<deployed, checkingOut, processed, activated>>

-----------------------------------------------------------------------------
(* Stripe. *)

\* The customer pays in the session it was sent to.
Pays(mode) ==
  /\ chosen.session = mode /\ stripeSide[mode].session = "open" /\ clockAtStripe < MaxStamp
  /\ stripeSide' = [stripeSide EXCEPT ![mode].session = "complete", ![mode].active = TRUE]
  /\ clockAtStripe' = clockAtStripe + 1
  /\ events' = events \cup {[type |-> ty, mode |-> mode, price |-> IF ty = "updated" THEN stripeSide[mode].price ELSE NoPrice,
                             at |-> clockAtStripe + 1] : ty \in {"completed", "updated"}}
  /\ UNCHANGED <<deployed, checkingOut, chosen, processed, activated, soldUnder>>

\* Support moves the subscription to another price in Stripe's own console, or its update
\* carries no price.
MovedAtStripe(mode, price) ==
  /\ stripeSide[mode].active /\ price # stripeSide[mode].price /\ clockAtStripe < MaxStamp
  /\ stripeSide' = [stripeSide EXCEPT ![mode].price = price]
  /\ soldUnder' = [soldUnder EXCEPT ![mode] = {}]
  /\ clockAtStripe' = clockAtStripe + 1
  /\ events' = events \cup {[type |-> "updated", mode |-> mode, price |-> price, at |-> clockAtStripe + 1]}
  /\ UNCHANGED <<deployed, checkingOut, chosen, processed, activated>>

-----------------------------------------------------------------------------
(* The webhook. *)

\* verify_stripe_signature: the deployed secret is the one Stripe signs with (each
\* delivery is signed anew, so none is too old).
SignatureHolds == deployed.signingSecret = "current"

\* Neither the route in sandbox-only mode nor the store takes a live event.
ModeTaken(e) == e.mode # "live"

\* The plan the customer has confirmed and is waiting for, or has.
Confirmed == IF chosen.pending # NoMapping THEN chosen.pending ELSE chosen.plan

\* stripe_plan_mapping_required, stripe_upgrade_plan_mismatch, stripe_selected_plan_mismatch
PlanAgrees(e) == PlanForPrice(e.price) = Confirmed

\* [mutant] Stale from its own second on.
StaleInItsSecond(e) == e.at <= chosen.last

Stale(e) == e.at < chosen.last

\* What apply_stripe_billing_event makes of an event it does not refuse.
Applied(e) ==
  IF Stale(e) THEN chosen
  ELSE IF e.type = "completed" THEN [chosen EXCEPT !.state = "CHECKOUT_COMPLETED", !.last = e.at]
  ELSE [chosen EXCEPT !.state = "ACTIVE", !.plan = PlanForPrice(e.price), !.pending = NoMapping,
                      !.price = e.price, !.last = e.at]

Activates(e) == e.type = "updated" /\ ~Stale(e)

Refuses(e) == Activates(e) /\ ~PlanAgrees(e)

Apply(e) ==
  /\ ~Refuses(e)
  /\ chosen' = Applied(e)
  /\ activated' = IF Activates(e) THEN activated \cup {chosen'.plan} ELSE activated

\* stripe_webhook; one that is refused leaves no receipt and may come again.
DeliverEvent(e) ==
  /\ RequireWebhooks /\ SignatureHolds /\ ModeTaken(e)
  /\ chosen.state # "NONE"
  /\ e \notin processed
  /\ Apply(e)
  /\ processed' = processed \cup {e}
  /\ UNCHANGED <<deployed, checkingOut, stripeSide, events, clockAtStripe, soldUnder>>

\* _next_event_time: later than what the row has seen.
NextEventTime == chosen.last + 1

\* The subscription event the route makes (and, for a checkout, a completed one before
\* it), at the price its plan has now.
TestEvent(action) ==
  [type |-> "updated", mode |-> action, at |-> NextEventTime,
   price |-> PriceForPlan(IF action = "CONFIRM_UPGRADE" THEN chosen.pending ELSE chosen.plan)]

Pending(action) ==
  CASE action = "COMPLETE_CHECKOUT" -> chosen.state \in {"CHECKOUT_CREATED", "CHECKOUT_COMPLETED"}
    [] action = "CONFIRM_UPGRADE" -> chosen.state = "UPGRADE_PENDING"

\* Test events have fixed ids: one that was applied before, with other times, conflicts.
AlreadySent(action) == \E e \in processed : e.mode = action

\* deterministic_provider_event for a completed checkout or a confirmed upgrade.
ProviderEvent(action) ==
  LET e == TestEvent(action) IN
  /\ RequireTestProvider /\ RequireWebhooks
  /\ Pending(action) /\ e.price # NoPrice
  /\ ~AlreadySent(action)
  /\ NextEventTime <= MaxStamp
  /\ Apply(e)
  /\ processed' = processed \cup {e}
  /\ UNCHANGED <<deployed, checkingOut, stripeSide, events, clockAtStripe, soldUnder>>

BillingRuntimeNext ==
  \/ \E s \in Deployments : Deploy(s)
  \/ \E plan \in Plans : BeginCheckout(plan)
  \/ CreateSessionAtStripe \/ CreateTestSession \/ MarkCheckoutCreated \/ RequestUpgrade
  \/ \E mode \in Modes : Pays(mode) \/ \E price \in Prices \cup {NoPrice} : MovedAtStripe(mode, price)
  \/ \E e \in events : DeliverEvent(e)
  \/ \E action \in {"COMPLETE_CHECKOUT", "CONFIRM_UPGRADE"} : ProviderEvent(action)

BillingRuntimeSpec == BillingRuntimeInit /\ [][BillingRuntimeNext]_billingRuntimeVars

-----------------------------------------------------------------------------
(* Properties. *)

\* What a customer has paid for is never out of reach.  Whatever is deployed between a
\* checkout or an upgrade, its payment and the events about it, in whatever order and however
\* often they come, the plan that was sold has been activated, or an event that activates it
\* is still to be taken: not used up by a delivery that was refused, not overtaken by a later
\* event, and read as the plan that the row waits for once the prices it was sold at are in
\* force again.  (Not where support moved the subscription, or the two plans had one price.)
PaidPlanStaysWithinReach ==
  \A s \in soldUnder["sandbox"] :
    LET bought == PlanUnder(s, stripeSide["sandbox"].price) IN
    stripeSide["sandbox"].active /\ s.professional # s.team =>
      \/ bought \in activated
      \/ /\ bought = Confirmed
         /\ \E e \in events \ processed :
              /\ e.type = "updated" /\ e.mode = "sandbox" /\ e.price = stripeSide["sandbox"].price
              /\ ~Stale(e)

===============================================================================
