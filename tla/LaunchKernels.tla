---------------------------- MODULE LaunchKernels ----------------------------
(***************************************************************************)
(* Phases P21 to P24: the commercial runtime, production readiness, public *)
(* experience, and launch acceptance.                                      *)
(***************************************************************************)
EXTENDS FoundationKernels

\* Every one of a set of named facts holds.
AllOf(x, facts) == \A f \in facts : x[f]

LadderOf(facts) == [f \in facts |-> Holds]

\* The same, with facts that have a ladder of their own.
LadderWith(own, facts) == [f \in DOMAIN own \cup facts |-> IF f \in DOMAIN own THEN own[f] ELSE Holds]

\*** P21 commercial runtime (money in minor units)

P21_server_price_decision(x) ==
    IF /\ x.plan_mapped /\ x.currency_matches
       /\ x.client_price_id # "none" => x.client_price_id = x.provider_price_id
       /\ x.status = "ACTIVE_SANDBOX"
    THEN "ALLOW" ELSE "DENY"

P21_provider_event_decision(x) ==
    IF ~x.signature_valid THEN "QUARANTINE"
    ELSE IF x.event_id \in x.seen_event_ids THEN "IGNORE_IDEMPOTENT"
    ELSE IF ~x.provider_account_match \/ x.livemode # x.expected_livemode THEN "DENY"
    ELSE IF x.created_at < x.last_applied_created_at THEN "STALE" ELSE "APPLY_TO_LEDGER"

P21_derive_entitlement_state(x) ==
    IF ~x.tenant_active \/ ~x.policy_current \/ ~x.rights_current THEN "DENY"
    ELSE IF \/ x.subscription_state = "ACTIVE" /\ x.invoice_state = "PAID_VERIFIED"
            \/ x.subscription_state = "CANCEL_AT_PERIOD_END" /\ ~x.period_end_reached
    THEN "ACTIVE_LIMITED"
    ELSE IF x.subscription_state \in {"PAST_DUE", "DISPUTED"} THEN "SUSPENDED"
    ELSE IF x.subscription_state \in {"CANCELLED", "REFUNDED"} \/ x.period_end_reached
    THEN "READ_ONLY_RETENTION" ELSE "DENY"

P21_cancellation_decision(x) ==
    IF x.request_id \in x.seen_request_ids THEN "IDEMPOTENT_REPLAY"
    ELSE IF x.mode = "PERIOD_END" THEN "CANCEL_AT_PERIOD_END"
    ELSE IF x.mode = "IMMEDIATE" /\ x.human_approved THEN "CANCEL_IMMEDIATE_BOUNDED"
    ELSE "HUMAN_REVIEW_REQUIRED"

P21_refund_decision(x) ==
    Judge(~x.payment_verified \/ x.amount <= 0 \/ x.amount > x.refundable, ~x.independent_approval)

P21_tax_decision(x) ==
    Judge(x.automatic_tax_requested /\ ~x.active_registration, ~x.customer_location_evidence)

\* Contribution margin in basis points, rounded half up.
P21_margin_bps(x) ==
    LET contribution == x.net_revenue - x.cost1 - x.cost2
    IN  IF contribution >= 0
        THEN (2 * contribution * 10000 + x.net_revenue) \div (2 * x.net_revenue)
        ELSE -((2 * (0 - contribution) * 10000 + x.net_revenue) \div (2 * x.net_revenue))

P21_margin_scenario(x) ==
    IF x.net_revenue <= 0 THEN Raised
    ELSE IF P21_margin_bps(x) >= x.floor_bps THEN "PASS" ELSE "BLOCK"

P21_commercial_readiness(gates) == IF gates = {"PASS"} THEN "READY" ELSE "DENY"

ActivationFacts ==
    {"provider_event_verified", "ledger_reconciled", "policy_current", "tenant_match", "rights_current",
     "human_commercial_activation"}

P21_may_activate_paid_entitlement(x) == AllOf(x, ActivationFacts)

P21_may_launch_commercially(x) == x.canonical_activation /\ x.launch_authority

P21Kernels ==
    [server_price_decision |-> [plan_mapped |-> Holds, currency_matches |-> Holds,
                                client_price_id |-> <<"none", "p1", "p2">>, provider_price_id |-> <<"p1">>,
                                status |-> <<"ACTIVE_SANDBOX", "DRAFT">>],
     provider_event_decision |-> [signature_valid |-> Holds, event_id |-> <<"e1">>,
                                  seen_event_ids |-> <<{}, {"e1"}>>, provider_account_match |-> Holds,
                                  livemode |-> Absent, expected_livemode |-> <<FALSE>>,
                                  created_at |-> <<3, 2, 1>>, last_applied_created_at |-> <<0, 2, 3>>],
     derive_entitlement_state |-> [subscription_state |-> <<"ACTIVE", "PAST_DUE", "CANCELLED",
                                                            "CANCEL_AT_PERIOD_END">>,
                                   invoice_state |-> <<"PAID_VERIFIED", "OPEN">>, tenant_active |-> Holds,
                                   policy_current |-> Holds, rights_current |-> Holds,
                                   period_end_reached |-> Absent],
     cancellation_decision |-> [request_id |-> <<"r1">>, seen_request_ids |-> <<{}, {"r1"}>>,
                                mode |-> <<"PERIOD_END", "IMMEDIATE", "UNLISTED">>, human_approved |-> Holds],
     refund_decision |-> [payment_verified |-> Holds, amount |-> <<1, 2, 3, 0>>, refundable |-> <<3, 2, 0>>,
                          independent_approval |-> Holds],
     tax_decision |-> [automatic_tax_requested |-> Absent, active_registration |-> Holds,
                       customer_location_evidence |-> Holds],
     margin_scenario |-> [net_revenue |-> <<300, 200, 0>>, cost1 |-> <<0, 100, 150>>, cost2 |-> <<0, 49, 51>>,
                          floor_bps |-> <<2500, 5000>>],
     commercial_readiness |-> [gate1 |-> <<"PASS", "UNKNOWN", "ABSENT">>, gate2 |-> <<"PASS", "DENY", "ABSENT">>],
     may_activate_paid_entitlement |-> LadderOf(ActivationFacts),
     may_launch_commercially |-> [canonical_activation |-> Holds, launch_authority |-> Holds]]

P21Severity(k, x) ==
    CASE k = "server_price_decision" -> Severity(P21_server_price_decision(x))
      [] k = "provider_event_decision" -> Closed(P21_provider_event_decision(x) = "APPLY_TO_LEDGER")
      [] k = "derive_entitlement_state" -> Closed(P21_derive_entitlement_state(x) = "ACTIVE_LIMITED")
      [] k = "cancellation_decision" ->
             Closed(P21_cancellation_decision(x) \in {"CANCEL_AT_PERIOD_END", "CANCEL_IMMEDIATE_BOUNDED"})
      [] k = "refund_decision" -> Severity(P21_refund_decision(x))
      [] k = "tax_decision" -> Severity(P21_tax_decision(x))
      [] k = "margin_scenario" -> Severity(P21_margin_scenario(x))
      [] k = "commercial_readiness" -> Severity(P21_commercial_readiness(Given(x.gate1, x.gate2)))
      [] k = "may_activate_paid_entitlement" -> Closed(P21_may_activate_paid_entitlement(x))
      [] k = "may_launch_commercially" -> Closed(P21_may_launch_commercially(x))

\*** P22 production, service levels and recovery

P22_availability_bps(x) ==
    IF x.total <= 0 \/ x.good < 0 \/ x.good > x.total THEN -1 ELSE (x.good * 10000) \div x.total

P22_latency_compliant(x) == x.observed_ms >= 0 /\ x.observed_ms <= x.threshold_ms

\* The burn rate times ten, rounded down: the alert thresholds have one decimal.
P22_burn_rate(x) ==
    IF x.total_events <= 0 \/ x.objective_bps \notin 1..9999 THEN -1
    ELSE (10 * x.consumed * 10000) \div (x.total_events * (10000 - x.objective_bps))

P22_alert_decision(x) ==
    IF \/ x.window_hours <= 1 /\ x.burn >= 144
       \/ x.window_hours <= 6 /\ x.burn >= 60 THEN "PAGE"
    ELSE IF x.window_hours <= 72 /\ x.burn >= 10 THEN "TICKET" ELSE "NONE"

ReleaseFacts ==
    {"immutable_artifact", "exact_revision", "staging_smoke", "rollback_test", "slo_instrumented",
     "security_acceptance_signed", "human_release_approval"}

P22_release_decision(x) == IF AllOf(x, ReleaseFacts) /\ x.critical_findings = 0 THEN "ALLOW" ELSE "DENY"

P22_restore_decision(x) ==
    IF /\ AllOf(x, {"encrypted_backup", "digest_verified", "isolated_target", "consistency_verified"})
       /\ x.point_age <= x.rpo /\ x.elapsed <= x.rto
    THEN "PASS" ELSE "FAIL_CLOSED"

\* expires_at is 0 where the acceptance names no expiry.
P22_risk_acceptance_decision(x) ==
    IF x.severity = "CRITICAL" THEN "DENY"
    ELSE IF x.severity # "HIGH" THEN "NOT_REQUIRED"
    ELSE IF x.actor # "RISK_ACCEPTOR" \/ x.expires_at = 0 \/ x.expires_at <= x.now THEN "DENY"
    ELSE "ALLOW"

P22_security_acceptance(x) ==
    IF x.critical_findings = 0 /\ x.high_unaccepted = 0 /\ x.control1 = "PASS" /\ x.control2 = "PASS"
    THEN "PASS" ELSE "BLOCK"

P22_production_readiness(x) == IF x.gate1 = "PASS" /\ x.gate2 = "PASS" THEN "READY" ELSE "BLOCKED"

P22Kernels ==
    [availability_bps |-> [good |-> <<3, 2, 0, -1>>, total |-> <<3>>],
     latency_compliant |-> [observed_ms |-> <<0, 5, 6>>, threshold_ms |-> <<6, 5>>],
     burn_rate |-> [consumed |-> <<0, 1, 144>>, total_events |-> <<2000, 1000>>, objective_bps |-> <<9900, 9990>>],
     alert_decision |-> [burn |-> <<9, 10, 59, 60, 143, 144>>, window_hours |-> <<73, 72, 6, 1>>],
     release_decision |-> LadderWith([critical_findings |-> <<0, 1>>], ReleaseFacts),
     restore_decision |-> [encrypted_backup |-> Holds, digest_verified |-> Holds, isolated_target |-> Holds,
                           consistency_verified |-> Holds, point_age |-> <<1, 2>>, rpo |-> <<2, 1>>,
                           elapsed |-> <<1, 2>>, rto |-> <<2, 1>>],
     risk_acceptance_decision |-> [severity |-> <<"MEDIUM", "HIGH", "CRITICAL", "UNLISTED">>,
                                   actor |-> <<"RISK_ACCEPTOR", "MODEL">>,
                                   expires_at |-> <<3, 2, 1, 0>>, now |-> <<1, 2>>],
     security_acceptance |-> [critical_findings |-> <<0, 1>>, high_unaccepted |-> <<0, 1>>,
                              control1 |-> <<"PASS", "FAIL">>, control2 |-> <<"PASS", "ABSENT">>],
     production_readiness |-> [gate1 |-> <<"PASS", "FAIL">>, gate2 |-> <<"PASS", "ABSENT">>]]

P22Severity(k, x) ==
    CASE k = "availability_bps" -> 10000 - P22_availability_bps(x)
      [] k = "latency_compliant" -> Closed(P22_latency_compliant(x))
      [] k = "burn_rate" -> P22_burn_rate(x)
      [] k = "alert_decision" ->
             CASE P22_alert_decision(x) = "NONE" -> 0 [] P22_alert_decision(x) = "TICKET" -> 1 [] OTHER -> 2
      [] k = "release_decision" -> Severity(P22_release_decision(x))
      [] k = "restore_decision" -> Severity(P22_restore_decision(x))
      [] k = "risk_acceptance_decision" -> Closed(P22_risk_acceptance_decision(x) # "DENY")
      [] k = "security_acceptance" -> Severity(P22_security_acceptance(x))
      [] k = "production_readiness" -> Severity(P22_production_readiness(x))

\*** P23 public experience

P23_claim_decision(x) ==
    Judge(x.evidence_status \in {"UNSUPPORTED", "REJECTED"} \/ x.public_use \in {"NOT_YET", "FORBIDDEN"},
          /\ x.public_use \in {"CONDITIONAL", "ALLOWED_WITH_SCOPE", "ALLOWED_AS_DESIGN_OBJECTIVE"}
          /\ ~x.limitations_present)

P23_publication_decision(x) == Judge(Given(x.gate1, x.gate2) # {"PASS"}, ~x.human_authority)

P23_analytics_decision(x) ==
    Judge(~x.event_allowed \/ x.contains_private_content \/ (x.purpose = "marketing" /\ x.consent # "GRANTED"),
          FALSE)

P23_experiment_decision(x) ==
    Judge(x.surface_forbidden \/ ~x.surface_allowed \/ ~x.sample_declared \/ ~x.stopping_rule_declared,
          ~x.human_authority)

P23_marketing_scale_decision(x) ==
    Judge(~x.conversion_validated \/ ~x.contribution_positive \/ ~x.budget_within_limit, ~x.human_authority)

P23_accessibility_release(x) ==
    Judge(x.critical_defects > 0 \/ ~x.keyboard_complete \/ ~x.semantics_verified, ~x.human_authority)

P23_performance_release(x) ==
    Judge(x.lcp_ms > x.lcp_budget \/ x.cls > x.cls_budget \/ x.inp_ms > x.inp_budget, FALSE)

P23_pricing_presentation(x) ==
    Judge(x.server_amount # x.displayed_amount \/ x.server_currency # x.displayed_currency, FALSE)

P23Kernels ==
    [claim_decision |-> [evidence_status |-> <<"SUPPORTED", "UNSUPPORTED", "UNLISTED">>,
                         public_use |-> <<"ALLOWED", "CONDITIONAL", "FORBIDDEN", "UNLISTED">>,
                         limitations_present |-> Holds],
     publication_decision |-> [gate1 |-> <<"PASS", "FAIL", "ABSENT">>, gate2 |-> <<"PASS", "FAIL", "ABSENT">>,
                               human_authority |-> Holds],
     analytics_decision |-> [event_allowed |-> Holds, contains_private_content |-> Absent,
                             purpose |-> <<"product", "marketing", "UNLISTED">>,
                             consent |-> <<"GRANTED", "UNKNOWN", "DENIED">>],
     experiment_decision |-> [surface_forbidden |-> Absent, surface_allowed |-> Holds, sample_declared |-> Holds,
                              stopping_rule_declared |-> Holds, human_authority |-> Holds],
     marketing_scale_decision |-> [conversion_validated |-> Holds, contribution_positive |-> Holds,
                                   budget_within_limit |-> Holds, human_authority |-> Holds],
     accessibility_release |-> [critical_defects |-> <<0, 1>>, keyboard_complete |-> Holds,
                                semantics_verified |-> Holds, human_authority |-> Holds],
     performance_release |-> [lcp_ms |-> <<1, 2>>, lcp_budget |-> <<2, 1>>, cls |-> <<1, 2>>,
                              cls_budget |-> <<2, 1>>, inp_ms |-> <<1, 2>>, inp_budget |-> <<2, 1>>],
     pricing_presentation |-> [server_amount |-> <<1>>, displayed_amount |-> <<1, 2>>,
                               server_currency |-> <<"EUR">>, displayed_currency |-> <<"EUR", "USD">>]]

P23Severity(k, x) ==
    CASE k = "claim_decision" -> Severity(P23_claim_decision(x))
      [] k = "publication_decision" -> Severity(P23_publication_decision(x))
      [] k = "analytics_decision" -> Severity(P23_analytics_decision(x))
      [] k = "experiment_decision" -> Severity(P23_experiment_decision(x))
      [] k = "marketing_scale_decision" -> Severity(P23_marketing_scale_decision(x))
      [] k = "accessibility_release" -> Severity(P23_accessibility_release(x))
      [] k = "performance_release" -> Severity(P23_performance_release(x))
      [] k = "pricing_presentation" -> Severity(P23_pricing_presentation(x))

\*** P24 acceptance and launch

P24_exact_head_decision(x) ==
    IF ~x.head_matches THEN "DENY"
    ELSE IF ~x.artifact_digest_match THEN "QUARANTINE" ELSE IF x.ci_pass THEN "PASS" ELSE "DENY"

P24_journey_evidence_decision(x) ==
    IF ~x.environment_matches THEN "DENY"
    ELSE IF x.contains_private_payload THEN "QUARANTINE"
    ELSE IF x.completed /\ x.evidence_preserved THEN "PASS" ELSE "DENY"

P24_renewal_evidence_decision(x) ==
    Judge(\/ x.require_real_period /\ x.used_test_clock
          \/ ~AllOf(x, {"later_billing_period", "provider_delivered_event", "settled"}), FALSE)

LivePaymentFacts ==
    {"restricted_live_key", "live_product_and_price", "real_charge", "settled_invoice", "signed_live_webhook",
     "ledger_reconciled", "entitlement_matches", "cancellation_or_refund_verified"}

P24_controlled_live_payment_decision(x) == Judge(~AllOf(x, LivePaymentFacts), FALSE)

PaidCustomerFacts ==
    {"unrelated_external_tenant", "terms_accepted", "privacy_accepted", "settled_invoice",
     "signed_provider_events", "ledger_reconciled", "entitlement_matches"}

P24_independent_paid_customer_decision(x) ==
    Judge(\/ x.active_dispute \/ x.refunded \/ ~AllOf(x, PaidCustomerFacts)
          \/ x.workflows < x.minimum_workflows \/ x.days < x.minimum_days, FALSE)

\* approval.<authority>: what the last approval of that authority says.
P24_approval_set_decision(x) ==
    Judge(\E a \in {x.product, x.legal} : a # "current", FALSE)

Modes == <<"GENERAL_AVAILABILITY", "BOUNDED_PUBLIC_LAUNCH", "CONTROLLED_LIVE_PILOT", "NO_GO">>

\* pilot, public and ga stand for the three cumulative gate lists.
P24_launch_mode_decision(x) ==
    IF x.stop_conditions # {} \/ x.manifest_approval # "PASS" \/ ~x.pilot THEN "NO_GO"
    ELSE IF x.requested_mode = "CONTROLLED_LIVE_PILOT" \/ ~x.public THEN "CONTROLLED_LIVE_PILOT"
    ELSE IF x.requested_mode = "BOUNDED_PUBLIC_LAUNCH" \/ ~x.ga THEN "BOUNDED_PUBLIC_LAUNCH"
    ELSE "GENERAL_AVAILABILITY"

P24_cohort_expansion_decision(x) ==
    Judge(\/ x.requested <= x.current \/ (x.capped /\ x.requested > x.mode_cap)
          \/ ~x.slo_healthy \/ x.error_budget_frozen \/ x.fast_burn_alert
          \/ x.stop_conditions # {} \/ ~x.human_authority, FALSE)

P24_rollback_decision(x) ==
    IF ~x.stop_condition_active THEN "DENY"
    ELSE IF AllOf(x, {"rollback_artifact_verified", "billing_evidence_preserved", "audit_history_preserved",
                      "entitlements_reconciled"})
    THEN "PASS" ELSE "QUARANTINE"

P24Kernels ==
    [exact_head_decision |-> [head_matches |-> Holds, artifact_digest_match |-> Holds, ci_pass |-> Holds],
     journey_evidence_decision |-> [environment_matches |-> Holds, completed |-> Holds,
                                    evidence_preserved |-> Holds, contains_private_payload |-> Absent],
     renewal_evidence_decision |-> [later_billing_period |-> Holds, provider_delivered_event |-> Holds,
                                    settled |-> Holds, used_test_clock |-> Absent, require_real_period |-> Absent],
     controlled_live_payment_decision |-> LadderOf(LivePaymentFacts),
     independent_paid_customer_decision |->
         LadderWith([active_dispute |-> Absent, refunded |-> Absent, workflows |-> <<2, 1>>,
                     minimum_workflows |-> <<2>>, days |-> <<2, 1>>, minimum_days |-> <<2>>], PaidCustomerFacts),
     approval_set_decision |-> [product |-> <<"current", "old manifest", "expired", "missing">>,
                                legal |-> <<"current", "declined", "missing">>],
     launch_mode_decision |-> [requested_mode |-> <<Modes[1], Modes[2], Modes[3]>>,
                               pilot |-> Holds, public |-> Holds, ga |-> Holds,
                               stop_conditions |-> <<{}, {"incident"}>>, manifest_approval |-> <<"PASS", "DENY">>],
     cohort_expansion_decision |-> [current |-> <<1>>, requested |-> <<2, 3, 1>>, capped |-> Absent,
                                    mode_cap |-> <<3, 2>>, slo_healthy |-> Holds, error_budget_frozen |-> Absent,
                                    fast_burn_alert |-> Absent, stop_conditions |-> <<{}, {"incident"}>>,
                                    human_authority |-> Holds],
     rollback_decision |-> [stop_condition_active |-> Holds, rollback_artifact_verified |-> Holds,
                            billing_evidence_preserved |-> Holds, audit_history_preserved |-> Holds,
                            entitlements_reconciled |-> Holds]]

P24Severity(k, x) ==
    CASE k = "exact_head_decision" -> Severity(P24_exact_head_decision(x))
      [] k = "journey_evidence_decision" -> Severity(P24_journey_evidence_decision(x))
      [] k = "renewal_evidence_decision" -> Severity(P24_renewal_evidence_decision(x))
      [] k = "controlled_live_payment_decision" -> Severity(P24_controlled_live_payment_decision(x))
      [] k = "independent_paid_customer_decision" -> Severity(P24_independent_paid_customer_decision(x))
      [] k = "approval_set_decision" -> Severity(P24_approval_set_decision(x))
      [] k = "launch_mode_decision" -> CHOOSE i \in DOMAIN Modes : Modes[i] = P24_launch_mode_decision(x)
      [] k = "cohort_expansion_decision" -> Severity(P24_cohort_expansion_decision(x))
      [] k = "rollback_decision" -> Severity(P24_rollback_decision(x))
=============================================================================
