------------------------- MODULE IntelligenceKernels -------------------------
(***************************************************************************)
(* Phases P17 to P20: cross-library projection, intent intelligence and    *)
(* tides, scenario calibration, and the enterprise boundary.               *)
(***************************************************************************)
EXTENDS FoundationKernels, SequencesExt

\* The first of a sequence of named checks that does not hold, or "ALLOW":
\* the kernels walk their checks in order and deny with that reason.
FirstFailing(x, checks) ==
    LET failing == {i \in DOMAIN checks : ~x[checks[i]]}
    IN  IF failing = {} THEN "ALLOW" ELSE checks[Min(failing)]

\*** P17 cross-library intelligence

P17Ladder ==
    <<"INDEPENDENT_CANONICAL_ADMISSION_RUNTIME", "HUMAN_EXTERNAL_ACTION_AUTHORITY", "TYPED_HUMAN_APPROVAL",
      "HUMAN_REVIEW_ONLY", "TENANT_SCOPED_OPERATION", "BOUNDED_WORK_MUTATION", "PROPOSAL_ONLY",
      "CANDIDATE_ONLY", "REQUEST_ONLY", "RESTRICTED", "SELF_DECLARED">>

\* The rank table, strongest first in P17Ladder; an authority outside it ranks last.
P17RankOf(a) == 10 - CHOOSE i \in DOMAIN P17Ladder : P17Ladder[i] = a

P17_compose_authority(authorities) ==
    IF authorities = {} \/ "SELF_DECLARED" \in authorities THEN "RESTRICTED"
    ELSE CHOOSE a \in authorities : \A b \in authorities : P17RankOf(a) <= P17RankOf(b)

P17_dependency_projection_decision(x) ==
    IF x.kill_switch \/ ~x.rights_active THEN "DENY"
    ELSE IF x.product_admitted /\ x.canonical_activation_authorised THEN "PASS"
    ELSE IF x.engineering_evidence_ready THEN "REVIEW_REQUIRED" ELSE "NOT_AVAILABLE"

P17_entity_bridge_decision(x) ==
    Judge(~x.tenant_match, ~(x.exact_identifier /\ x.jurisdiction_compatible /\ x.human_review_current))

P17_temporal_alignment_decision(x) ==
    Judge(x.axes_collapsed \/ ~x.vintage_preserved \/ ~x.revision_lineage_preserved,
          ~(x.valid_time_present /\ x.transaction_time_present /\ x.timezone_resolved))

P17_surface_projection_decision(x) ==
    Judge(\/ x.surface \notin {"GLOBE", "GRAPH", "TIMELINE", "NAVIGATOR"}
          \/ x.source_authority = "SELF_DECLARED"
          \/ ~(x.rights_active /\ x.tenant_match /\ x.contradiction_preserved /\ x.traceable), FALSE)

P17_cross_library_readiness(x) ==
    LET values == {x.gate1, x.gate2}
    IN  IF "ABSENT" \in values THEN "NOT_READY"
        ELSE IF values \cap {"DENY", "BLOCK"} # {} THEN "DENY"
        ELSE IF values = {"PASS"} THEN "READY" ELSE "REVIEW_REQUIRED"

P17_may_publish_workspace_projection(x) ==
    /\ x.readiness = "READY" /\ x.tenant_match /\ x.rights_active /\ x.traceable
    /\ x.authority_state \in {"CANDIDATE_ONLY", "PROPOSAL_ONLY"}

P17_may_execute_external_action(x) ==
    /\ x.actor = "HUMAN_EXTERNAL_ACTION_AUTHORITY"
    /\ x.approvals_current /\ x.rights_active /\ x.legal_review_current
    /\ x.recipient_verified /\ x.channel_verified /\ x.audit_chain_valid /\ ~x.kill_switch

P17_normalize_cross_library_outcome(x) == IF x.observed /\ x.listed THEN x.state ELSE "UNKNOWN"

P17Kernels ==
    [compose_authority |-> [first |-> Append(P17Ladder, "ABSENT"), second |-> Append(P17Ladder, "ABSENT")],
     dependency_projection_decision |-> [engineering_evidence_ready |-> Holds, product_admitted |-> Holds,
                                         canonical_activation_authorised |-> Holds, rights_active |-> Holds,
                                         kill_switch |-> Absent],
     entity_bridge_decision |-> [exact_identifier |-> Holds, tenant_match |-> Holds,
                                 jurisdiction_compatible |-> Holds, human_review_current |-> Holds],
     temporal_alignment_decision |-> [valid_time_present |-> Holds, transaction_time_present |-> Holds,
                                      timezone_resolved |-> Holds, vintage_preserved |-> Holds,
                                      revision_lineage_preserved |-> Holds, axes_collapsed |-> Absent],
     surface_projection_decision |-> [surface |-> <<"GLOBE", "EXPORT">>,
                                      source_authority |-> <<"PROPOSAL_ONLY", "SELF_DECLARED">>,
                                      rights_active |-> Holds, tenant_match |-> Holds,
                                      contradiction_preserved |-> Holds, traceable |-> Holds],
     cross_library_readiness |-> [gate1 |-> <<"PASS", "STALE", "BLOCK", "ABSENT">>,
                                  gate2 |-> <<"PASS", "UNKNOWN", "DENY">>],
     may_publish_workspace_projection |-> [readiness |-> <<"READY", "DENY">>, tenant_match |-> Holds,
                                           rights_active |-> Holds, traceable |-> Holds,
                                           authority_state |-> <<"PROPOSAL_ONLY", "CANDIDATE_ONLY", "RESTRICTED">>],
     may_execute_external_action |-> [actor |-> <<"HUMAN_EXTERNAL_ACTION_AUTHORITY", "MODEL">>,
                                      approvals_current |-> Holds, rights_active |-> Holds,
                                      legal_review_current |-> Holds, recipient_verified |-> Holds,
                                      channel_verified |-> Holds, audit_chain_valid |-> Holds,
                                      kill_switch |-> Absent],
     normalize_cross_library_outcome |-> [observed |-> Holds, listed |-> Holds, state |-> <<"CLOSED">>]]

P17Severity(k, x) ==
    CASE k = "compose_authority" -> 9 - P17RankOf(P17_compose_authority(Given(x.first, x.second)))
      [] k = "dependency_projection_decision" -> Severity(P17_dependency_projection_decision(x))
      [] k = "entity_bridge_decision" -> Severity(P17_entity_bridge_decision(x))
      [] k = "temporal_alignment_decision" -> Severity(P17_temporal_alignment_decision(x))
      [] k = "surface_projection_decision" -> Severity(P17_surface_projection_decision(x))
      [] k = "cross_library_readiness" -> Severity(P17_cross_library_readiness(x))
      [] k = "may_publish_workspace_projection" -> Closed(P17_may_publish_workspace_projection(x))
      [] k = "may_execute_external_action" -> Closed(P17_may_execute_external_action(x))
      [] k = "normalize_cross_library_outcome" -> Closed(P17_normalize_cross_library_outcome(x) # "UNKNOWN")

\*** P18 intent intelligence and knowledge tides (shares in per cent)

P18_event_eligibility(x) ==
    IF x.deleted \/ x.bot_or_internal \/ x.direct_identifier THEN "DENY"
    ELSE IF x.aggregate_tides THEN IF x.private_memory THEN "ALLOW_BOTH" ELSE "ALLOW_AGGREGATE"
    ELSE IF x.private_memory THEN "ALLOW_PRIVATE" ELSE "DENY"

P18_purpose_decision(x) == IF x.implied \/ x.revoked \/ ~x.permission THEN "DENY" ELSE "ALLOW"

P18_preference_decision(x) ==
    IF x.deleted THEN "DELETE"
    ELSE IF ~x.memory_enabled THEN "DENY"
    ELSE IF x.user_confirmed THEN "CONFIRMED_PREFERENCE"
    ELSE IF x.repetitions >= 3 /\ x.distinct_days >= 2 THEN "INFERRED_PREFERENCE" ELSE "OBSERVED_INTEREST"

P18_cohort_privacy_decision(x) ==
    IF x.row_level_output THEN "DENY"
    ELSE IF \/ x.unique_users < 20 \/ x.unique_organisations < 5
            \/ x.dominant_organisation_share > 25 \/ x.active_days < 3
            \/ x.reidentification_risk # "LOW"
    THEN "PRIVACY_SUPPRESSED" ELSE "AGGREGATE_ALLOWED"

P18_tide_decision(x) ==
    IF ~x.privacy_allowed THEN "PRIVACY_SUPPRESSED"
    ELSE IF ~x.cohort_sufficient THEN "INSUFFICIENT_COHORT"
    ELSE IF x.manipulation_risk >= 70 THEN "COORDINATION_SUSPECTED"
    ELSE IF x.velocity > 20 THEN "ACCELERATING_ATTENTION"
    ELSE IF x.velocity < -15 THEN "DECLINING_ATTENTION"
    ELSE IF x.persistence >= 70 /\ x.share >= 10 THEN "PERSISTENT_ATTENTION"
    ELSE IF x.diversity >= 70 /\ x.share >= 15 THEN "BROAD_ATTENTION" ELSE "EMERGING_ATTENTION"

P18_manipulation_decision(x) ==
    IF \/ x.bot_or_internal_share > 0 \/ x.campaign_share > 50
       \/ x.dominant_organisation_share > 25 \/ x.burst_score > 80
    THEN "COORDINATION_SUSPECTED" ELSE "CLEAR"

P18_research_candidate_decision(x) ==
    IF x.tide_state \in {"PRIVACY_SUPPRESSED", "INSUFFICIENT_COHORT"} THEN "PRIVACY_SUPPRESSED"
    ELSE IF x.tide_state = "COORDINATION_SUSPECTED" THEN "MANIPULATION_SUSPECTED"
    ELSE IF x.rights_confidence < 70 THEN "RIGHTS_BLOCKED"
    ELSE IF x.source_feasibility < 50 THEN "INSUFFICIENT_VALUE"
    ELSE IF x.privacy_scope \notin {"GLOBAL_AGGREGATE", "TENANT_PRIVATE", "USER_PRIVATE", "INTERNAL_ONLY"}
    THEN "DENY"
    ELSE IF x.human_review_current THEN "PRIORITISATION_READY" ELSE "PROPOSED"

P18_retention_decision(x) ==
    IF x.deleted THEN "DELETE_AND_INVALIDATE"
    ELSE IF x.expired THEN "EXPIRE_AND_INVALIDATE"
    ELSE IF x.retention_class = "AUDIT" THEN IF x.raw_content THEN "DENY" ELSE "RETAIN_METADATA_ONLY"
    ELSE "RETAIN"

P18_readiness(x) ==
    IF x.gates_exact /\ x.gate1 = "PASS" /\ x.gate2 = "PASS" THEN "READY_FOR_HUMAN_REVIEW" ELSE "DENY"

P18Kernels ==
    [event_eligibility |-> [deleted |-> Absent, bot_or_internal |-> Absent, direct_identifier |-> Absent,
                            aggregate_tides |-> Holds, private_memory |-> Holds],
     purpose_decision |-> [implied |-> Absent, revoked |-> Absent, permission |-> Holds],
     preference_decision |-> [deleted |-> Absent, memory_enabled |-> Holds, user_confirmed |-> Holds,
                              repetitions |-> <<3, 2>>, distinct_days |-> <<2, 1>>],
     cohort_privacy_decision |-> [row_level_output |-> Absent, unique_users |-> <<20, 19>>,
                                  unique_organisations |-> <<5, 4>>,
                                  dominant_organisation_share |-> <<25, 26>>, active_days |-> <<3, 2>>,
                                  reidentification_risk |-> <<"LOW", "HIGH">>],
     tide_decision |-> [privacy_allowed |-> Holds, cohort_sufficient |-> Holds,
                        manipulation_risk |-> <<0, 69, 70>>, velocity |-> <<21, 20, -15, -16>>,
                        share |-> <<15, 10, 9>>, persistence |-> <<70, 69>>, diversity |-> <<70, 69>>],
     manipulation_decision |-> [bot_or_internal_share |-> <<0, 1>>, campaign_share |-> <<50, 51>>,
                                dominant_organisation_share |-> <<25, 26>>, burst_score |-> <<80, 81>>],
     research_candidate_decision |-> [tide_state |-> <<"BROAD_ATTENTION", "COORDINATION_SUSPECTED",
                                                       "INSUFFICIENT_COHORT">>,
                                      rights_confidence |-> <<70, 69>>, source_feasibility |-> <<50, 49>>,
                                      privacy_scope |-> <<"TENANT_PRIVATE", "PUBLIC">>,
                                      human_review_current |-> Holds],
     retention_decision |-> [deleted |-> Absent, expired |-> Absent,
                             retention_class |-> <<"STANDARD", "AUDIT", "UNLISTED">>, raw_content |-> Absent],
     readiness |-> [gates_exact |-> Holds, gate1 |-> <<"PASS", "UNKNOWN">>, gate2 |-> <<"PASS", "DENY">>]]

P18Severity(k, x) ==
    CASE k = "event_eligibility" -> Closed(P18_event_eligibility(x) # "DENY")
      [] k = "purpose_decision" -> Severity(P18_purpose_decision(x))
      [] k = "preference_decision" ->
             CASE P18_preference_decision(x) = "CONFIRMED_PREFERENCE" -> 0
               [] P18_preference_decision(x) = "INFERRED_PREFERENCE" -> 1
               [] P18_preference_decision(x) = "OBSERVED_INTEREST" -> 2
               [] OTHER -> 3
      [] k = "cohort_privacy_decision" -> Closed(P18_cohort_privacy_decision(x) = "AGGREGATE_ALLOWED")
      [] k = "tide_decision" ->
             Closed(P18_tide_decision(x) \notin {"PRIVACY_SUPPRESSED", "INSUFFICIENT_COHORT",
                                                 "COORDINATION_SUSPECTED"})
      [] k = "manipulation_decision" -> Closed(P18_manipulation_decision(x) = "CLEAR")
      [] k = "research_candidate_decision" ->
             Closed(P18_research_candidate_decision(x) = "PRIORITISATION_READY")
      [] k = "retention_decision" -> Closed(P18_retention_decision(x) \in {"RETAIN", "RETAIN_METADATA_ONLY"})
      [] k = "readiness" -> Closed(P18_readiness(x) = "READY_FOR_HUMAN_REVIEW")

\*** P19 scenarios, calibration and outcomes

P19_as_of_record_eligible(x) ==
    IF x.available_at > x.cutoff_at \/ (x.revised /\ x.revision_available_at > x.cutoff_at)
    THEN "DENY" ELSE "ALLOW"

\* probability in per cent; the Brier score is ordered by the distance to the outcome.
P19_binary_scores(x) ==
    IF x.probability \notin 0..100 \/ x.outcome \notin {0, 1} THEN 10001
    ELSE (x.probability - 100 * x.outcome) * (x.probability - 100 * x.outcome)

P19_reconcile_outcome(x) ==
    IF x.contested \/ x.censored THEN "REVIEW_REQUIRED"
    ELSE IF x.state \in {"PENDING", "UNOBSERVABLE"} THEN "DENY"
    ELSE IF x.state = "PARTIAL" \/ ~x.evidence_complete THEN "REVIEW_REQUIRED"
    ELSE IF x.state \in {"REALISED_TRUE", "REALISED_FALSE"} THEN "ALLOW" ELSE "DENY"

P19_calibration_decision(x) ==
    IF x.leakage_detected THEN "DEMOTE"
    ELSE IF x.sample_count < x.minimum_sample_count THEN "REVIEW_REQUIRED"
    ELSE IF x.brier_score > x.maximum_brier_score \/ x.ece > x.maximum_ece THEN "DEGRADED" ELSE "PASS"

P19_demotion_decision(x) ==
    IF x.hard_triggers # {} THEN "DEMOTED"
    ELSE IF x.current_status \in {"DEMOTED", "QUARANTINED", "RETIRED", "BLOCKED"} THEN x.current_status
    ELSE IF x.breaches >= 2 THEN "DEMOTED"
    ELSE IF x.breaches = 1 THEN "DEGRADED" ELSE x.current_status

P19_may_promote_model(x) ==
    IF /\ x.actor = "TYPED_HUMAN_APPROVAL"
       /\ x.current_status \in {"DEMOTED", "QUARANTINED", "DEGRADED"}
       /\ x.new_frozen_holdout_passed /\ Given(x.gate1, x.gate2) \subseteq {"PASS"}
    THEN "ALLOW" ELSE "DENY"

P19StatusRank == [ACTIVE |-> 0, DEGRADED |-> 1, DEMOTED |-> 2, QUARANTINED |-> 3, BLOCKED |-> 4, RETIRED |-> 5]

P19Kernels ==
    [as_of_record_eligible |-> [available_at |-> <<1, 2, 3>>, cutoff_at |-> <<2, 1>>, revised |-> Absent,
                                revision_available_at |-> <<1, 2, 3>>],
     binary_scores |-> [probability |-> <<100, 50, 1, 0, 101>>, outcome |-> <<1>>],
     reconcile_outcome |-> [state |-> <<"REALISED_TRUE", "PARTIAL", "PENDING">>, evidence_complete |-> Holds,
                            censored |-> Absent, contested |-> Absent],
     calibration_decision |-> [sample_count |-> <<30, 29>>, minimum_sample_count |-> <<30>>,
                               brier_score |-> <<20, 21>>, maximum_brier_score |-> <<20>>,
                               ece |-> <<5, 6>>, maximum_ece |-> <<5>>, leakage_detected |-> Absent],
     demotion_decision |-> [current_status |-> <<"ACTIVE", "DEGRADED", "DEMOTED", "QUARANTINED", "RETIRED">>,
                            hard_triggers |-> <<{}, {"LEAKAGE"}>>, breaches |-> <<0, 1, 2>>],
     may_promote_model |-> [actor |-> <<"TYPED_HUMAN_APPROVAL", "MODEL">>,
                            current_status |-> <<"DEGRADED", "DEMOTED", "RETIRED">>,
                            new_frozen_holdout_passed |-> Holds, gate1 |-> <<"PASS", "UNKNOWN", "ABSENT">>,
                            gate2 |-> <<"PASS", "DENY", "ABSENT">>]]

P19Severity(k, x) ==
    CASE k = "as_of_record_eligible" -> Severity(P19_as_of_record_eligible(x))
      [] k = "binary_scores" -> P19_binary_scores(x)
      [] k = "reconcile_outcome" -> Severity(P19_reconcile_outcome(x))
      [] k = "calibration_decision" -> Closed(P19_calibration_decision(x) = "PASS")
      [] k = "demotion_decision" -> P19StatusRank[P19_demotion_decision(x)]
      [] k = "may_promote_model" -> Severity(P19_may_promote_model(x))

\*** P20 enterprise API and private data

FederationChecks ==
    <<"domain_verified", "issuer_match", "signature_valid", "audience_valid", "nonce_valid",
      "assertion_fresh", "principal_active", "tenant_resolved_server_side">>

P20_federated_login_decision(x) == FirstFailing(x, FederationChecks)

P20_scim_mutation_decision(x) ==
    IF /\ x.client_active /\ x.target_tenant_match
       /\ x.privileged_role_requested => x.mapping_human_approved
       /\ x.operation = "DEPROVISION" => x.deprovision_revokes_sessions
       /\ x.operation \in {"CREATE", "UPDATE", "SUSPEND", "DEPROVISION"}
    THEN "ALLOW" ELSE "DENY"

P20_private_library_access_decision(x) ==
    IF x.request_tenant_id # x.resource_tenant_id \/ x.deletion_pending THEN "DENY"
    ELSE FirstFailing(x, <<"workspace_match", "classification_known", "rights_active", "purpose_allowed",
                           "residency_route_allowed">>)

P20_api_authorisation_decision(x) ==
    IF x.requested_scope \notin x.credential_scopes \/ x.required_capability \notin x.effective_capabilities
    THEN "DENY"
    ELSE FirstFailing(x, <<"credential_active", "principal_active", "resource_filter_match",
                           "tenant_resolved_server_side", "rights_pass">>)

P20_quota_reservation_decision(x) ==
    LET available == IF x.limit - x.used - x.reserved > 0 THEN x.limit - x.used - x.reserved ELSE 0
    IN  IF x.limit < 0 \/ x.used < 0 \/ x.reserved < 0 \/ x.requested < 0 THEN "DENY"
        ELSE IF x.idempotency_reused THEN "REUSE_EXISTING_RESERVATION"
        ELSE IF x.requested > available THEN "DENY" ELSE "RESERVE"

P20_webhook_delivery_decision(x) ==
    IF \/ x.skew > x.maximum_skew \/ -x.skew > x.maximum_skew
       \/ x.nonce_replayed THEN "DENY"
    ELSE FirstFailing(x, <<"signature_valid", "subscription_active", "tenant_match", "event_allowed",
                           "idempotency_key_present">>)

P20_integration_activation_decision(x) ==
    IF x.source_admission_requested THEN "DENY"
    ELSE FirstFailing(x, <<"installation_tenant_match", "secret_reference_only", "endpoint_allowlisted",
                           "egress_policy_pass", "rights_pass", "human_approval_current">>)

SupportChecks ==
    <<"human_principal", "ticket_reference_present", "independent_approval", "minimal_scope", "short_expiry",
      "strong_authentication", "continuous_audit">>

P20_support_access_decision(x) == FirstFailing(x, SupportChecks)

P20_may_promote_private_data(x) ==
    IF x.actor = "INDEPENDENT_CANONICAL_ADMISSION_RUNTIME" /\ x.independent_admission_passed
    THEN "ALLOW" ELSE "DENY"

\* A ladder for a sequence of checks that should all hold.
AllHold(checks) == [c \in ToSet(checks) |-> Holds]

P20Kernels ==
    [federated_login_decision |-> AllHold(FederationChecks),
     scim_mutation_decision |-> [operation |-> <<"CREATE", "DEPROVISION", "IMPERSONATE">>,
                                 client_active |-> Holds, target_tenant_match |-> Holds,
                                 mapping_human_approved |-> Holds, privileged_role_requested |-> Absent,
                                 deprovision_revokes_sessions |-> Holds],
     private_library_access_decision |-> [request_tenant_id |-> <<"a">>, resource_tenant_id |-> <<"a", "b">>,
                                          workspace_match |-> Holds, classification_known |-> Holds,
                                          rights_active |-> Holds, purpose_allowed |-> Holds,
                                          residency_route_allowed |-> Holds, deletion_pending |-> Absent],
     api_authorisation_decision |-> [credential_active |-> Holds, principal_active |-> Holds,
                                     requested_scope |-> <<"read", "write">>,
                                     credential_scopes |-> <<{"read", "write"}, {"read"}, {}>>,
                                     required_capability |-> <<"export">>,
                                     effective_capabilities |-> <<{"export"}, {}>>,
                                     resource_filter_match |-> Holds, tenant_resolved_server_side |-> Holds,
                                     rights_pass |-> Holds],
     quota_reservation_decision |-> [limit |-> <<3, 2, 0, -1>>, used |-> <<0, 1, 3>>, reserved |-> <<0, 1, 2>>,
                                     requested |-> <<0, 1, 2, 4>>, idempotency_reused |-> Absent],
     webhook_delivery_decision |-> [signature_valid |-> Holds, skew |-> <<0, -5, 5, 6, -6>>,
                                    maximum_skew |-> <<5>>, nonce_replayed |-> Absent,
                                    subscription_active |-> Holds, tenant_match |-> Holds,
                                    event_allowed |-> Holds, idempotency_key_present |-> Holds],
     integration_activation_decision |-> [installation_tenant_match |-> Holds, secret_reference_only |-> Holds,
                                          endpoint_allowlisted |-> Holds, egress_policy_pass |-> Holds,
                                          rights_pass |-> Holds, human_approval_current |-> Holds,
                                          source_admission_requested |-> Absent],
     support_access_decision |-> AllHold(SupportChecks),
     may_promote_private_data |-> [actor |-> <<"INDEPENDENT_CANONICAL_ADMISSION_RUNTIME", "MODEL">>,
                                   independent_admission_passed |-> Holds]]

P20Severity(k, x) ==
    CASE k = "federated_login_decision" -> Severity(P20_federated_login_decision(x))
      [] k = "scim_mutation_decision" -> Severity(P20_scim_mutation_decision(x))
      [] k = "private_library_access_decision" -> Severity(P20_private_library_access_decision(x))
      [] k = "api_authorisation_decision" -> Severity(P20_api_authorisation_decision(x))
      [] k = "quota_reservation_decision" -> Closed(P20_quota_reservation_decision(x) = "RESERVE")
      [] k = "webhook_delivery_decision" -> Severity(P20_webhook_delivery_decision(x))
      [] k = "integration_activation_decision" -> Severity(P20_integration_activation_decision(x))
      [] k = "support_access_decision" -> Severity(P20_support_access_decision(x))
      [] k = "may_promote_private_data" -> Severity(P20_may_promote_private_data(x))
=============================================================================
