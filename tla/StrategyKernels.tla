--------------------------- MODULE StrategyKernels ---------------------------
(***************************************************************************)
(* Phases P13 to P16: the sovereign and macro strategy, trade and supply   *)
(* chain, energy transition, and innovation and IP workspaces.             *)
(***************************************************************************)
EXTENDS FoundationKernels

\* gates / required of the four workspaces: DENY outranks anything not PASS,
\* and a required gate nobody evaluated outranks both.
WorkspaceReadiness(x, blocking) ==
    LET values == {x.gate1, x.gate2}
    IN  IF "ABSENT" \in values THEN "NOT_READY"
        ELSE IF values \cap blocking # {} THEN "DENY"
        ELSE IF values = {"PASS"} THEN "READY" ELSE "REVIEW_REQUIRED"

\* An external action needs the human authority and every check, at once.
ExternalAction(x, checks) ==
    /\ x.actor = "HUMAN_EXTERNAL_ACTION_AUTHORITY" /\ x.readiness = "READY"
    /\ \A c \in checks : x[c]
    /\ ~x.kill_switch

ActionChecks ==
    {"approvals_current", "rights_active", "legal_review_current", "recipient_verified",
     "channel_verified", "audit_chain_valid"}

ActionLadder ==
    [actor |-> <<"HUMAN_EXTERNAL_ACTION_AUTHORITY", "MODEL">>, readiness |-> <<"READY", "REVIEW_REQUIRED">>,
     approvals_current |-> Holds, rights_active |-> Holds, legal_review_current |-> Holds,
     recipient_verified |-> Holds, channel_verified |-> Holds, audit_chain_valid |-> Holds,
     kill_switch |-> Absent]

ReadinessLadder ==
    [gate1 |-> <<"PASS", "STALE", "DENY", "ABSENT">>, gate2 |-> <<"PASS", "UNKNOWN", "DENY">>]

\* An outcome is reported only as observed, and only from the phase's list.
ObservedOutcome(x) == IF x.observed /\ x.listed THEN x.state ELSE "UNKNOWN"

OutcomeLadder == [observed |-> Holds, listed |-> Holds, state |-> <<"CLOSED">>]

\*** P13 sovereign and macro strategy

P13_indicator_current(x) ==
    IF x.withdrawn \/ ~x.rights_active THEN "DENY"
    ELSE IF ~x.vintage_current \/ x.value_class \in {"FORECAST", "SCENARIO", "TARGET", "UNKNOWN"}
    THEN "REVIEW_REQUIRED"
    ELSE IF x.value_class \in {"OBSERVED", "PROVISIONAL", "ESTIMATED", "REVISED", "BENCHMARK", "DERIVED"}
    THEN "PASS" ELSE "DENY"

P13_comparability_decision(x) ==
    Judge(~x.lineage, ~(x.unit /\ x.scale /\ x.currency /\ x.price_basis /\ x.frequency))

\* amount is -1 where it is not known, -2 where it is negative.
P13_public_finance_decision(x) ==
    Judge(~x.rights_active \/ x.state = "CANCELLED" \/ x.amount < -1,
          ~(x.state \in {"DISBURSED", "PAID"} /\ x.observed /\ x.amount # -1))

P13_strategy_readiness(x) == WorkspaceReadiness(x, {"DENY"})

P13_may_execute_external_action(x) ==
    ExternalAction(x, {"approvals", "rights", "document", "recipient", "channel", "audit"})

P13_normalize_outcome(x) == ObservedOutcome(x)

P13Kernels ==
    [indicator_current |-> [value_class |-> <<"OBSERVED", "FORECAST", "GUESS">>, vintage_current |-> Holds,
                            withdrawn |-> Absent, rights_active |-> Holds],
     comparability_decision |-> [unit |-> Holds, scale |-> Holds, currency |-> Holds,
                                 price_basis |-> Holds, frequency |-> Holds, lineage |-> Holds],
     public_finance_decision |-> [state |-> <<"PAID", "BUDGETED", "CANCELLED">>, amount |-> <<5, 0, -1, -2>>,
                                  observed |-> Holds, rights_active |-> Holds],
     strategy_readiness |-> ReadinessLadder,
     may_execute_external_action |-> [actor |-> <<"HUMAN_EXTERNAL_ACTION_AUTHORITY", "MODEL">>,
                                      readiness |-> <<"READY", "DENY">>, approvals |-> Holds, rights |-> Holds,
                                      document |-> Holds, recipient |-> Holds, channel |-> Holds,
                                      audit |-> Holds, kill_switch |-> Absent],
     normalize_outcome |-> OutcomeLadder]

P13Severity(k, x) ==
    CASE k = "indicator_current" -> Severity(P13_indicator_current(x))
      [] k = "comparability_decision" -> Severity(P13_comparability_decision(x))
      [] k = "public_finance_decision" -> Severity(P13_public_finance_decision(x))
      [] k = "strategy_readiness" -> Severity(P13_strategy_readiness(x))
      [] k = "may_execute_external_action" -> Closed(P13_may_execute_external_action(x))
      [] k = "normalize_outcome" -> Closed(P13_normalize_outcome(x) # "UNKNOWN")

\*** P14 trade and supply chain

P14_flow_observation_decision(x) ==
    IF ~x.rights_active THEN "DENY"
    ELSE IF x.missing \/ ~x.period_known \/ ~x.vintage_current \/ ~x.unit_known THEN "REVIEW_REQUIRED"
    ELSE IF x.value_class \in {"REPORTED_VALUE", "REPORTED_QUANTITY", "NET_WEIGHT", "GROSS_WEIGHT",
                               "UNIT_VALUE", "INDEX", "SHARE", "GROWTH_RATE"} THEN "PASS"
    ELSE IF x.value_class \in {"ESTIMATE", "UNKNOWN"} THEN "REVIEW_REQUIRED" ELSE "DENY"

P14_classification_decision(x) ==
    Judge(~x.source_code_present \/ ~x.taxonomy_version_present, x.ambiguous \/ ~x.mapping_observed)

P14_customs_measure_decision(x) ==
    Judge(x.state \in {"REPEALED", "EXPIRED", "WITHDRAWN"},
          ~(/\ x.jurisdiction_resolved /\ x.effective_date_current
            /\ x.observed /\ x.legal_review_current /\ x.state = "IN_FORCE"))

P14_route_event_decision(x) ==
    Judge(FALSE, \/ ~x.observed \/ ~x.status_current
                 \/ x.event_type = "PORT_CLOSURE" /\ ~x.closure_confirmed
                 \/ x.event_type = "RUMOUR")

\* value is -1 where there is none, -2 where it is negative.
P14_flow_value_valid(x) ==
    IF x.missing \/ x.suppressed \/ x.value = -1 THEN "UNKNOWN"
    ELSE IF x.value < 0 THEN "REVIEW_REQUIRED" ELSE "OBSERVED"

P14_supply_readiness(x) == WorkspaceReadiness(x, {"DENY"})

P14_may_execute_external_action(x) == ExternalAction(x, ActionChecks)

P14_normalize_supply_outcome(x) == ObservedOutcome(x)

P14Kernels ==
    [flow_observation_decision |-> [value_class |-> <<"INDEX", "ESTIMATE", "GUESS">>, period_known |-> Holds,
                                    vintage_current |-> Holds, unit_known |-> Holds, missing |-> Absent,
                                    rights_active |-> Holds],
     classification_decision |-> [source_code_present |-> Holds, taxonomy_version_present |-> Holds,
                                  mapping_observed |-> Holds, ambiguous |-> Absent],
     customs_measure_decision |-> [state |-> <<"IN_FORCE", "ADOPTED", "REPEALED">>,
                                   jurisdiction_resolved |-> Holds, effective_date_current |-> Holds,
                                   observed |-> Holds, legal_review_current |-> Holds],
     route_event_decision |-> [event_type |-> <<"BORDER_DELAY", "PORT_CLOSURE", "RUMOUR">>,
                               observed |-> Holds, status_current |-> Holds, closure_confirmed |-> Holds],
     flow_value_valid |-> [value |-> <<3, 0, -2, -1>>, missing |-> Absent, suppressed |-> Absent],
     supply_readiness |-> ReadinessLadder,
     may_execute_external_action |-> ActionLadder,
     normalize_supply_outcome |-> OutcomeLadder]

P14Severity(k, x) ==
    CASE k = "flow_observation_decision" -> Severity(P14_flow_observation_decision(x))
      [] k = "classification_decision" -> Severity(P14_classification_decision(x))
      [] k = "customs_measure_decision" -> Severity(P14_customs_measure_decision(x))
      [] k = "route_event_decision" -> Severity(P14_route_event_decision(x))
      [] k = "flow_value_valid" -> Closed(P14_flow_value_valid(x) = "OBSERVED")
      [] k = "supply_readiness" -> Severity(P14_supply_readiness(x))
      [] k = "may_execute_external_action" -> Closed(P14_may_execute_external_action(x))
      [] k = "normalize_supply_outcome" -> Closed(P14_normalize_supply_outcome(x) # "UNKNOWN")

\*** P15 energy and climate transition

P15_project_status_decision(x) ==
    IF ~x.rights_active \/ x.state \in {"CANCELLED", "SUSPENDED"} THEN "DENY"
    ELSE IF x.announced_only \/ ~x.evidence_current THEN "REVIEW_REQUIRED"
    ELSE IF x.state \in {"COMMISSIONING", "OPERATIONAL"} THEN "PASS"
    ELSE IF x.state \in {"ANNOUNCED", "DEVELOPMENT", "PERMITTING", "FINANCING", "PROCUREMENT",
                         "CONSTRUCTION"} THEN "REVIEW_REQUIRED" ELSE "DENY"

P15_capacity_decision(x) ==
    IF x.value < 0 \/ ~x.unit_known THEN "DENY"
    ELSE IF x.capacity_type \in {"OPERATIONAL_CAPACITY", "AVAILABLE_CAPACITY", "GENERATED_ENERGY",
                                 "CURTAILED_ENERGY"}
    THEN Judge(FALSE, ~(x.observed /\ x.period_known /\ x.grid_connected))
    ELSE IF x.capacity_type \in {"ANNOUNCED_NAMEPLATE", "PERMITTED_NAMEPLATE", "CONTRACTED_NAMEPLATE",
                                 "INSTALLED_NAMEPLATE", "CONNECTED_CAPACITY", "UNKNOWN"}
    THEN "REVIEW_REQUIRED" ELSE "DENY"

P15_grid_connection_decision(x) ==
    IF x.state \in {"REJECTED", "WITHDRAWN", "EXPIRED"} THEN "DENY"
    ELSE IF ~x.observed \/ ~x.current THEN "REVIEW_REQUIRED"
    ELSE IF x.state = "ENERGISED" THEN Judge(FALSE, ~x.energised)
    ELSE IF x.state \in {"APPLICATION_SUBMITTED", "QUEUE_ASSIGNED", "OFFER_ISSUED", "AGREEMENT_SIGNED",
                         "CONSTRUCTION_PENDING"} THEN "REVIEW_REQUIRED" ELSE "DENY"

P15_support_mechanism_decision(x) ==
    Judge(x.state \in {"EXPIRED", "REPEALED", "EXHAUSTED", "WITHDRAWN"},
          ~(/\ x.jurisdiction_resolved /\ x.effective_date_current
            /\ x.state = "AWARDED" /\ x.award_observed /\ x.legal_review_current))

P15_emissions_decision(x) ==
    IF x.value < 0 THEN "DENY"
    ELSE IF ~x.method_present \/ ~x.boundary_present \/ ~x.period_present THEN "REVIEW_REQUIRED"
    ELSE IF x.value_class \in {"MEASURED", "REPORTED"} /\ x.observed THEN "PASS"
    ELSE IF x.value_class \in {"CALCULATED", "ESTIMATED", "MODELLED", "EMISSION_FACTOR", "AVOIDED_ESTIMATE",
                               "OFFSET_QUANTITY", "TARGET", "UNKNOWN"} THEN "REVIEW_REQUIRED" ELSE "DENY"

P15_transition_readiness(x) == WorkspaceReadiness(x, {"DENY"})

P15_may_execute_external_action(x) == ExternalAction(x, ActionChecks)

P15_normalize_transition_outcome(x) == ObservedOutcome(x)

P15Kernels ==
    [project_status_decision |-> [state |-> <<"OPERATIONAL", "FINANCING", "CANCELLED", "UNLISTED">>,
                                  evidence_current |-> Holds, announced_only |-> Absent,
                                  rights_active |-> Holds],
     capacity_decision |-> [capacity_type |-> <<"GENERATED_ENERGY", "INSTALLED_NAMEPLATE", "GUESS">>,
                            value |-> <<1, 0, -1>>, unit_known |-> Holds, period_known |-> Holds,
                            observed |-> Holds, grid_connected |-> Holds],
     grid_connection_decision |-> [state |-> <<"ENERGISED", "OFFER_ISSUED", "REJECTED", "UNLISTED">>,
                                   observed |-> Holds, current |-> Holds, energised |-> Holds],
     support_mechanism_decision |-> [state |-> <<"AWARDED", "OPEN", "EXHAUSTED">>,
                                     jurisdiction_resolved |-> Holds, effective_date_current |-> Holds,
                                     award_observed |-> Holds, legal_review_current |-> Holds],
     emissions_decision |-> [value_class |-> <<"MEASURED", "ESTIMATED", "GUESS">>, value |-> <<1, 0, -1>>,
                             method_present |-> Holds, boundary_present |-> Holds, period_present |-> Holds,
                             observed |-> Holds],
     transition_readiness |-> ReadinessLadder,
     may_execute_external_action |-> ActionLadder,
     normalize_transition_outcome |-> OutcomeLadder]

P15Severity(k, x) ==
    CASE k = "project_status_decision" -> Severity(P15_project_status_decision(x))
      [] k = "capacity_decision" -> Severity(P15_capacity_decision(x))
      [] k = "grid_connection_decision" -> Severity(P15_grid_connection_decision(x))
      [] k = "support_mechanism_decision" -> Severity(P15_support_mechanism_decision(x))
      [] k = "emissions_decision" -> Severity(P15_emissions_decision(x))
      [] k = "transition_readiness" -> Severity(P15_transition_readiness(x))
      [] k = "may_execute_external_action" -> Closed(P15_may_execute_external_action(x))
      [] k = "normalize_transition_outcome" -> Closed(P15_normalize_transition_outcome(x) # "UNKNOWN")

\*** P16 innovation and intellectual property

P16_patent_status_decision(x) ==
    IF ~x.rights_active THEN "DENY"
    ELSE IF x.state \in {"PATENT_LAPSED", "PATENT_EXPIRED", "PATENT_REVOKED"}
    THEN IF x.observed /\ x.status_current THEN "DENY" ELSE "REVIEW_REQUIRED"
    ELSE Judge(FALSE, \/ ~x.jurisdiction_resolved \/ ~x.status_current \/ ~x.observed
                      \/ x.state \notin {"APPLICATION_FILED", "APPLICATION_PUBLISHED", "SEARCH_REPORT_ISSUED",
                                         "EXAMINATION_PENDING", "PATENT_GRANTED", "OPPOSITION_PENDING",
                                         "PATENT_MAINTAINED"})

P16_grant_claim_decision(x) ==
    Judge(x.source_state # "PATENT_GRANTED",
          ~(x.grant_event_observed /\ x.jurisdiction_resolved /\ x.status_current))

P16_relationship_decision(x) ==
    Judge(~x.lawful_scope,
          \/ ~x.exact_entity \/ ~x.time_current
          \/ x.relationship_class \notin {"OBSERVED_APPLICANT", "OBSERVED_ASSIGNEE", "OBSERVED_INVENTOR",
                                          "OBSERVED_AUTHOR", "OBSERVED_AFFILIATION", "OBSERVED_FUNDER"})

P16_citation_decision(x) ==
    Judge(x.legal_conclusion_requested, ~x.citation_observed \/ ~x.source_current)

P16_research_output_decision(x) ==
    IF ~x.rights_active \/ x.withdrawn THEN "DENY"
    ELSE IF ~x.published THEN "REVIEW_REQUIRED"
    ELSE IF x.output_type = "PREPRINT" /\ x.peer_reviewed_claim THEN "DENY" ELSE "PASS"

P16_licence_signal_decision(x) ==
    Judge(x.state \in {"EXPIRED", "TERMINATED", "WITHDRAWN"},
          ~(x.state = "EXECUTED" /\ x.observed /\ x.terms_current /\ x.executed_evidence))

P16_innovation_readiness(x) == WorkspaceReadiness(x, {"DENY", "BLOCK"})

P16_may_execute_external_action(x) == ExternalAction(x, ActionChecks)

P16_normalize_innovation_outcome(x) == ObservedOutcome(x)

P16Kernels ==
    [patent_status_decision |-> [state |-> <<"PATENT_GRANTED", "RUMOURED", "PATENT_REVOKED">>,
                                 jurisdiction_resolved |-> Holds, status_current |-> Holds,
                                 observed |-> Holds, rights_active |-> Holds],
     grant_claim_decision |-> [source_state |-> <<"PATENT_GRANTED", "APPLICATION_FILED">>,
                               grant_event_observed |-> Holds, jurisdiction_resolved |-> Holds,
                               status_current |-> Holds],
     relationship_decision |-> [relationship_class |-> <<"OBSERVED_INVENTOR", "PROPOSED_INVENTOR">>,
                                exact_entity |-> Holds, time_current |-> Holds, lawful_scope |-> Holds],
     citation_decision |-> [citation_observed |-> Holds, source_current |-> Holds,
                            legal_conclusion_requested |-> Absent],
     research_output_decision |-> [output_type |-> <<"ARTICLE", "PREPRINT", "UNLISTED">>, published |-> Holds,
                                   withdrawn |-> Absent, rights_active |-> Holds,
                                   peer_reviewed_claim |-> Absent],
     licence_signal_decision |-> [state |-> <<"EXECUTED", "OFFERED", "TERMINATED">>, observed |-> Holds,
                                  terms_current |-> Holds, executed_evidence |-> Holds],
     innovation_readiness |-> [gate1 |-> <<"PASS", "STALE", "BLOCK", "ABSENT">>,
                               gate2 |-> <<"PASS", "UNKNOWN", "DENY">>],
     may_execute_external_action |-> ActionLadder,
     normalize_innovation_outcome |-> OutcomeLadder]

P16Severity(k, x) ==
    CASE k = "patent_status_decision" -> Severity(P16_patent_status_decision(x))
      [] k = "grant_claim_decision" -> Severity(P16_grant_claim_decision(x))
      [] k = "relationship_decision" -> Severity(P16_relationship_decision(x))
      [] k = "citation_decision" -> Severity(P16_citation_decision(x))
      [] k = "research_output_decision" -> Severity(P16_research_output_decision(x))
      [] k = "licence_signal_decision" -> Severity(P16_licence_signal_decision(x))
      [] k = "innovation_readiness" -> Severity(P16_innovation_readiness(x))
      [] k = "may_execute_external_action" -> Closed(P16_may_execute_external_action(x))
      [] k = "normalize_innovation_outcome" -> Closed(P16_normalize_innovation_outcome(x) # "UNKNOWN")
=============================================================================
