------------------------------ MODULE BidKernels ------------------------------
(***************************************************************************)
(* Phases P08 to P12: the bid, grant, market-entry, infrastructure and     *)
(* corporate-account workspaces.                                           *)
(***************************************************************************)
EXTENDS FoundationKernels

\* The ladder of one named gate; "ABSENT" is a gate nobody evaluated.
GateLadder == <<"PASS", "UNKNOWN", "DENY", "ABSENT">>

\* The verdicts of the two gates of an instance, and whether both are there.
GatesOf(x) == Given(x.gate1, x.gate2)

GatesComplete(x) == "ABSENT" \notin {x.gate1, x.gate2}

\*** P08 procurement bid workspace

P08_notice_currentness(x) ==
    Judge(x.state \in {"WITHDRAWN", "CANCELLED", "SUPERSEDED"} \/ ~x.rights_active,
          x.amendment_pending \/ x.state # "CURRENT")

P08_deadline_decision(x) ==
    IF x.deadline = 0 \/ ~x.timezone_known \/ x.amendment_pending \/ ~x.aware THEN "REVIEW_REQUIRED"
    ELSE IF x.now < x.deadline THEN "PASS" ELSE "DENY"

P08_eligibility_decision(x) ==
    IF x.active_exclusion_ground THEN "FAIL"
    ELSE IF x.unknown_total > 0 THEN "REVIEW_REQUIRED"
    ELSE IF x.satisfied_total = x.mandatory_total THEN "PASS" ELSE "FAIL"

P08_lot_selection_decision(x) ==
    IF x.selected # {} /\ x.selected \subseteq x.available /\ ~ x.exclusive_pair \subseteq x.selected
    THEN "PASS" ELSE "DENY"

P08_requirement_coverage(x) ==
    IF x.mandatory \cap x.contradicted # {} THEN "DENY"
    ELSE IF x.mandatory \cap x.unknown # {} THEN "REVIEW_REQUIRED"
    ELSE IF x.mandatory \subseteq x.covered THEN "PASS" ELSE "NOT_READY"

P08_readiness_decision(x) ==
    IF GatesOf(x) = {} THEN "DENY"
    ELSE ReadinessOf(GatesOf(x), {"REVIEW_REQUIRED", "INDETERMINATE"})

P08_commercial_validation(x) ==
    IF /\ x.amount_known /\ x.currency_known /\ x.tax_known
       /\ x.conversion_required => x.rate_ref_present
    THEN "PASS" ELSE "DENY"

P08_may_submit(x) ==
    /\ x.actor = "HUMAN_SUBMISSION_AUTHORITY" /\ x.readiness = "READY"
    /\ x.approvals_current /\ x.notice_current /\ x.deadline_valid /\ x.channel_verified

P08_normalize_award(x) ==
    IF x.observed /\ x.state \in {"AWARD_OBSERVED", "CONTRACT_OBSERVED", "CLOSED"}
    THEN x.state ELSE "UNKNOWN"

P08Kernels ==
    [notice_currentness |-> [state |-> <<"CURRENT", "AMENDED", "WITHDRAWN">>,
                             amendment_pending |-> Absent, rights_active |-> Holds],
     deadline_decision |-> [deadline |-> <<3, 2, 1, 0>>, now |-> <<1, 2>>, timezone_known |-> Holds,
                            amendment_pending |-> Absent, aware |-> Holds],
     eligibility_decision |-> [mandatory_total |-> <<2>>, satisfied_total |-> <<2, 1>>,
                               unknown_total |-> <<0, 1>>, active_exclusion_ground |-> Absent],
     lot_selection_decision |-> [selected |-> <<{"a"}, {"a", "b"}, {"a", "b", "c"}, {}>>,
                                 available |-> <<{"a", "b", "c"}, {"a", "b"}, {}>>,
                                 exclusive_pair |-> <<{"b", "c"}, {"a", "b"}>>],
     requirement_coverage |-> [mandatory |-> <<{"r1"}, {"r1", "r2"}>>,
                               covered |-> <<{"r1", "r2"}, {"r1"}, {}>>,
                               contradicted |-> <<{}, {"r2"}, {"r1", "r2"}>>,
                               unknown |-> <<{}, {"r1"}>>],
     readiness_decision |-> [gate1 |-> <<"PASS", "REVIEW_REQUIRED", "DENY", "ABSENT">>,
                             gate2 |-> <<"PASS", "INDETERMINATE", "DENY", "ABSENT">>],
     commercial_validation |-> [amount_known |-> Holds, currency_known |-> Holds, tax_known |-> Holds,
                                conversion_required |-> Absent, rate_ref_present |-> Holds],
     may_submit |-> [actor |-> <<"HUMAN_SUBMISSION_AUTHORITY", "MODEL">>,
                     readiness |-> <<"READY", "REVIEW_REQUIRED", "DENY">>, approvals_current |-> Holds,
                     notice_current |-> Holds, deadline_valid |-> Holds, channel_verified |-> Holds],
     normalize_award |-> [observed |-> Holds, state |-> <<"CLOSED", "RUMOURED">>]]

P08Severity(k, x) ==
    CASE k = "notice_currentness" -> Severity(P08_notice_currentness(x))
      [] k = "deadline_decision" -> Severity(P08_deadline_decision(x))
      [] k = "eligibility_decision" -> Severity(P08_eligibility_decision(x))
      [] k = "lot_selection_decision" -> Severity(P08_lot_selection_decision(x))
      [] k = "requirement_coverage" -> Severity(P08_requirement_coverage(x))
      [] k = "readiness_decision" -> Severity(P08_readiness_decision(x))
      [] k = "commercial_validation" -> Severity(P08_commercial_validation(x))
      [] k = "may_submit" -> Closed(P08_may_submit(x))
      [] k = "normalize_award" -> Closed(P08_normalize_award(x) # "UNKNOWN")

\*** P09 grants application workspace

P09_call_current(x) ==
    x.state \in {"OPEN", "AMENDED"} /\ ~x.withdrawn /\ x.amendment_reconciled /\ x.source_active

P09_deadline_open(x) ==
    x.timezone_known /\ x.calendar_known /\ x.aware /\ x.now < x.deadline

P09_eligibility_decision(x) ==
    LET states == Given(x.criterion1, x.criterion2)
    IN  IF x.exclusions # {} \/ "FAIL" \in states THEN "DENY"
        ELSE IF states \cap {"UNKNOWN", "PENDING_EVIDENCE", "CONTESTED"} # {} THEN "REVIEW_REQUIRED"
        ELSE IF states # {} /\ states \subseteq {"PASS", "NOT_APPLICABLE"} THEN "PASS" ELSE "NOT_READY"

\* maximum_partners is 0 where the call sets no maximum.
P09_consortium_decision(x) ==
    Judge(\/ ~ x.required_roles \subseteq x.assigned_roles
          \/ x.partner_count < x.minimum_partners
          \/ x.maximum_partners # 0 /\ x.partner_count > x.maximum_partners
          \/ ~x.jurisdictions_satisfied,
          ~x.independence_known)

\* maximum_rate is in per cent of the eligible cost.
P09_validate_funding_request(x) ==
    Judge(\/ \E v \in {x.eligible_cost, x.requested_grant, x.maximum_rate, x.call_ceiling} : v < 0
          \/ x.requested_grant > x.eligible_cost
          \/ x.requested_grant > x.call_ceiling
          \/ x.eligible_cost # 0 /\ 100 * x.requested_grant > x.maximum_rate * x.eligible_cost,
          ~x.cofinancing_confirmed)

P09_application_readiness(x) ==
    IF ~GatesComplete(x) THEN "NOT_READY"
    ELSE ReadinessOf(GatesOf(x), {"UNKNOWN", "INDETERMINATE", "CONTESTED"})

P09_may_submit_application(x) ==
    /\ x.actor = "HUMAN_SUBMISSION_AUTHORITY" /\ x.readiness = "READY"
    /\ x.approvals_required \subseteq x.approvals_present
    /\ x.rights_permit /\ x.call_current /\ x.channel_verified
    /\ ~x.kill_switch /\ x.audit_chain_valid

P09_normalize_award(x) ==
    IF x.observed /\ x.state \in {"REJECTED", "RESERVE_LIST", "AWARDED", "AGREEMENT_PENDING",
                                  "AGREEMENT_SIGNED", "PAYMENT_PENDING", "PAID", "TERMINATED"}
    THEN x.state ELSE "UNKNOWN"

P09_imported_authority(x) ==
    IF x.hashes_valid /\ x.schema_known /\ x.rights_permit THEN "CANDIDATE_ONLY" ELSE "QUARANTINE"

P09Kernels ==
    [call_current |-> [state |-> <<"OPEN", "AMENDED", "CLOSED">>, withdrawn |-> Absent,
                       amendment_reconciled |-> Holds, source_active |-> Holds],
     deadline_open |-> [now |-> <<1, 2, 3>>, deadline |-> <<3, 2, 1>>, timezone_known |-> Holds,
                        calendar_known |-> Holds, aware |-> Holds],
     eligibility_decision |-> [criterion1 |-> <<"PASS", "UNKNOWN", "FAIL", "ABSENT">>,
                               criterion2 |-> <<"NOT_APPLICABLE", "CONTESTED", "FAIL", "ABSENT">>,
                               exclusions |-> <<{}, {"bankruptcy"}>>],
     consortium_decision |-> [required_roles |-> <<{"lead"}, {"lead", "sme"}>>,
                              assigned_roles |-> <<{"lead", "sme"}, {"lead"}, {}>>,
                              partner_count |-> <<2>>, minimum_partners |-> <<1, 2, 3>>,
                              maximum_partners |-> <<0, 3, 2, 1>>,
                              jurisdictions_satisfied |-> Holds, independence_known |-> Holds],
     validate_funding_request |-> [eligible_cost |-> <<4, 3, 2>>, requested_grant |-> <<1, 2, 3, 4, 5>>,
                                   maximum_rate |-> <<100, 50, -1>>, call_ceiling |-> <<5, 3, -1>>,
                                   cofinancing_confirmed |-> Holds],
     application_readiness |-> [gate1 |-> GateLadder, gate2 |-> GateLadder],
     may_submit_application |-> [actor |-> <<"HUMAN_SUBMISSION_AUTHORITY", "MODEL">>,
                                 readiness |-> <<"READY", "NOT_READY">>,
                                 approvals_present |-> <<{"legal"}, {}>>, approvals_required |-> <<{"legal"}>>,
                                 rights_permit |-> Holds, call_current |-> Holds, channel_verified |-> Holds,
                                 kill_switch |-> Absent, audit_chain_valid |-> Holds],
     normalize_award |-> [observed |-> Holds, state |-> <<"PAID", "EXPECTED">>],
     imported_authority |-> [hashes_valid |-> Holds, schema_known |-> Holds, rights_permit |-> Holds]]

P09Severity(k, x) ==
    CASE k = "call_current" -> Closed(P09_call_current(x))
      [] k = "deadline_open" -> Closed(P09_deadline_open(x))
      [] k = "eligibility_decision" -> Severity(P09_eligibility_decision(x))
      [] k = "consortium_decision" -> Severity(P09_consortium_decision(x))
      [] k = "validate_funding_request" -> Severity(P09_validate_funding_request(x))
      [] k = "application_readiness" -> Severity(P09_application_readiness(x))
      [] k = "may_submit_application" -> Closed(P09_may_submit_application(x))
      [] k = "normalize_award" -> Closed(P09_normalize_award(x) # "UNKNOWN")
      [] k = "imported_authority" -> Severity(P09_imported_authority(x))

\*** P10 regulatory market-entry workspace

P10_instrument_current(x) ==
    /\ x.legal_status \in {"PUBLISHED", "EFFECTIVE", "APPLICABLE"}
    /\ ~x.repealed /\ x.amendment_reconciled /\ x.source_active

\* Instants are 0 where the date is not known.
P10_legal_effect_decision(x) ==
    IF ~x.binding_authority_verified THEN "REVIEW_REQUIRED"
    ELSE IF ~x.adopted \/ ~x.published THEN "NOT_BINDING"
    ELSE IF x.effective_at = 0 \/ x.applicable_at = 0 \/ ~x.aware THEN "REVIEW_REQUIRED"
    ELSE IF x.now < x.effective_at THEN "NOT_YET_EFFECTIVE"
    ELSE IF x.now < x.applicable_at THEN "TRANSITION" ELSE "APPLICABLE"

P10_applicability_decision(x) ==
    LET states == Given(x.criterion1, x.criterion2)
    IN  IF x.hierarchy_conflict THEN "REVIEW_REQUIRED"
        ELSE IF "FAIL" \in states THEN "DOES_NOT_APPLY"
        ELSE IF states \cap {"UNKNOWN", "PENDING_EVIDENCE", "CONTESTED"} # {} THEN "REVIEW_REQUIRED"
        ELSE IF x.verified_exemption THEN "EXEMPT"
        ELSE IF states # {} /\ states \subseteq {"PASS", "NOT_APPLICABLE"} THEN "APPLIES" ELSE "NOT_READY"

P10_control_coverage_decision(x) ==
    IF ~GatesComplete(x) THEN "NOT_READY"
    ELSE IF GatesOf(x) \cap {"INEFFECTIVE", "DENY"} # {} THEN "DENY"
    ELSE IF GatesOf(x) \cap {"UNKNOWN", "NOT_MAPPED", "PROPOSED", "CONTESTED"} # {} THEN "REVIEW_REQUIRED"
    ELSE IF GatesOf(x) \subseteq {"IMPLEMENTED", "TESTED", "EFFECTIVE"} THEN "PASS" ELSE "NOT_READY"

P10_market_entry_readiness(x) ==
    IF ~GatesComplete(x) THEN "NOT_READY"
    ELSE ReadinessOf(GatesOf(x), {"UNKNOWN", "INDETERMINATE", "CONTESTED", "STALE"})

P10_may_file_regulatory_action(x) ==
    /\ x.actor = "HUMAN_FILING_AUTHORITY" /\ x.readiness = "READY"
    /\ x.approvals_required \subseteq x.approvals_present
    /\ x.instrument_current /\ x.rights_permit /\ x.recipient_authority_verified
    /\ x.channel_verified /\ ~x.kill_switch /\ x.audit_chain_valid

P10_normalize_enforcement_outcome(x) ==
    IF x.observed /\ x.state \in {"AUTHORISED", "CONDITIONALLY_AUTHORISED", "REJECTED", "INSPECTION_OPEN",
                                  "NON_COMPLIANCE_FOUND", "SANCTIONED", "REMEDIATED", "CLOSED"}
    THEN x.state ELSE "UNKNOWN"

P10_imported_authority(x) == P09_imported_authority(x)

P10Kernels ==
    [instrument_current |-> [legal_status |-> <<"APPLICABLE", "EFFECTIVE", "DRAFT">>, repealed |-> Absent,
                             amendment_reconciled |-> Holds, source_active |-> Holds],
     legal_effect_decision |-> [binding_authority_verified |-> Holds, adopted |-> Holds,
                                published |-> Holds, effective_at |-> <<1, 3, 0>>,
                                applicable_at |-> <<2, 3, 0>>, now |-> <<2>>, aware |-> Holds],
     applicability_decision |-> [criterion1 |-> <<"PASS", "UNKNOWN", "FAIL", "ABSENT">>,
                                 criterion2 |-> <<"NOT_APPLICABLE", "CONTESTED", "FAIL", "ABSENT">>,
                                 hierarchy_conflict |-> Absent, verified_exemption |-> Absent],
     control_coverage_decision |-> [gate1 |-> <<"EFFECTIVE", "TESTED", "PROPOSED", "INEFFECTIVE">>,
                                    gate2 |-> <<"IMPLEMENTED", "NOT_MAPPED", "DENY">>],
     market_entry_readiness |-> [gate1 |-> GateLadder, gate2 |-> <<"PASS", "STALE", "DENY">>],
     may_file_regulatory_action |-> [actor |-> <<"HUMAN_FILING_AUTHORITY", "MODEL">>,
                                     readiness |-> <<"READY", "DENY">>, approvals_present |-> <<{"legal"}, {}>>,
                                     approvals_required |-> <<{"legal"}>>, instrument_current |-> Holds,
                                     rights_permit |-> Holds, recipient_authority_verified |-> Holds,
                                     channel_verified |-> Holds, kill_switch |-> Absent,
                                     audit_chain_valid |-> Holds],
     normalize_enforcement_outcome |-> [observed |-> Holds, state |-> <<"AUTHORISED", "EXPECTED">>],
     imported_authority |-> [hashes_valid |-> Holds, schema_known |-> Holds, rights_permit |-> Holds]]

P10Severity(k, x) ==
    CASE k = "instrument_current" -> Closed(P10_instrument_current(x))
      [] k = "legal_effect_decision" -> Closed(P10_legal_effect_decision(x) = "APPLICABLE")
      [] k = "applicability_decision" -> Closed(P10_applicability_decision(x) = "APPLIES")
      [] k = "control_coverage_decision" -> Severity(P10_control_coverage_decision(x))
      [] k = "market_entry_readiness" -> Severity(P10_market_entry_readiness(x))
      [] k = "may_file_regulatory_action" -> Closed(P10_may_file_regulatory_action(x))
      [] k = "normalize_enforcement_outcome" -> Closed(P10_normalize_enforcement_outcome(x) # "UNKNOWN")
      [] k = "imported_authority" -> Severity(P10_imported_authority(x))

\*** P11 infrastructure pursuit workspace

P11_project_current(x) ==
    Judge(x.withdrawn \/ x.status \in {"CANCELLED", "SUSPENDED", "CLOSED"},
          ~x.version_current \/ x.status \in {"UNKNOWN", "CONTESTED"})

P11_stage_evidence_decision(states) ==
    Judge(states \cap {"SUPERSEDED", "WITHDRAWN"} # {}, states # {"VERIFIED"})

P11_financing_decision(x) ==
    LET committed == x.committed_debt + x.committed_equity + x.grant_support
    IN  Judge(\/ x.project_cost <= 0 \/ \E v \in {x.committed_debt, x.committed_equity, x.grant_support} : v < 0
              \/ committed > x.project_cost
              \/ x.state = "WITHDRAWN",
              ~(x.state \in {"COMMITTED", "FINANCIAL_CLOSE"} /\ x.observed_evidence))

P11_permit_land_decision(states) ==
    Judge(states \cap {"REJECTED", "EXPIRED_OR_REVOKED"} # {},
          states = {} \/ ~ states \subseteq {"GRANTED", "SECURED"})

P11_project_readiness(x) ==
    IF ~GatesComplete(x) THEN "NOT_READY"
    ELSE IF GatesOf(x) \cap {"DENY", "BLOCK"} # {} THEN "DENY"
    ELSE ReadinessOf(GatesOf(x), {"UNKNOWN", "INDETERMINATE", "CONTESTED", "STALE", "REVIEW_REQUIRED"})

P11_may_execute_external_action(x) ==
    /\ x.actor = "HUMAN_EXTERNAL_ACTION_AUTHORITY" /\ x.readiness = "READY"
    /\ x.approvals_current /\ x.rights_active /\ x.project_is_current
    /\ x.channel_verified /\ x.audit_chain_valid /\ ~x.kill_switch

P11_normalize_project_outcome(x) ==
    IF x.observed /\ x.state \in {"ANNOUNCED", "APPROVED", "FINANCED", "FINANCIAL_CLOSE", "TENDER_PUBLISHED",
                                  "CONTRACT_AWARDED", "CONTRACT_SIGNED", "CONSTRUCTION_STARTED",
                                  "OPERATIONAL", "SUSPENDED", "CANCELLED", "COMPLETED"}
    THEN x.state ELSE "UNKNOWN"

P11Kernels ==
    [project_current |-> [status |-> <<"ACTIVE", "UNKNOWN", "CANCELLED", "UNLISTED">>, version_current |-> Holds,
                          withdrawn |-> Absent],
     stage_evidence_decision |-> [first |-> <<"VERIFIED", "EVIDENCED", "SUPERSEDED", "ABSENT">>,
                                  second |-> <<"VERIFIED", "CONTESTED", "WITHDRAWN", "ABSENT">>],
     financing_decision |-> [project_cost |-> <<3, 2, 0>>, committed_debt |-> <<1, 2, -1>>,
                             committed_equity |-> <<1, 2>>, grant_support |-> <<0, 1>>,
                             state |-> <<"FINANCIAL_CLOSE", "PROPOSED", "WITHDRAWN">>,
                             observed_evidence |-> Holds],
     permit_land_decision |-> [first |-> <<"GRANTED", "APPLIED", "REJECTED", "ABSENT">>,
                               second |-> <<"SECURED", "REQUIRED", "EXPIRED_OR_REVOKED", "ABSENT">>],
     project_readiness |-> [gate1 |-> GateLadder, gate2 |-> <<"PASS", "STALE", "BLOCK">>],
     may_execute_external_action |-> [actor |-> <<"HUMAN_EXTERNAL_ACTION_AUTHORITY", "MODEL">>,
                                      readiness |-> <<"READY", "DENY">>, approvals_current |-> Holds,
                                      rights_active |-> Holds, project_is_current |-> Holds,
                                      channel_verified |-> Holds, audit_chain_valid |-> Holds,
                                      kill_switch |-> Absent],
     normalize_project_outcome |-> [observed |-> Holds, state |-> <<"COMPLETED", "EXPECTED">>]]

P11Severity(k, x) ==
    CASE k = "project_current" -> Severity(P11_project_current(x))
      [] k = "stage_evidence_decision" -> Severity(P11_stage_evidence_decision(Given(x.first, x.second)))
      [] k = "financing_decision" -> Severity(P11_financing_decision(x))
      [] k = "permit_land_decision" -> Severity(P11_permit_land_decision(Given(x.first, x.second)))
      [] k = "project_readiness" -> Severity(P11_project_readiness(x))
      [] k = "may_execute_external_action" -> Closed(P11_may_execute_external_action(x))
      [] k = "normalize_project_outcome" -> Closed(P11_normalize_project_outcome(x) # "UNKNOWN")

\*** P12 corporate ownership and account workspace

\* [mutant] a superseded filing is sent to review before its status is looked at.
P12FilingSupersededFirst(x) ==
    Judge(~x.superseded /\ (x.withdrawn \/ x.status \in {"WITHDRAWN", "REVOKED", "REJECTED"}),
          x.superseded \/ ~x.version_current \/ x.status \notin {"PUBLISHED", "ACCEPTED", "CURRENT"})

P12_filing_current(x) ==
    Judge(x.withdrawn \/ x.status \in {"WITHDRAWN", "REVOKED", "REJECTED"},
          x.superseded \/ ~x.version_current \/ x.status \notin {"PUBLISHED", "ACCEPTED", "CURRENT"})

\* percentage is -1 where it is not known, -2 where it is negative.
P12_ownership_decision(x) ==
    IF ~x.rights_active \/ (x.beneficial_owner /\ ~x.beneficial_owner_authorised) THEN "DENY"
    ELSE IF x.contested \/ ~x.observed \/ ~x.chain_complete \/ x.percentage = -1 THEN "REVIEW_REQUIRED"
    ELSE IF x.percentage \notin 0..100 THEN "DENY" ELSE "PASS"

P12_control_decision(x) ==
    Judge(FALSE, \/ x.contested \/ ~x.observed
                 \/ x.basis \notin {"VOTING_MAJORITY", "AGREEMENT", "BOARD_APPOINTMENT_RIGHT",
                                    "REGISTRY_DECLARATION"})

P12_personal_data_decision(x) ==
    Judge(~(x.rights_active /\ x.purpose_bound /\ x.legal_basis_recorded /\ x.minimised), FALSE)

P12_corporate_action_decision(x) ==
    Judge(x.state \in {"CANCELLED", "TERMINATED", "REJECTED"},
          ~(x.state = "COMPLETED" /\ x.observed_evidence /\ x.required_approvals_observed))

P12_account_readiness(x) ==
    IF ~GatesComplete(x) THEN "NOT_READY"
    ELSE IF "DENY" \in GatesOf(x) THEN "DENY"
    ELSE IF GatesOf(x) # {"PASS"} THEN "REVIEW_REQUIRED" ELSE "READY"

P12_may_execute_external_action(x) ==
    /\ x.actor = "HUMAN_EXTERNAL_ACTION_AUTHORITY" /\ x.readiness = "READY"
    /\ x.approvals_current /\ x.rights_active /\ x.privacy_cleared /\ x.recipient_verified
    /\ x.channel_verified /\ x.audit_chain_valid /\ ~x.kill_switch

P12_normalize_account_outcome(x) ==
    IF x.observed /\ x.state \in {"NO_ACTION", "MONITORING_CONTINUES", "CONTACTED", "MEETING_HELD",
                                  "QUALIFIED_INTEREST", "OPPORTUNITY_OPENED", "DUE_DILIGENCE_STARTED",
                                  "NON_BINDING_INDICATION_SUBMITTED", "TRANSACTION_SIGNED",
                                  "TRANSACTION_COMPLETED", "DECLINED", "LOST_OR_CLOSED"}
    THEN x.state ELSE "UNKNOWN"

P12Kernels ==
    [filing_current |-> [status |-> <<"CURRENT", "PENDING", "REVOKED">>, version_current |-> Holds,
                         withdrawn |-> Absent, superseded |-> Absent],
     ownership_decision |-> [rights_active |-> Holds, beneficial_owner |-> Absent,
                             beneficial_owner_authorised |-> Holds, contested |-> Absent,
                             observed |-> Holds, chain_complete |-> Holds,
                             percentage |-> <<100, 0, -1, 101, -2>>],
     control_decision |-> [basis |-> <<"AGREEMENT", "OWNERSHIP_ONLY", "UNKNOWN">>, observed |-> Holds,
                           contested |-> Absent],
     personal_data_decision |-> [purpose_bound |-> Holds, legal_basis_recorded |-> Holds,
                                 minimised |-> Holds, rights_active |-> Holds],
     corporate_action_decision |-> [state |-> <<"COMPLETED", "ANNOUNCED", "CANCELLED">>,
                                    observed_evidence |-> Holds, required_approvals_observed |-> Holds],
     account_readiness |-> [gate1 |-> GateLadder, gate2 |-> <<"PASS", "STALE", "DENY">>],
     may_execute_external_action |-> [actor |-> <<"HUMAN_EXTERNAL_ACTION_AUTHORITY", "MODEL">>,
                                      readiness |-> <<"READY", "DENY">>, approvals_current |-> Holds,
                                      rights_active |-> Holds, privacy_cleared |-> Holds,
                                      recipient_verified |-> Holds, channel_verified |-> Holds,
                                      audit_chain_valid |-> Holds, kill_switch |-> Absent],
     normalize_account_outcome |-> [observed |-> Holds, state |-> <<"CONTACTED", "EXPECTED">>]]

P12Severity(k, x) ==
    CASE k = "filing_current" -> Severity(P12_filing_current(x))
      [] k = "ownership_decision" -> Severity(P12_ownership_decision(x))
      [] k = "control_decision" -> Severity(P12_control_decision(x))
      [] k = "personal_data_decision" -> Severity(P12_personal_data_decision(x))
      [] k = "corporate_action_decision" -> Severity(P12_corporate_action_decision(x))
      [] k = "account_readiness" -> Severity(P12_account_readiness(x))
      [] k = "may_execute_external_action" -> Closed(P12_may_execute_external_action(x))
      [] k = "normalize_account_outcome" -> Closed(P12_normalize_account_outcome(x) # "UNKNOWN")
=============================================================================
