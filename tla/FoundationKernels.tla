-------------------------- MODULE FoundationKernels --------------------------
(***************************************************************************)
(* The vocabulary shared by the decision kernels of the product's phases   *)
(* (scripts/p05..p24_*_reference.py), and the kernels of phases P05 to     *)
(* P07: value states, rights and authority; document intelligence;         *)
(* opportunity operations.                                                 *)
(*                                                                         *)
(* A kernel is a pure function from a record of observed facts to a        *)
(* verdict: one operator per kernel function, with the facts it reads in   *)
(* record x.  Every fact is given a ladder: the values it may take, from   *)
(* the best evidence to the worst.  What is unknown ranks above what       *)
(* denies; what nobody looked at, and a value outside the kernel's own     *)
(* vocabulary ("ABSENT", "UNLISTED", an instant 0), ranks last.  What is   *)
(* asked for (a limit, a clock, a required list) is fixed or gets tighter. *)
(***************************************************************************)
EXTENDS Integers, Sequences, FiniteSetsExt

\* Ladders of a boolean fact: one that should hold, one that should not.
Holds == <<TRUE, FALSE>>
Absent == <<FALSE, TRUE>>

\* The values that are there, of those of two entries of a list or mapping.
Given(x, y) == {x, y} \ {"ABSENT"}

\* The two shapes most verdicts have: a reason to deny outranks a reason to
\* review, and only the absence of both passes.
Judge(deny, review) ==
    IF deny THEN "DENY" ELSE IF review THEN "REVIEW_REQUIRED" ELSE "PASS"

\* The kernel's ValueError: no verdict is returned at all.
Raised == "RAISED"

Favourable ==
    {"PASS", "READY", "ALLOW", "QUALIFIED", "CANDIDATE", "CANDIDATE_ONLY", "RESOLVED"}

Undecided ==
    {"REVIEW_REQUIRED", "NOT_READY", "INDETERMINATE", "UNKNOWN", "UNRESOLVED"}

\* 0: the kernel lets the case go on; 1: it holds it for someone; 2: it stops it.
Severity(verdict) ==
    IF verdict \in Favourable THEN 0 ELSE IF verdict \in Undecided THEN 1 ELSE 2

\* The severity of a kernel that answers with a Boolean.
Closed(granted) == IF granted THEN 0 ELSE 2

\* Readiness over named gates, as most workspaces compute it: gates is the set
\* of the gates' verdicts, complete says that the gate set is the required one.
ReadinessOf(verdicts, open) ==
    IF "DENY" \in verdicts THEN "DENY"
    ELSE IF verdicts \cap open # {} THEN "REVIEW_REQUIRED"
    ELSE IF verdicts = {"PASS"} THEN "READY" ELSE "NOT_READY"

-----------------------------------------------------------------------------

NONE == "None"

\*** P05 foundation

P05Rank ==
    [REVOKED |-> 0, SUPERSEDED |-> 1, CONTESTED |-> 2, CANDIDATE |-> 3, REVIEWED |-> 4, ADMITTED |-> 5]

P05Ladder == <<"ADMITTED", "REVIEWED", "CANDIDATE", "CONTESTED", "SUPERSEDED", "REVOKED", "ABSENT">>

P05_preserve_value_state(x) ==
    IF \/ x.state \notin {"KNOWN", "UNKNOWN", "UNAVAILABLE", "NOT_APPLICABLE", "ZERO"}
       \/ x.state = "ZERO" /\ x.value # 0
       \/ x.state \notin {"KNOWN", "ZERO"} /\ x.value # -1
    THEN Raised ELSE "PASS"

\* Instants are 0 where an end of the interval is open.
P05_resolve_interval(x) ==
    IF x.valid_from = 0 /\ x.valid_to = 0 THEN "UNKNOWN"
    ELSE IF \/ x.valid_from # 0 /\ x.at < x.valid_from
            \/ x.valid_to # 0 /\ x.at >= x.valid_to
    THEN "DENY" ELSE "PASS"

P05_convert_money(x) ==
    IF ~x.rate_known \/ ~x.rate_at_known \/ x.rate <= 0 THEN Raised ELSE "PASS"

P05_evaluate_rights(x) ==
    IF x.kill_switch \/ x.state # "ALLOW" THEN "DENY" ELSE "ALLOW"

P05_resolve_document_anchor(x) ==
    /\ x.document_version # "" /\ x.anchor_version # ""
    /\ x.document_version = x.anchor_version

\* min(states, key=rank): the weakest authority among the inputs.
P05_least_authority(states) ==
    IF states = {} THEN Raised ELSE CHOOSE s \in states : \A t \in states : P05Rank[s] <= P05Rank[t]

P05_may_write_canonical(x) ==
    x.human_approved /\ x.actor \in {"HUMAN_DATA_AUTHORITY", "INDEPENDENT_ADMISSION_RUNTIME"}

P05_classify_entity_match(x) ==
    IF x.identifier_match \/ x.score >= 95 THEN "CANDIDATE" ELSE "UNRESOLVED"

P05_mapping_cardinality(x) ==
    IF x.sources < 1 \/ x.targets < 1 THEN Raised
    ELSE <<IF x.sources = 1 THEN "ONE" ELSE "MANY", IF x.targets = 1 THEN "ONE" ELSE "MANY">>

\* ZERO is a case of its own: it requires the value that UNKNOWN forbids.
P05Kernels ==
    [preserve_value_state |-> [state |-> <<"KNOWN", "UNKNOWN", "GUESSED">>, value |-> <<-1, 7>>],
     preserve_zero |-> [state |-> <<"ZERO">>, value |-> <<0, 7>>],
     resolve_interval |-> [valid_from |-> <<1, 2, 3, 0>>, valid_to |-> <<3, 2, 1, 0>>, at |-> <<2>>],
     convert_money |-> [rate_known |-> Holds, rate_at_known |-> Holds, rate |-> <<2, 1, 0, -1>>],
     evaluate_rights |-> [state |-> <<"ALLOW", "REVIEW", "DENY">>, kill_switch |-> Absent],
     resolve_document_anchor |-> [document_version |-> <<"v2", "">>, anchor_version |-> <<"v2", "v1", "">>],
     least_authority |-> [source |-> P05Ladder, derived |-> P05Ladder],
     may_write_canonical |-> [human_approved |-> Holds,
                              actor |-> <<"HUMAN_DATA_AUTHORITY", "INDEPENDENT_ADMISSION_RUNTIME", "MODEL">>],
     classify_entity_match |-> [identifier_match |-> Holds, score |-> <<100, 95, 94, 0>>],
     mapping_cardinality |-> [sources |-> <<2, 1, 0>>, targets |-> <<2, 1, 0>>]]

P05Severity(k, x) ==
    CASE k \in {"preserve_value_state", "preserve_zero"} -> Severity(P05_preserve_value_state(x))
      [] k = "resolve_interval" -> Severity(P05_resolve_interval(x))
      [] k = "convert_money" -> Severity(P05_convert_money(x))
      [] k = "evaluate_rights" -> Severity(P05_evaluate_rights(x))
      [] k = "resolve_document_anchor" -> Closed(P05_resolve_document_anchor(x))
      [] k = "least_authority" ->
             LET least == P05_least_authority(Given(x.source, x.derived))
             IN  IF least = Raised THEN 6 ELSE 5 - P05Rank[least]
      [] k = "may_write_canonical" -> Closed(P05_may_write_canonical(x))
      [] k = "classify_entity_match" -> Severity(P05_classify_entity_match(x))
      [] k = "mapping_cardinality" -> Closed(P05_mapping_cardinality(x) # Raised)

\*** P06 document intelligence

P06Rank ==
    [REVOKED |-> 0, SUPERSEDED |-> 1, RAW_REFERENCE |-> 2, EXTRACTED_CANDIDATE |-> 3,
     TRANSLATION_CANDIDATE |-> 4, SEMANTIC_CANDIDATE |-> 5, HUMAN_REVIEWED |-> 6, ADMITTED |-> 7]

P06Ladder ==
    <<"ADMITTED", "HUMAN_REVIEWED", "SEMANTIC_CANDIDATE", "TRANSLATION_CANDIDATE",
      "EXTRACTED_CANDIDATE", "RAW_REFERENCE", "SUPERSEDED", "REVOKED", "ABSENT">>

P06_ocr_confidence_decision(x) ==
    IF x.confidence < 0 \/ x.confidence > 100 THEN Raised
    ELSE IF x.confidence < 75 THEN "QUARANTINE"
    ELSE IF x.confidence < 90 THEN "REVIEW_REQUIRED" ELSE "CANDIDATE"

P06_validate_anchor(x) ==
    IF x.version_matches /\ x.digest_matches /\ x.geometry_valid /\ x.quote_digest_valid
    THEN "RESOLVED" ELSE "INVALID"

\* The loop runs over a Python set, so the dimension it meets first is not
\* determined: the verdict is that of any dimension that is not a match.
P06_semantic_parity_decision(x) ==
    LET Of(r) == CASE r = "MISMATCH" -> "DENY" [] r = "UNKNOWN" -> "REVIEW_REQUIRED"
                   [] OTHER -> "INDETERMINATE"
        open == {x.amounts, x.negation} \ {"MATCH", "NOT_APPLICABLE"}
    IN  IF ~x.all_dimensions THEN {"INDETERMINATE"}
        ELSE IF open = {} THEN {"PASS"} ELSE {Of(r) : r \in open}

P06_least_document_authority(states) ==
    IF states = {} THEN Raised ELSE CHOOSE s \in states : \A t \in states : P06Rank[s] <= P06Rank[t]

P06_may_write_document_canonical(x) ==
    x.human_approved /\ x.actor = "INDEPENDENT_ADMISSION_RUNTIME"

\* value is -1 where no value is carried.
P06_preserve_unknown(x) ==
    IF \/ x.state \notin {"KNOWN", "UNKNOWN", "UNAVAILABLE", "NOT_APPLICABLE"}
       \/ x.state # "KNOWN" /\ x.value # -1
    THEN Raised ELSE "PASS"

P06Kernels ==
    [ocr_confidence_decision |-> [confidence |-> <<100, 90, 89, 75, 74, 0>>],
     validate_anchor |-> [version_matches |-> Holds, digest_matches |-> Holds,
                          geometry_valid |-> Holds, quote_digest_valid |-> Holds],
     semantic_parity_decision |-> [all_dimensions |-> Holds,
                                   amounts |-> <<"MATCH", "NOT_APPLICABLE", "UNKNOWN", "MISMATCH">>,
                                   negation |-> <<"MATCH", "NOT_APPLICABLE", "UNKNOWN", "MISMATCH">>],
     least_document_authority |-> [source |-> P06Ladder, derived |-> P06Ladder],
     may_write_document_canonical |-> [human_approved |-> Holds,
                                       actor |-> <<"INDEPENDENT_ADMISSION_RUNTIME", "MODEL">>],
     preserve_unknown |-> [state |-> <<"KNOWN", "UNKNOWN", "GUESSED">>, value |-> <<-1, 7>>]]

P06Severity(k, x) ==
    CASE k = "ocr_confidence_decision" -> Severity(P06_ocr_confidence_decision(x))
      [] k = "validate_anchor" -> Severity(P06_validate_anchor(x))
      [] k = "semantic_parity_decision" -> Min({Severity(v) : v \in P06_semantic_parity_decision(x)})
      [] k = "least_document_authority" ->
             LET least == P06_least_document_authority(Given(x.source, x.derived))
             IN  IF least = Raised THEN 8 ELSE 7 - P06Rank[least]
      [] k = "may_write_document_canonical" -> Closed(P06_may_write_document_canonical(x))
      [] k = "preserve_unknown" -> Severity(P06_preserve_unknown(x))

\*** P07 opportunity operations

P07_qualification_decision(x) ==
    IF x.disqualifier_present THEN "REJECTED"
    ELSE IF ~x.required_context_complete \/ ~x.evidence_current THEN "REVIEW_REQUIRED"
    ELSE "QUALIFIED"

P07_work_readiness(states) ==
    IF states # {} /\ states \subseteq {"SATISFIED", "WAIVED_BY_HUMAN"} THEN "READY" ELSE "BLOCKED"

P07_approval_valid(x) ==
    /\ x.state = "APPROVED"
    /\ x.requester_ref # "" /\ x.approver_ref # "" /\ x.requester_ref # x.approver_ref
    /\ x.subject_version_matches /\ x.rights_active /\ x.document_current

P07_may_execute_external_action(x) ==
    /\ x.actor \in {"HUMAN_SUBMISSION_AUTHORITY", "HUMAN_ACTIVATION_AUTHORITY"}
    /\ x.required \subseteq x.granted
    /\ x.rights_active /\ x.document_current /\ x.audit_chain_valid

P07_normalize_outcome(x) ==
    IF ~x.observed \/ x.state = NONE THEN "UNKNOWN"
    ELSE IF x.state \notin {"WON", "LOST", "NO_BID", "WITHDRAWN", "EXPIRED", "REALIZED",
                            "NOT_REALIZED", "UNKNOWN"} THEN Raised
    ELSE x.state

P07_learning_state(x) ==
    IF x.actor = "HUMAN_LEARNING_AUTHORITY" /\ x.human_reviewed THEN "REVIEWED" ELSE "PROPOSED"

P07_import_authority(x) ==
    IF x.hash_valid /\ x.schema_known THEN "CANDIDATE_ONLY" ELSE "QUARANTINE"

P07Kernels ==
    [qualification_decision |-> [required_context_complete |-> Holds, disqualifier_present |-> Absent,
                                 evidence_current |-> Holds],
     work_readiness |-> [first |-> <<"SATISFIED", "WAIVED_BY_HUMAN", "PENDING", "ABSENT">>,
                         second |-> <<"WAIVED_BY_HUMAN", "FAILED", "ABSENT">>],
     approval_valid |-> [state |-> <<"APPROVED", "EXPIRED">>, requester_ref |-> <<"ana", "">>,
                         approver_ref |-> <<"ben", "ana", "">>, subject_version_matches |-> Holds,
                         rights_active |-> Holds, document_current |-> Holds],
     may_execute_external_action |-> [actor |-> <<"HUMAN_SUBMISSION_AUTHORITY", "HUMAN_REVIEWER", "MODEL">>,
                                      required |-> <<{"legal"}, {"legal", "finance"}>>,
                                      granted |-> <<{"legal", "finance"}, {"legal"}, {}>>,
                                      rights_active |-> Holds, document_current |-> Holds,
                                      audit_chain_valid |-> Holds],
     normalize_outcome |-> [observed |-> Holds, state |-> <<"WON", "NO_BID", NONE, "UNLISTED">>],
     learning_state |-> [actor |-> <<"HUMAN_LEARNING_AUTHORITY", "MODEL">>, human_reviewed |-> Holds],
     import_authority |-> [hash_valid |-> Holds, schema_known |-> Holds]]

P07Severity(k, x) ==
    CASE k = "qualification_decision" -> Severity(P07_qualification_decision(x))
      [] k = "work_readiness" -> Severity(P07_work_readiness(Given(x.first, x.second)))
      [] k = "approval_valid" -> Closed(P07_approval_valid(x))
      [] k = "may_execute_external_action" -> Closed(P07_may_execute_external_action(x))
      [] k = "normalize_outcome" -> Closed(P07_normalize_outcome(x) \notin {"UNKNOWN", Raised})
      [] k = "learning_state" -> Closed(P07_learning_state(x) = "REVIEWED")
      [] k = "import_authority" -> Severity(P07_import_authority(x))
=============================================================================
