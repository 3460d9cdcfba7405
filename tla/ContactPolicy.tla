---------------------------- MODULE ContactPolicy ---------------------------
(***************************************************************************)
(* The procurement domain objects and the O01 contact policy.  Objects are *)
(* frozen and keep no history: a revision is a new object, and the         *)
(* validators of its class are all that stands between a caller and any    *)
(* state.  A behaviour builds one object.  Absent fields are FALSE.        *)
(***************************************************************************)
EXTENDS Naturals, FiniteSets, Sequences

ChannelTypes ==
    {"PROCUREMENT_PLATFORM", "BUYER_PROFILE", "OFFICIAL_FORM", "FUNCTIONAL_EMAIL",
     "NAMED_PROFESSIONAL_EMAIL", "OFFICIAL_PHONE", "NAMED_PROFESSIONAL_PHONE", "SOURCE_LINK_ONLY"}

DataClasses ==
    {"INSTITUTIONAL", "FUNCTIONAL_NON_PERSONAL", "PROFESSIONAL_PERSONAL", "AMBIGUOUS_PERSONAL", "BLOCKED"}

PolicyDecisions == {"ALLOW", "CONTEXTUAL", "LINK_ONLY", "BLOCK"}

ClarificationStates ==
    {"DRAFT", "INTERNAL_REVIEW", "READY_FOR_USER_APPROVAL", "USER_APPROVED", "EXTERNAL_HANDOFF",
     "SENT_CONFIRMED", "ANSWER_RECEIVED", "ANSWER_APPLIED", "CLOSED", "CANCELLED"}

ExpectedScheme(type) ==
    IF type \in {"FUNCTIONAL_EMAIL", "NAMED_PROFESSIONAL_EMAIL"} THEN "mailto"
    ELSE IF type \in {"OFFICIAL_PHONE", "NAMED_PROFESSIONAL_PHONE"} THEN "tel"
    ELSE "https"

\* An endpoint is its scheme, "" when there is none.  The early returns leave the
\* status unchecked for blocked data and blocked decisions.
ValidateChannelPolicy(c) ==
    /\ ~c.reused   \* searchable_globally, exportable or marketing_use
    /\ IF c.data_class = "BLOCKED"
       THEN c.policy_decision = "BLOCK" /\ c.endpoint = "" /\ c.actions = {}
       ELSE /\ c.data_class = "AMBIGUOUS_PERSONAL" => c.policy_decision \in {"LINK_ONLY", "BLOCK"}
            /\ c.data_class = "PROFESSIONAL_PERSONAL" =>
                 /\ c.policy_decision = "CONTEXTUAL" /\ c.contact_name
                 /\ c.type \in {"NAMED_PROFESSIONAL_EMAIL", "NAMED_PROFESSIONAL_PHONE"}
            /\ IF c.policy_decision = "BLOCK"
               THEN c.endpoint = "" /\ c.actions = {}
               ELSE /\ c.endpoint = ExpectedScheme(c.type)
                    /\ c.policy_decision = "LINK_ONLY" => c.actions = {"OPEN"}
                    /\ c.status = "SUPERSEDED" => c.superseded_by

\* The O01 policy: for each data class its decision and its channel types.
O01Policy ==
    [INSTITUTIONAL |-> [decision |-> "ALLOW",
        permitted |-> {"PROCUREMENT_PLATFORM", "BUYER_PROFILE", "OFFICIAL_FORM"}],
     FUNCTIONAL_NON_PERSONAL |-> [decision |-> "ALLOW", permitted |-> {"FUNCTIONAL_EMAIL", "OFFICIAL_PHONE"}],
     PROFESSIONAL_PERSONAL |-> [decision |-> "CONTEXTUAL",
        permitted |-> {"NAMED_PROFESSIONAL_EMAIL", "NAMED_PROFESSIONAL_PHONE"}],
     AMBIGUOUS_PERSONAL |-> [decision |-> "LINK_ONLY", permitted |-> {"SOURCE_LINK_ONLY"}],
     BLOCKED |-> [decision |-> "BLOCK", permitted |-> {}]]

EvaluateO01ContactPolicy(c) == c.type \in O01Policy[c.data_class].permitted

ValidateO01ContactChannel(c) ==
    /\ EvaluateO01ContactPolicy(c)
    /\ c.policy_decision = O01Policy[c.data_class].decision
    /\ c.procedural /\ ~c.reused

\* ProcurementFact.validate_origin
ValidateOrigin(f) ==
    /\ f.origin \in {"SOURCE_FACT", "NORMALIZED_FACT", "TRANSLATED_FACT", "EXTRACTED_REQUIREMENT"} => f.provenance
    /\ f.origin \in {"AXIGNAL_INFERENCE", "AXIGNAL_RECOMMENDATION"} => f.supported

\* Opportunity.validate_bindings: o.channels are the opportunities of its channels.
ValidateBindings(o) ==
    /\ o.version_of = o.id /\ o.channels \subseteq {o.id}
    /\ Cardinality({o.facts[i] : i \in DOMAIN o.facts}) = Len(o.facts)

ValidateWorkspaceState(w) ==
    /\ w.version_of = w.opportunity
    /\ Cardinality({w.channels[i] : i \in DOMAIN w.channels}) = Len(w.channels)
    /\ w.state = "PRESENTED_EXTERNALLY" => w.confirmed_by /\ w.confirmed_at

SentStates == {"SENT_CONFIRMED", "ANSWER_RECEIVED", "ANSWER_APPLIED", "CLOSED"}

\* [mutant] closing a clarification no longer needs the record of its handoff.
ValidateHumanControlClosed(q) ==
    /\ q.state \in SentStates \cup {"EXTERNAL_HANDOFF", "USER_APPROVED"} => q.approved_by /\ q.approved_at
    /\ q.state \in (SentStates \cup {"EXTERNAL_HANDOFF"}) \ {"CLOSED"} => q.handoff_at
    /\ q.state \in SentStates => q.sent_by /\ q.sent_at

ValidateHumanControl(q) ==
    /\ q.state \in SentStates \cup {"EXTERNAL_HANDOFF", "USER_APPROVED"} => q.approved_by /\ q.approved_at
    /\ q.state \in SentStates \cup {"EXTERNAL_HANDOFF"} => q.handoff_at
    /\ q.state \in SentStates => q.sent_by /\ q.sent_at

ProhibitedDetails == {"contact_name", "contact_email", "email", "phone", "telephone", "endpoint", "message_body"}

\* AuditEvent.reject_contact_replication: keys at any depth, whatever their case.
RejectContactReplication(keys) == keys \cap ProhibitedDetails = {}

-----------------------------------------------------------------------------

VARIABLES
    built,      \* the object of this behaviour and its class
    auditKeys   \* the detail keys of the audit events written

contactVars == <<built, auditKeys>>

Unbuilt == [class |-> "NONE"]

Channels ==
    [type : ChannelTypes, data_class : DataClasses, policy_decision : PolicyDecisions,
     endpoint : {"", "https", "mailto", "tel"}, actions : {{}, {"OPEN"}, {"OPEN", "COPY"}},
     contact_name : BOOLEAN, reused : BOOLEAN, procedural : BOOLEAN,
     status : {"ACTIVE", "SUPERSEDED"}, superseded_by : BOOLEAN]

Clarifications ==
    [state : ClarificationStates, approved_by : BOOLEAN, approved_at : BOOLEAN,
     handoff_at : BOOLEAN, sent_by : BOOLEAN, sent_at : BOOLEAN]

Facts ==
    [id : {"f1"}, origin : {"SOURCE_FACT", "AXIGNAL_INFERENCE", "SUBSCRIBER_PROVIDED"},
     provenance : BOOLEAN, supported : BOOLEAN]

Workspaces ==
    [opportunity : {"o1"}, version_of : {"o1", "o2"}, channels : {<<>>, <<"c1">>, <<"c1", "c1">>},
     state : {"CREATED", "SUBSCRIBER_APPROVED", "PRESENTED_EXTERNALLY"},
     confirmed_by : BOOLEAN, confirmed_at : BOOLEAN, fact : Facts]

ContactInit == built = Unbuilt /\ auditKeys = {}

\* A channel is constructed and validated against the O01 policy.
BuildChannel(c) ==
    /\ built = Unbuilt
    /\ ValidateChannelPolicy(c) /\ ValidateO01ContactChannel(c)
    /\ built' = [class |-> "ContactChannel", fields |-> c]
    /\ UNCHANGED auditKeys

\* A workspace over an opportunity with one fact, listed once or twice.
OpenWorkspace(w, facts) ==
    /\ built = Unbuilt
    /\ ValidateOrigin(w.fact)
    /\ ValidateBindings([id |-> w.opportunity, version_of |-> w.version_of, channels |-> {"o1"}, facts |-> facts])
    /\ ValidateWorkspaceState(w)
    /\ built' = [class |-> "TenderWorkspace", fields |-> w]
    /\ UNCHANGED auditKeys

\* A question in any state the validator lets through, the first revision or a later one.
ReviseClarification(q) ==
    /\ built.class \in {"NONE", "Clarification"}
    /\ ValidateHumanControl(q)
    /\ built' = [class |-> "Clarification", fields |-> q]
    /\ UNCHANGED auditKeys

RecordAudit(keys) ==
    /\ RejectContactReplication(keys)
    /\ auditKeys' = auditKeys \cup keys
    /\ UNCHANGED built

AuditDetails == SUBSET {"state", "channel_id", "email", "message_body"}

ContactNext ==
    \/ \E c \in Channels : BuildChannel(c)
    \/ \E w \in Workspaces, facts \in {<<"f1">>, <<"f1", "f1">>} : OpenWorkspace(w, facts)
    \/ \E q \in Clarifications : ReviseClarification(q)
    \/ \E keys \in AuditDetails : RecordAudit(keys)

\* Personal and ambiguous contact data stays contained: it is reached only over
\* the channel its policy names, an ambiguous one by opening the source alone,
\* blocked data by nothing, and never for another purpose; a question left the
\* house, and a tender was presented, only after the subscriber's approval and
\* confirmation; a conclusion in a workspace rests on facts; and no audit event
\* repeats an address or a message.
ContactIsContained ==
    LET o == built.fields IN
    /\ built.class = "ContactChannel" =>
        /\ o.data_class # "BLOCKED" /\ ~o.reused /\ o.procedural
        /\ o.data_class = "AMBIGUOUS_PERSONAL" => o.endpoint = "https" /\ o.actions = {"OPEN"}
        /\ o.contact_name /\ o.endpoint \in {"mailto", "tel"} =>
             o.data_class \in {"PROFESSIONAL_PERSONAL", "FUNCTIONAL_NON_PERSONAL"}
        /\ o.type \in {"NAMED_PROFESSIONAL_EMAIL", "NAMED_PROFESSIONAL_PHONE"} => o.policy_decision = "CONTEXTUAL"
    /\ built.class = "Clarification" =>
        (o.state \in SentStates => o.approved_by /\ o.approved_at /\ o.handoff_at /\ o.sent_by /\ o.sent_at)
    /\ built.class = "TenderWorkspace" =>
        /\ o.state = "PRESENTED_EXTERNALLY" => o.confirmed_by /\ o.confirmed_at
        /\ o.fact.origin = "AXIGNAL_INFERENCE" => o.fact.supported
    /\ auditKeys \subseteq {"state", "channel_id"}
=============================================================================
