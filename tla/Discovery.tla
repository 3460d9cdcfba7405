------------------------------ MODULE Discovery -----------------------------
(***************************************************************************)
(* Public discovery pages: a founder has the indexability gate evaluate a  *)
(* candidate page, publishes a snapshot of it for a while, and visitors    *)
(* and crawlers are served what is published.  One page; a day is the unit *)
(* of time, scores are hundredths.                                         *)
(***************************************************************************)
EXTENDS Integers, Sequences, FiniteSets

CONSTANTS
    Candidate,   \* the data a candidate page may have
    MaxDays      \* bound on the age of the data

VARIABLES
    data,        \* the candidate's data: kind, counts, scores, synthetic
    age,         \* days since freshness_at
    pageState,   \* state of the candidate page
    decision,    \* the last decision of the gate, with the reasons it gave
    daysLeft,    \* until the published snapshot expires; 0 when there is none or it has
    entry,       \* state of the sitemap entry
    principal,   \* "ABSENT", "ACTIVE" or "REVOKED" in founder_admin_principals
    config,      \* [indexing, allowlisted, testRuntime, assured]
    citations    \* citation events recorded and audit events written for them

discoveryVars == <<data, age, pageState, decision, daysLeft, entry, principal, config, citations>>

None == "None"

MinimumOpportunities == [TENDER_HUB |-> 8, MARKET_INTELLIGENCE |-> 12, TENDER_DETAIL |-> 1]
MinimumBuyers == [TENDER_HUB |-> 3, MARKET_INTELLIGENCE |-> 5, TENDER_DETAIL |-> 1]

\* By the reason a score below its threshold gives.
Thresholds ==
    [LOW_DEMAND |-> 55, LOW_DATA_QUALITY |-> 75, LOW_UNIQUENESS |-> 65, LOW_SOURCE_COVERAGE |-> 70,
     LOW_CONTENT_DEPTH |-> 70]

\* The reasons both versions of the gate collect; data older than 48 hours is stale.
ReasonCodes(d, days) ==
    (IF d.synthetic THEN {"SYNTHETIC_DATA"} ELSE {})
    \cup (IF d.opportunities < MinimumOpportunities[d.kind] THEN {"INSUFFICIENT_INVENTORY"} ELSE {})
    \cup (IF d.buyers < MinimumBuyers[d.kind] THEN {"INSUFFICIENT_BUYER_DIVERSITY"} ELSE {})
    \cup {reason \in DOMAIN Thresholds : d.scores[reason] < Thresholds[reason]}
    \cup (IF days > 2 THEN {"STALE_DATA"} ELSE {})

\* organic_policy.evaluate_indexability
PolicyDecision(reasons) ==
    IF reasons = {} THEN "INDEX"
    ELSE IF "STALE_DATA" \in reasons /\ "SYNTHETIC_DATA" \notin reasons THEN "HOLD"
    ELSE "NOINDEX"

\* [mutant] Stale data is held whatever else is wrong with it.
StoreDecisionStaleFirst(reasons) ==
    IF reasons = {} THEN "INDEX" ELSE IF "STALE_DATA" \in reasons THEN "HOLD" ELSE "NOINDEX"

\* growth_private.evaluate_indexability, which decides in the database.
StoreDecision(reasons) ==
    IF reasons = {} THEN "INDEX"
    ELSE IF "SYNTHETIC_DATA" \in reasons THEN "NOINDEX"
    ELSE IF "STALE_DATA" \in reasons THEN "HOLD"
    ELSE "NOINDEX"

RequireFounderSubject == config.allowlisted

\* Outside the test runtime the subject is on the allow list too.
Founder ==
    /\ config.assured
    /\ config.testRuntime \/ RequireFounderSubject
    /\ principal = "ACTIVE"

DiscoveryInit ==
    /\ data \in Candidate /\ age = 0
    /\ pageState = "CANDIDATE" /\ decision = [of |-> None, reasons |-> {}] /\ daysLeft = 0 /\ entry = "ABSENT"
    /\ principal \in {"ABSENT", "ACTIVE"}
    /\ config \in [indexing : {FALSE}, allowlisted : BOOLEAN, testRuntime : BOOLEAN, assured : BOOLEAN]
    /\ citations = <<0, 0>>

EvaluatePage ==
    /\ Founder
    /\ LET reasons == ReasonCodes(data, age)
           d == StoreDecision(reasons)
       IN  /\ decision' = [of |-> d, reasons |-> reasons]
           /\ pageState' = IF d = "INDEX" THEN "INDEXABLE" ELSE IF d = "HOLD" THEN "CANDIDATE" ELSE "NOINDEX"
           /\ entry' = IF d = "INDEX" THEN "INCLUDED" ELSE "EXCLUDED"
    /\ UNCHANGED <<data, age, daysLeft, principal, config, citations>>

\* [mutant] The page need not be indexable to be published.
MayPublishAnyEvaluated == pageState # "CANDIDATE"

MayPublish == pageState = "INDEXABLE"

\* The live snapshot is superseded by the new one.
PublishPage(days) ==
    /\ Founder
    /\ MayPublish
    /\ days > 0
    /\ daysLeft' = days
    /\ pageState' = "PUBLISHED"
    /\ entry' = IF entry = "ABSENT" THEN entry ELSE "INCLUDED"
    /\ UNCHANGED <<data, age, decision, principal, config, citations>>

RecordAiCitation ==
    /\ Founder /\ citations[1] < 1
    /\ citations' = <<citations[1] + 1, citations[2] + 1>>
    /\ UNCHANGED <<data, age, pageState, decision, daysLeft, entry, principal, config>>

\* POST /v1/admin/test/bootstrap-founder, in the test runtime only.
TestBootstrapFounder ==
    /\ config.testRuntime /\ config.assured
    /\ principal' = "ACTIVE"
    /\ UNCHANGED <<data, age, pageState, decision, daysLeft, entry, config, citations>>

RevokeFounder ==
    /\ principal = "ACTIVE"
    /\ principal' = "REVOKED"
    /\ UNCHANGED <<data, age, pageState, decision, daysLeft, entry, config, citations>>

SwitchIndexing ==
    /\ config' = [config EXCEPT !.indexing = ~@]
    /\ UNCHANGED <<data, age, pageState, decision, daysLeft, entry, principal, citations>>

\* The operator's pipeline rewrites the candidate's data; outside src/'s services.
DataChanges(d) ==
    /\ data' = d /\ age' = 0
    /\ UNCHANGED <<pageState, decision, daysLeft, entry, principal, config, citations>>

DayPasses ==
    /\ age < MaxDays
    /\ age' = age + 1
    /\ daysLeft' = IF daysLeft = 0 THEN 0 ELSE daysLeft - 1
    /\ UNCHANGED <<data, pageState, decision, entry, principal, config, citations>>

DiscoveryNext ==
    \/ EvaluatePage
    \/ \E days \in 1..2 : PublishPage(days)
    \/ RecordAiCitation \/ TestBootstrapFounder \/ RevokeFounder \/ SwitchIndexing
    \/ \E d \in Candidate : DataChanges(d)
    \/ DayPasses

DiscoverySpec == DiscoveryInit /\ [][DiscoveryNext]_discoveryVars

LiveSnapshot == daysLeft > 0

\* GET of the page, and of the sitemap: empty while indexing is not authorised.
PublicDiscoveryPage ==
    config.indexing /\ pageState = "PUBLISHED" /\ ~data.synthetic /\ LiveSnapshot

PublicDiscoverySitemap ==
    config.indexing /\ entry = "INCLUDED" /\ pageState = "PUBLISHED" /\ ~data.synthetic /\ LiveSnapshot

\* A page is served only while its last evaluation let it be indexed, and the
\* sitemap names exactly what is served, through every order of evaluations,
\* publications, expiries, new data and switches; and the gate of the database
\* decides as the published policy does.
ServedPagesPassedTheGate ==
    /\ PublicDiscoveryPage => decision.of = "INDEX"
    /\ PublicDiscoveryPage <=> PublicDiscoverySitemap
    /\ decision.of # None => decision.of = PolicyDecision(decision.reasons)
=============================================================================
