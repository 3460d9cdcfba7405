----------------------------- MODULE MCPlatform -----------------------------
(***************************************************************************)
(* The components that share no state with one another, side by side for   *)
(* TLC: a behaviour is one component's behaviour, and focus says whose.    *)
(* Nothing the code does makes two of them interact, so their              *)
(* interleavings would only multiply the states.  The token ledger is      *)
(* extended, the others are instances; a component that is not in focus    *)
(* keeps one initial state.                                                *)
(***************************************************************************)
EXTENDS TokenLedger, Sequences

VARIABLE focus

Components ==
    {"tokens", "kernels", "notices", "contacts", "alerts", "discovery", "study", "axent", "objects",
     "renewal", "artifacts", "pilot", "gateway", "stripe", "prototype", "requests"}

InFocus(c) == focus = c

-----------------------------------------------------------------------------
(* The components. *)

VARIABLES phase, kernel, rung, severity
Kernel == INSTANCE Kernels
kernelVars == <<phase, kernel, rung, severity>>

CONSTANTS Documents, Decidable, Contexts, Candidates, NoticeIds, MaxNotices, MaxBatches
VARIABLES rehearsal, notices, context, results, noticeEvents, answer
Notices == INSTANCE Procurement WITH events <- noticeEvents
ASSUME NoticesAssumption ==
    /\ \A d \in Documents : Notices!IsDocument(d) /\ d.id \in Notices!Range(NoticeIds) \cup {Notices!None}
    /\ Notices!IsSeq(NoticeIds) /\ Notices!IsInjective(NoticeIds)
    /\ \A envelopes \in Candidates : Notices!IsSeq(envelopes)
noticeVars == <<rehearsal, notices, context, results, noticeEvents, answer>>

VARIABLES built, auditKeys
Contacts == INSTANCE ContactPolicy
contactVars == <<built, auditKeys>>

CONSTANTS Markets, MaxTokens
VARIABLES state, digest, consent, requests, mailbox, leaving, drawn, alertsOpen, confirmed, ended
Alerts == INSTANCE TenderAlerts
alertVars == <<state, digest, consent, requests, mailbox, leaving, drawn, alertsOpen, confirmed, ended>>

CONSTANTS Candidate, MaxDays
VARIABLES data, age, pageState, decision, daysLeft, entry, principal, config, citations
Discover == INSTANCE Discovery
discoveryVars == <<data, age, pageState, decision, daysLeft, entry, principal, config, citations>>

CONSTANTS Participants, StudyTasks, Assigned, MinSessions, MinParticipants, MinPerCondition
ASSUME CohortAssumption == IsFiniteSet(Participants) /\ IsFiniteSet(StudyTasks)
VARIABLES opened, response, eventKeys, appending, accepted
Study == INSTANCE ControlledStudy
studyVars == <<opened, response, eventKeys, appending, accepted>>

CONSTANTS Subjects, C4Owner, MaxConversations, MaxMessages, MaxToday
ASSUME ConversationsAssumption == MaxConversations \in Nat
VARIABLES store, axentDay, purge, raced, acked, purged, c4, c4Conv, c4Failed
Dialogue == INSTANCE Axent WITH today <- axentDay
axentVars == <<store, axentDay, purge, raced, acked, purged, c4, c4Conv, c4Failed>>

CONSTANTS Putters, Probers
VARIABLES backend, blob, meta, putting, unlinking, since, overtaken, probeFile, probing, probesMet
Objects == INSTANCE ObjectStore
objectVars == <<backend, blob, meta, putting, unlinking, since, overtaken, probeFile, probing, probesMet>>

CONSTANTS RenewalWindow, UrgentWindow, EvidenceDays, Expiries, FrozenDay, MaxHeads, MaxComments, LastDay
ASSUME RenewalAssumption ==
    {RenewalWindow, UrgentWindow, EvidenceDays, FrozenDay} \cup Expiries \subseteq Nat
VARIABLES heads, terms, today, comments, artifact, lastRun
Renewal == INSTANCE ApprovalRenewal
renewalVars == <<heads, terms, today, comments, artifact, lastRun>>

CONSTANTS Workers, SourcePages, MaxReviews
ASSUME PagesAssumption == \A page \in SourcePages.TED : DOMAIN page = {"envelope", "notices"}
VARIABLES register, reviews, holding, objects, evidence, candidates, claims, dossiers
Artifacts == INSTANCE SourceArtifacts WITH Pages <- SourcePages
artifactVars == <<register, reviews, holding, objects, evidence, candidates, claims, dossiers>>

CONSTANTS Releases, Files, MaxPasswords
VARIABLES environment, passwordIn, metadata, command, deployment, deployState, currentLink,
          running, lastDeploy, issued, given, torn
Pilot == INSTANCE RemotePilot
pilotVars == <<environment, passwordIn, metadata, command, deployment, deployState, currentLink,
    running, lastDeploy, issued, given, torn>>

CONSTANTS Jobs, OpportunityOf, DocumentFiles, Orders, Batches, MaxFragments
VARIABLES proposer, deliveries, outcome
Gateway == INSTANCE ProposalGateway
\* What is said is a batch of claims, each with references that name a fragment and quote one.
ASSUME BatchesAssumption ==
    \A b \in Batches :
        /\ DOMAIN b = {"producer", "model", "claims"}
        /\ Gateway!IsBatch(b.claims)
gatewayVars == <<proposer, deliveries, outcome>>

CONSTANTS Deployments, Prices, MaxStamp
VARIABLES deployed, checkingOut, chosen, stripeSide, stripeEvents, processed, clockAtStripe, activated, soldUnder
Stripe == INSTANCE BillingRuntime WITH events <- stripeEvents
ASSUME DeploymentsAssumption ==
    /\ Stripe!NoPrice \notin Prices
    /\ \A d \in Deployments : /\ {d.professional, d.team} \subseteq Prices \cup {Stripe!NoPrice}
                              /\ d.key \in Stripe!Modes \cup {"none"}
stripeVars == <<deployed, checkingOut, chosen, stripeSide, stripeEvents, processed, clockAtStripe,
    activated, soldUnder>>

CONSTANT MaxVersion
VARIABLES investigation, dossierShown
Prototype == INSTANCE PrototypeInvestigation
prototypeVars == <<investigation, dossierShown>>

CONSTANTS Configs, Reservations, Lifetimes, MaxAssertionTTL, AssertionSkew, GrantTTL, GrantSkew,
          IdleWindow, TouchInterval, AbsoluteWindow, StepUpUntil, MaxClock
VARIABLES apiConfig, clock, session, seat, trial, assertion, grants, held, incoming, gone
Requests == INSTANCE RequestAuthority WITH config <- apiConfig
\* Times and terms are whole seconds; a signer that is behind only shortens them.
ASSUME TimesAssumption == Requests!TimesAreNumbers
authorityVars == <<apiConfig, clock, session, seat, trial, assertion, grants, held, incoming, gone>>

-----------------------------------------------------------------------------
(* Their inputs. *)

\* The notices of the rehearsals' tests: one procedure with two lots, its initial notice, a
\* correction, a correction of the same day whose identifier sorts first, a cancellation and
\* a change after it, results for one lot, for both lots and by one winner of both lots, and
\* a notice of another procedure.
Ted == INSTANCE TedNotices

MCNoticeIds == <<"n1", "n2", "n3", "n4", "n5", "n6", "n7", "n8", "n9">>

Organisation(id) == [id |-> id, names |-> <<"name of " \o id>>, national |-> Ted!None]

Lot(id) == [id |-> id, project |-> <<>>, deadline |-> "d", funding |-> Ted!None]

Contract(id, version, date, procedure, changes) ==
    [root |-> "ContractNotice", profile |-> Ted!CN16, bytes |-> 1, entities |-> FALSE, wellFormed |-> TRUE,
     id |-> id, version |-> version, date |-> date, procedure |-> procedure, type |-> "open",
     organisations |-> <<Organisation("buyer")>>, buyers |-> <<"buyer">>,
     project |-> <<[cpv |-> <<"45">>, nuts |-> <<"ES">>, nature |-> "works", value |-> "9", currency |-> "EUR"]>>,
     lots |-> <<Lot("L1"), Lot("L2")>>, changes |-> changes]

Change(previous, reason) ==
    <<[previous |-> previous, reason |-> reason, nodes |-> IF reason = "cancel" THEN 0 ELSE 1]>>

Tender(id, party, lot) == [id |-> id, party |-> party, lot |-> lot, amount |-> "7", currency |-> "EUR"]

LotResult(id, lot, status, tenders) ==
    [id |-> id, lot |-> lot, status |-> status, tenders |-> tenders, counts |-> <<3>>]

Award(id, date, lotResults, winner2) ==
    [root |-> "ContractAwardNotice", profile |-> Ted!CAN29, bytes |-> 1, entities |-> FALSE, wellFormed |-> TRUE,
     id |-> id, version |-> 1, date |-> date, procedure |-> "p",
     organisations |-> <<Organisation("w1"), Organisation("w2")>>,
     parties |-> <<[id |-> "P1", winners |-> <<"w1">>], [id |-> "P2", winners |-> winner2]>>,
     tenders |-> <<Tender("T1", "P1", "L1"), Tender("T2", "P2", "L2")>>,
     results |-> lotResults, contracts |-> <<[id |-> "c", date |-> "d"]>>]

Initial == Contract("n2", 1, 1, "p", <<>>)
SameDay == Contract("n1", 1, 1, "p", Change(<<"n2", 1>>, "cor-buy"))
Correction == Contract("n3", 1, 2, "p", Change(<<"n2", 1>>, "cor-buy"))
Cancellation == Contract("n4", 1, 3, "p", Change(<<"n2", 1>>, "cancel"))
AfterCancellation == Contract("n5", 1, 4, "p", Change(<<"n4", 1>>, "update-add"))
Elsewhere == Contract("n6", 1, 2, "q", Change(<<"n2", 1>>, "cor-buy"))
Draft == Contract("n6", 0, 2, "p", <<>>)
FirstLot == Award("n7", 5, <<LotResult("R1", "L1", "selec-w", <<"T1">>), LotResult("R2", "L2", "clos-nw", <<>>)>>, <<"w2">>)
CrossLot == Award("n8", 5, <<LotResult("R1", "L1", "selec-w", <<"T2">>)>>, <<"w2">>)
Nobody == Award("n8", 5, <<LotResult("R2", "L2", "selec-w", <<"T2">>)>>, <<>>)
BothLots == Award("n8", 6, <<LotResult("R1", "L1", "selec-w", <<"T1">>), LotResult("R2", "L2", "selec-w", <<"T2">>)>>, <<"w2">>)
OneWinner == Award("n9", 6, <<LotResult("R1", "L1", "selec-w", <<"T1">>), LotResult("R2", "L2", "selec-w", <<"T2">>)>>, <<"w1">>)

MCDocuments ==
    {Initial, SameDay, Correction, Cancellation, AfterCancellation, Elsewhere, Draft,
     FirstLot, CrossLot, Nobody, BothLots, OneWinner}

\* A notice that parses, one of another identifier, one that does not.
MCDecidable == {Initial, Correction, Draft}

\* current_ted_state, sandbox_rehearsal, the sandbox without its rights or under
\* the kill switch, and an admitted source.
Context(source, policy, rights, kill, authorised) ==
    [source |-> source, policy |-> policy, rights |-> rights, kill |-> kill, authorised |-> authorised]

MCContexts ==
    {Context("TECHNICAL_PROBE", "DISABLED_PENDING_PRODUCT_ADMISSION_AND_XML_PARSER", FALSE, TRUE, FALSE),
     Context("SANDBOX", "SANDBOX_REHEARSAL", TRUE, FALSE, TRUE),
     Context("SANDBOX", "SANDBOX_REHEARSAL", TRUE, TRUE, TRUE),
     Context("PRODUCT_ADMITTED", "ENABLED", TRUE, FALSE, FALSE)}

Envelope(claim, producer, profile) == [claim |-> claim, producer |-> producer, profile |-> profile]

Parsed == Ted!Claim("procurement_notice_type", <<"n2">>, <<"cn-standard">>)
Tampered == Ted!Claim("procurement_notice_type", <<"n2">>, <<"pin-only">>)
Outside == Ted!Claim("procurement_notice_subtype", <<"n2">>, <<"16">>)
Contact == Ted!Claim("procurement_contact_email", <<"n2">>, <<"someone">>)

MCCandidates ==
    {<<Envelope(Parsed, "DETERMINISTIC_XML_PARSER", Ted!PARSER_PROFILE)>>,
     <<Envelope(Parsed, "LOCAL_MODEL", Ted!PARSER_PROFILE)>>,
     <<Envelope(Outside, "DETERMINISTIC_XML_PARSER", "other"),
       Envelope(Tampered, "DETERMINISTIC_XML_PARSER", Ted!PARSER_PROFILE),
       Envelope(Contact, "DETERMINISTIC_XML_PARSER", Ted!PARSER_PROFILE),
       Envelope(Outside, "DETERMINISTIC_XML_PARSER", Ted!PARSER_PROFILE)>>}

\* Candidate pages: one that passes, one on synthetic data, one with an opportunity
\* too few, one whose demand is a point too low.
Page(kind, opportunities, buyers, low, synthetic) ==
    [kind |-> kind, opportunities |-> opportunities, buyers |-> buyers, synthetic |-> synthetic,
     scores |-> [LOW_DEMAND |-> IF low THEN 54 ELSE 55, LOW_DATA_QUALITY |-> 75, LOW_UNIQUENESS |-> 65,
                 LOW_SOURCE_COVERAGE |-> 70, LOW_CONTENT_DEPTH |-> 70]]
MCCandidate ==
    {Page("TENDER_HUB", 8, 3, FALSE, FALSE), Page("TENDER_HUB", 8, 3, FALSE, TRUE),
     Page("MARKET_INTELLIGENCE", 11, 5, FALSE, FALSE), Page("TENDER_DETAIL", 1, 1, TRUE, FALSE)}

MCAssigned == [s \in Participants \X StudyTasks |-> IF s[1] = "p2" THEN "CONTROL" ELSE "AXIGNAL"]

\* Payloads of the two sources: our rows by period and value, some revised, notices by
\* number and title, one of them twice in an envelope.
Row(period, value) == [ours |-> TRUE, period |-> period, value |-> value]
Notice(number, title) == [number |-> number, title |-> title]
MCPages ==
    [WDI |-> {[stamp |-> 1, rows |-> <<[ours |-> FALSE, period |-> 0, value |-> 3], Row(1, 0), Row(0, 1), Row(0, 2)>>],
              [stamp |-> 2, rows |-> <<Row(0, 2)>>],
              [stamp |-> 3, rows |-> <<Row(1, 1)>>]},
     TED |-> {[envelope |-> 1, notices |-> <<Notice(1, 1), Notice(2, 0)>>],
              [envelope |-> 2, notices |-> <<Notice(1, 1), Notice(2, 0)>>],
              [envelope |-> 3, notices |-> <<Notice(1, 1), Notice(1, 2)>>]}]

MCOpportunity == [j \in Jobs |-> IF j = "j1" THEN "opportunity1" ELSE "opportunity2"]
MCDocumentFiles ==
    {[paragraphs |-> p, intact |-> TRUE] :
        p \in {<<"fact", "rate">>, <<"rate", "fact">>, <<"order", "fact">>, <<"fact", "rate", "fact">>}}
    \cup {[paragraphs |-> <<"rate">>, intact |-> FALSE]}

\* A fragment is its position and its text; the last claim cites one and quotes the other.
Fact == <<1, "fact">>
FactRate == <<2, "rate">>
Cited(fragment, quote) == [fragment |-> fragment, quote |-> quote]
ProposedClaim(relationship, refs) == [subject |-> "s", value |-> 1, relationship |-> relationship, refs |-> refs]
MCBatches ==
    LET supporting == ProposedClaim("SUPPORTING", <<Cited(Fact, Fact)>>)
        adverse == ProposedClaim("ADVERSE", <<Cited(Fact, Fact)>>)
        both == ProposedClaim("SUPPORTING", <<Cited(FactRate, FactRate), Cited(Fact, Fact)>>)
        misquoted == ProposedClaim("SUPPORTING", <<Cited(Fact, FactRate)>>)
        local == [producer |-> "openai-compatible-local-endpoint", model |-> "named"]
        frozen == [producer |-> "frozen-local-proposal-fixture", model |-> "fixture-model@0.1.0"]
    IN  {[producer |-> says.producer, model |-> says.model, claims |-> c] :
            says \in {local, [local EXCEPT !.model = frozen.model], frozen},
            c \in {<<>>, <<supporting, adverse>>, <<both, supporting>>, <<misquoted>>}}

\* The deployment the runbook describes; its prices rotated; both plans at one price; its
\* secret rotated with the checkout closed; a professional price that was lost; a live key;
\* the test provider, in production and in a test environment.
Described ==
    [provider |-> "stripe", environment |-> "production", testRuntime |-> FALSE, runtime |-> TRUE,
     checkout |-> TRUE, webhooks |-> TRUE, lifecycle |-> TRUE, sandboxOnly |-> TRUE, key |-> "sandbox",
     signingSecret |-> "current", account |-> TRUE, keyOfAccount |-> TRUE, professional |-> "p1",
     team |-> "t1", store |-> TRUE]
MCDeployments ==
    {Described, [Described EXCEPT !.professional = "t1", !.team = "t2"],
     [Described EXCEPT !.checkout = FALSE, !.signingSecret = "old"],
     [Described EXCEPT !.professional = "no price"],
     [Described EXCEPT !.sandboxOnly = FALSE, !.key = "live"],
     [Described EXCEPT !.provider = "test", !.testRuntime = TRUE],
     [Described EXCEPT !.provider = "test", !.testRuntime = TRUE, !.environment = "test"]}

\* The identity runtime with seats; neither; the API's runtime without the web application's.
Runtime ==
    [web |-> TRUE, identity |-> TRUE, seats |-> TRUE, secrets |-> TRUE, store |-> TRUE, ai |-> TRUE,
     trials |-> TRUE, lead |-> 0]
MCConfigs ==
    {Runtime, [Runtime EXCEPT !.lead = 2], [Runtime EXCEPT !.web = FALSE],
     [Runtime EXCEPT !.web = FALSE, !.identity = FALSE, !.seats = FALSE]}

-----------------------------------------------------------------------------
(* Their composition. *)

\* A component out of focus starts in one of its initial states only.
Pinned ==
    /\ IF InFocus("tokens") THEN TRUE ELSE grant = "READY"
    /\ IF InFocus("kernels") THEN TRUE ELSE phase = 5 /\ kernel = CHOOSE k \in DOMAIN Kernel!KernelsOf(5) : TRUE
    /\ IF InFocus("notices") THEN TRUE ELSE rehearsal = "admission" /\ context = CHOOSE x \in Contexts : TRUE
    /\ IF InFocus("discovery") THEN TRUE
       ELSE /\ data = CHOOSE x \in Candidate : TRUE
            /\ principal = "ABSENT"
            /\ config = [indexing |-> FALSE, allowlisted |-> FALSE, testRuntime |-> FALSE, assured |-> FALSE]
    /\ IF InFocus("objects") THEN TRUE ELSE backend = "memory"
    /\ IF InFocus("stripe") THEN TRUE ELSE deployed = CHOOSE x \in Deployments : TRUE
    /\ IF InFocus("requests") THEN TRUE ELSE apiConfig = (CHOOSE x \in Configs : TRUE) /\ trial = "READY"

PlatformInit ==
    /\ focus \in Components /\ Pinned
    /\ Init /\ Kernel!KernelsInit /\ Notices!ProcurementInit /\ Contacts!ContactInit /\ Alerts!AlertsInit
    /\ Discover!DiscoveryInit /\ Study!StudyInit /\ Dialogue!AxentInit /\ Objects!ObjectInit
    /\ Renewal!RenewalInit /\ Artifacts!ArtifactsInit /\ Pilot!PilotInit /\ Gateway!GatewayInit
    /\ Stripe!BillingRuntimeInit /\ Prototype!PrototypeInit /\ Requests!RequestInit

\* Every component but c keeps its state.
Still(c) ==
    /\ UNCHANGED focus
    /\ IF c = "tokens" THEN TRUE ELSE UNCHANGED ledgerVars
    /\ IF c = "kernels" THEN TRUE ELSE UNCHANGED kernelVars
    /\ IF c = "notices" THEN TRUE ELSE UNCHANGED noticeVars
    /\ IF c = "contacts" THEN TRUE ELSE UNCHANGED contactVars
    /\ IF c = "alerts" THEN TRUE ELSE UNCHANGED alertVars
    /\ IF c = "discovery" THEN TRUE ELSE UNCHANGED discoveryVars
    /\ IF c = "study" THEN TRUE ELSE UNCHANGED studyVars
    /\ IF c = "axent" THEN TRUE ELSE UNCHANGED axentVars
    /\ IF c = "objects" THEN TRUE ELSE UNCHANGED objectVars
    /\ IF c = "renewal" THEN TRUE ELSE UNCHANGED renewalVars
    /\ IF c = "artifacts" THEN TRUE ELSE UNCHANGED artifactVars
    /\ IF c = "pilot" THEN TRUE ELSE UNCHANGED pilotVars
    /\ IF c = "gateway" THEN TRUE ELSE UNCHANGED gatewayVars
    /\ IF c = "stripe" THEN TRUE ELSE UNCHANGED stripeVars
    /\ IF c = "prototype" THEN TRUE ELSE UNCHANGED prototypeVars
    /\ IF c = "requests" THEN TRUE ELSE UNCHANGED authorityVars

PlatformNext ==
    \/ InFocus("tokens") /\ Still("tokens") /\ LedgerNext
    \/ InFocus("kernels") /\ Still("kernels") /\ Kernel!KernelsNext
    \/ InFocus("notices") /\ Still("notices") /\ Notices!ProcurementNext
    \/ InFocus("contacts") /\ Still("contacts") /\ Contacts!ContactNext
    \/ InFocus("alerts") /\ Still("alerts") /\ Alerts!AlertsNext
    \/ InFocus("discovery") /\ Still("discovery") /\ Discover!DiscoveryNext
    \/ InFocus("study") /\ Still("study") /\ Study!StudyNext
    \/ InFocus("axent") /\ Still("axent") /\ Dialogue!AxentNext
    \/ InFocus("objects") /\ Still("objects") /\ Objects!ObjectNext
    \/ InFocus("renewal") /\ Still("renewal") /\ Renewal!RenewalNext
    \/ InFocus("artifacts") /\ Still("artifacts") /\ Artifacts!ArtifactsNext
    \/ InFocus("pilot") /\ Still("pilot") /\ Pilot!PilotNext
    \/ InFocus("gateway") /\ Still("gateway") /\ Gateway!GatewayNext
    \/ InFocus("stripe") /\ Still("stripe") /\ Stripe!BillingRuntimeNext
    \/ InFocus("prototype") /\ Still("prototype") /\ Prototype!PrototypeNext
    \/ InFocus("requests") /\ Still("requests") /\ Requests!RequestNext

platformVars ==
    <<ledgerVars, focus, kernelVars, noticeVars, contactVars, alertVars, discoveryVars, studyVars, axentVars,
      objectVars, renewalVars, artifactVars, pilotVars, gatewayVars, stripeVars, prototypeVars, authorityVars>>

PlatformSpec == PlatformInit /\ [][PlatformNext]_platformVars

-----------------------------------------------------------------------------
(* Properties: those of the components, where the component is in focus. *)

\* As a fact a decision kernel reads gets worse, its verdict never gets better, but for
\* the losses the kernel does not notice.
VerdictNeverImproves == Kernel!VerdictNeverImproves

\* A request is let in only shortly after its session last resolved, and settles only the
\* reservation its capability token was issued for.
AuthorityIsBounded == Requests!AuthorityIsBounded

\* The store of procurement decisions holds whole batches; the order in which notices are
\* handed over changes no chain; a dossier claims no award, winner or end its notices do
\* not state; nothing is admitted from a source that is not ready.
ProcurementHolds ==
    InFocus("notices") =>
        /\ Notices!StoreIsWhole /\ Notices!OrderIsImmaterial
        /\ Notices!DossierIsSound /\ Notices!AdmissionNeedsReadiness

\* No contact object that passed validation reaches beyond the O01 policy, no audit event
\* carries what it forbids, and a renewal run that asks for nothing had both approvals.
ContactPolicyHolds ==
    /\ InFocus("contacts") => Contacts!ContactIsContained
    /\ InFocus("renewal") => Renewal!QuietRenewalIsEarned

\* However requests, deliveries and unsubscriptions of a contact interleave, an alert is
\* active only by the confirmation of the token its row holds; and a page is served and
\* listed only on a decision of the gate about its data.
OrganicSurfaceIsEarned ==
    /\ InFocus("alerts") => Alerts!AlertNeedsItsToken
    /\ InFocus("discovery") => Discover!ServedPagesPassedTheGate

\* The controlled study counts what its participants did.
StudyIsHonest == InFocus("study") => Study!StudyIsHonest

\* Axent keeps the messages it acknowledged and what a hold protects, and purges what is due.
AxentKeepsItsWord == InFocus("axent") => Dialogue!AxentKeepsItsWord

\* An object whose put was answered can be read back.
StoredObjectsCanBeRead == InFocus("objects") => Objects!StoredObjectsCanBeRead

\* What a research run publishes stands on the source object it read.
OutputStandsOnItsSource == InFocus("artifacts") => Artifacts!OutputStandsOnItsSource

\* The pilot's environment, password files and metadata agree between commands.
PilotStateAgrees == InFocus("pilot") => Pilot!PilotStateAgrees

\* A proposal cites fragments of the document it is about, by the identity that made it.
ProposalsAreTraceable == InFocus("gateway") => Gateway!ProposalsAreTraceable

\* What a customer has paid for is activated, or an event that activates it is still to be taken.
PaidPlanStaysWithinReach == InFocus("stripe") => Stripe!PaidPlanStaysWithinReach

\* The navigator's investigation refers to what is selected in it.
InvestigationHoldsTogether == InFocus("prototype") => Prototype!InvestigationHoldsTogether
=============================================================================
