----------------------------- MODULE Procurement ----------------------------
(***************************************************************************)
(* The procurement rehearsals: single notices whose candidate claims are   *)
(* decided (ProcurementAdmissionRehearsal), and sequences of notices that  *)
(* are checked for lineage, decided and assembled into a dossier           *)
(* (ProcurementLifecycleAssembler).  Either runs over an in-memory store   *)
(* of batches of its own.                                                  *)
(***************************************************************************)
EXTENDS TedNotices, FiniteSets

CONSTANTS
    Documents,     \* the XML documents callers may submit to the lifecycle
    Decidable,     \* those whose candidates a caller may ask to have decided
    Contexts,      \* the admission contexts the operator moves through
    Candidates,    \* tuples of envelopes a caller may ask to have decided
    NoticeIds,     \* the notice identifiers in the order of their text
    MaxNotices,    \* bound on the notices of one lifecycle
    MaxBatches     \* bound on the batches of the store

VARIABLES
    rehearsal,\* the one the store belongs to: "admission" or "lifecycle"
    notices,  \* the raw notices the caller has gathered, in the order submitted
    context,  \* ProcurementAdmissionContext
    results,  \* the store's results: [idempotency key -> decisions of the batch]
    events,   \* the store's events: <<type, batch key>>
    answer    \* what the last call returned

procurementVars == <<rehearsal, notices, context, results, events, answer>>

ProductAdmissionReady(c) ==
    /\ c.source = "PRODUCT_ADMITTED" /\ c.policy = "ENABLED"
    /\ c.rights /\ ~c.kill

SandboxReady(c) ==
    /\ c.source = "SANDBOX" /\ c.policy = "SANDBOX_REHEARSAL"
    /\ c.rights /\ ~c.kill /\ c.authorised

AUTO_ADMISSIBLE_PREDICATES ==
    {"procurement_notice_type", "procurement_procedure_type", "procurement_buyer_official_name",
     "procurement_buyer_identifier", "procurement_contract_nature", "procurement_cpv_code",
     "procurement_place_of_performance_nuts", "procurement_estimated_value",
     "procurement_lot_identifier", "procurement_submission_deadline",
     "procurement_eu_funding_indicator"}

LIFECYCLE_AUTO_ADMISSIBLE_PREDICATES ==
    AUTO_ADMISSIBLE_PREDICATES \cup
    {"procurement_notice_lifecycle_kind", "procurement_changed_notice_reference",
     "procurement_change_reason_code", "procurement_result_lot_identifier",
     "procurement_winner_selection_status", "procurement_tenders_received_count",
     "procurement_winner_organisation_ref", "procurement_winner_official_name",
     "procurement_awarded_value", "procurement_contract_identifier", "procurement_award_date"}

\* Predicates that contain one of PERSONAL_PREDICATE_TOKENS, and prohibited ones.
Personal == {"procurement_contact_email"}

Prohibited == {"guaranteed_opportunity", "supplier_legal_eligibility"}

-----------------------------------------------------------------------------
\* The store.

Decided(claim, outcome) == [claim |-> claim, outcome |-> outcome]

Answer(kind, decisions, replay) ==
    [kind |-> kind, decisions |-> decisions, replay |-> replay, state |-> None,
     unknowns |-> {}, chain |-> <<>>, sections |-> <<>>, envelopes |-> <<>>]

Raised == Answer("RAISED", <<>>, FALSE)

Raise == answer' = Raised /\ UNCHANGED <<results, events>>

\* The events one whole batch leaves.
BatchEvents(key, decisions) ==
    <<<<"BATCH_STARTED", key>>>>
    \o [i \in DOMAIN decisions |-> <<"DECISION_RECORDED", key>>]
    \o <<<<"BATCH_COMMITTED", key>>>>

Keys == DOMAIN results

\* [mutant] the failure path restores the results and not the events.
CommitKeepsEvents(key, decisions, fail) ==
    IF key \in Keys THEN UNCHANGED <<results, events>>
    ELSE IF fail /\ decisions # <<>>
    THEN events' = events \o SubSeq(BatchEvents(key, decisions), 1, 2) /\ UNCHANGED results
    ELSE /\ results' = [k \in Keys \cup {key} |-> IF k = key THEN decisions ELSE results[k]]
         /\ events' = events \o BatchEvents(key, decisions)

\* The store after a commit: unchanged on a replay; restored from the snapshot
\* when the failpoint after the first decision raises.
Commit(key, decisions, fail) ==
    IF key \in Keys \/ (fail /\ decisions # <<>>) THEN UNCHANGED <<results, events>>
    ELSE /\ results' = [k \in Keys \cup {key} |-> IF k = key THEN decisions ELSE results[k]]
         /\ events' = events \o BatchEvents(key, decisions)

\* The failpoint raises unless the batch exists or is empty.
CommitRaises(key, decisions, fail) == key \notin Keys /\ fail /\ decisions # <<>>

Stored(key, decisions) == IF key \in Keys THEN results[key] ELSE decisions

-----------------------------------------------------------------------------
\* ProcurementAdmissionRehearsal

EvaluateCandidate(e, rederived, c) ==
    Decided(e.claim,
        IF e.claim.predicate \in Personal \cup Prohibited THEN "REJECTED_PROHIBITED"
        ELSE IF e.profile # PARSER_PROFILE THEN "QUARANTINED_UNSUPPORTED_PROFILE"
        ELSE IF e.producer # "DETERMINISTIC_XML_PARSER" THEN "HUMAN_REVIEW_REQUIRED_PROPOSAL_ONLY"
        ELSE IF e.claim.predicate \notin AUTO_ADMISSIBLE_PREDICATES
             THEN "HUMAN_REVIEW_REQUIRED_OUTSIDE_PROFILE"
        ELSE IF e.claim \notin rederived THEN "REJECTED_REDERIVATION_MISMATCH"
        ELSE IF ProductAdmissionReady(c) THEN "ADMITTED_REDERIVED"
        ELSE "SANDBOX_ADMISSIBLE_REDERIVED")

\* The key sorts the fingerprints and names neither the producers and profiles of
\* the envelopes nor the context's rights and kill switch.
AdmissionKey(d, envelopes, c) ==
    <<"admission", <<d>>, ToBag([i \in DOMAIN envelopes |-> envelopes[i].claim]),
      c.source, c.policy, c.authorised>>

Decide(d, envelopes, fail) ==
    LET key == AdmissionKey(d, envelopes, context)
        blocked == [i \in DOMAIN envelopes |->
                     Decided(envelopes[i].claim, "BLOCKED_SOURCE_NOT_PRODUCT_ADMITTED")]
        fresh == [i \in DOMAIN envelopes |->
                   EvaluateCandidate(envelopes[i], ToSet(CandidateClaims(d)), context)]
    IN  /\ rehearsal = "admission"
        /\ UNCHANGED <<rehearsal, notices, context>>
        /\ IF ~TEDEFormsCN16Parser(d) THEN Raise
           ELSE IF key \in Keys
           THEN /\ answer' = [Answer("DECIDED", results[key], TRUE) EXCEPT !.envelopes = envelopes]
                /\ UNCHANGED <<results, events>>
           ELSE IF ~ProductAdmissionReady(context) /\ ~SandboxReady(context)
           THEN /\ answer' = [Answer("BLOCKED", blocked, FALSE) EXCEPT !.envelopes = envelopes]
                /\ UNCHANGED <<results, events>>
           ELSE /\ Commit(key, fresh, fail)
                /\ answer' = IF CommitRaises(key, fresh, fail) THEN Raised
                             ELSE [Answer("DECIDED", fresh, FALSE) EXCEPT !.envelopes = envelopes]

-----------------------------------------------------------------------------
\* ProcurementLifecycleAssembler

IdRank(id) == SelectInSeq(NoticeIds, LAMBDA x : x = id)

ReferenceBefore(a, b) == IdRank(a[1]) < IdRank(b[1]) \/ (a[1] = b[1] /\ a[2] < b[2])

\* [mutant] notices are sorted by issue date only.
NoticeBeforeByDate(m, n) == m.date < n.date

\* sorted by issue date, then by reference; stable, as Python's sort is.
NoticeBefore(m, n) == m.date < n.date \/ (m.date = n.date /\ ReferenceBefore(m.reference, n.reference))

Ordered(parsed) ==
    LET n == Len(parsed)
        position == [i \in 1..n |->
            1 + Cardinality({j \in 1..n : \/ NoticeBefore(parsed[j], parsed[i])
                                          \/ j < i /\ ~NoticeBefore(parsed[i], parsed[j])})]
    IN  [k \in 1..n |-> parsed[CHOOSE i \in 1..n : position[i] = k]]

IsCompetition(n) == n.kind # "PROCEDURE_RESULT"

\* latest_competition when the loop reaches position i; 0 when there is none.
LatestCompetition(seq, i) == SelectLastInSubSeq(seq, 1, i - 1, IsCompetition)

\* The loop of _validate_lineage accepts the notice at position i.
LineageStep(seq, i) ==
    LET n == seq[i]
        latest == LatestCompetition(seq, i)
    IN  /\ \A j \in 1..(i - 1) : seq[j].reference # n.reference
        /\ n.procedure = seq[1].procedure
        /\ CASE n.kind = "COMPETITION_INITIAL" -> latest = 0
             [] n.kind = "PROCEDURE_RESULT" ->
                  latest # 0 /\ DOMAIN n.lots \subseteq DOMAIN seq[latest].lots
             [] OTHER ->
                  /\ latest # 0 /\ n.previous = seq[latest].reference
                  /\ seq[latest].kind # "NOTICE_CANCELLATION"
                  /\ n.lots = seq[latest].lots

ValidateLineage(seq) ==
    /\ \A i \in DOMAIN seq : LineageStep(seq, i)
    /\ Cardinality({i \in DOMAIN seq : seq[i].kind = "COMPETITION_INITIAL"}) = 1

\* An evidence key hashes the notice and the claim: within a notice no claim repeats.
BuildEvidence(seq) == \A i \in DOMAIN seq : IsInjective(seq[i].claims)

\* [mutant] the lifecycle forgets the readiness gate.
LifecycleDecisionsUngated(seq, c) ==
    EachOf(seq, LAMBDA n : [i \in DOMAIN n.claims |->
        Decided(n.claims[i], IF n.claims[i].predicate \in LIFECYCLE_AUTO_ADMISSIBLE_PREDICATES
                             THEN "SANDBOX_ADMISSIBLE_REDERIVED" ELSE "HUMAN_REVIEW_REQUIRED_OUTSIDE_PROFILE")])

LifecycleDecisions(seq, c) ==
    LET Outcome(claim) ==
          IF ~ProductAdmissionReady(c) /\ ~SandboxReady(c) THEN "BLOCKED_SOURCE_NOT_PRODUCT_ADMITTED"
          ELSE IF claim.predicate \in Personal THEN "REJECTED_PROHIBITED"
          ELSE IF claim.predicate \notin LIFECYCLE_AUTO_ADMISSIBLE_PREDICATES
               THEN "HUMAN_REVIEW_REQUIRED_OUTSIDE_PROFILE"
          ELSE "SANDBOX_ADMISSIBLE_REDERIVED"
    IN  EachOf(seq, LAMBDA n : [i \in DOMAIN n.claims |-> Decided(n.claims[i], Outcome(n.claims[i]))])

LifecycleKey(seq, c) == <<"lifecycle", seq, EmptyBag, c.source, c.policy, c.authorised>>

\* The dossier's lifecycle_state, from the statuses of all result notices.
DossierState(seq) ==
    LET found == UNION {seq[i].statuses : i \in DOMAIN seq}
    IN  IF \E i \in DOMAIN seq : seq[i].kind = "PROCEDURE_RESULT"
        THEN IF found = {"selec-w"} THEN "AWARDED"
             ELSE IF "selec-w" \in found THEN "PARTIALLY_AWARDED"
             ELSE IF found = {"clos-nw"} THEN "NO_AWARD"
             ELSE "RESULT_PENDING_OR_MIXED"
        ELSE IF Last(seq).kind = "NOTICE_CANCELLATION" THEN "NOTICE_CANCELLED_PROCEDURE_UNRESOLVED"
        ELSE "OPEN_OR_PENDING"

\* What the dossier says it does not know.
Unknowns(seq) ==
    LET found == {i \in DOMAIN seq : seq[i].kind = "PROCEDURE_RESULT"}
    IN  {u \in {"no result", "tender counts", "winner organisation", "procedure cancellation"} :
           \/ u = "no result" /\ found = {}
           \/ u = "tender counts" /\ found # {} /\ \A i \in found : ~seq[i].counted
           \/ u = "winner organisation" /\ \E i \in found : "selec-w" \in seq[i].statuses /\ seq[i].winners = {}
           \/ u = "procedure cancellation" /\ DossierState(seq) = "NOTICE_CANCELLED_PROCEDURE_UNRESOLVED"}

\* The lifecycle events: one per notice, in order, each with what it changes.
BuildEvents(seq) == [i \in DOMAIN seq |-> [reference |-> seq[i].reference, kind |-> seq[i].kind,
                                           previous |-> seq[i].previous]]

\* The evidence objects of a notice: one for each claim, bound to both.
EvidenceOf(n) == [i \in DOMAIN n.claims |-> [reference |-> n.reference, claim |-> n.claims[i]]]

\* The notices in a timeline, and what the result notices among them say.
TimelineFacts(seq) ==
    [i \in DOMAIN seq |-> [reference |-> seq[i].reference, date |-> seq[i].date, kind |-> seq[i].kind,
                           previous |-> seq[i].previous, lots |-> seq[i].lots]]

ResultFacts(found) ==
    [i \in DOMAIN found |-> [reference |-> found[i].reference, statuses |-> found[i].statuses,
                             winners |-> found[i].winners, counted |-> found[i].counted]]

Section(status, claims, evidence, facts) ==
    [status |-> status, claims |-> claims, evidence |-> evidence, facts |-> facts]

\* The result notices of a timeline, in its order.
ResultNotices(seq) == EachOf(seq, LAMBDA n : IF IsCompetition(n) THEN <<>> ELSE <<n>>)

\* The sections of a dossier over the ordered notices and the decisions of the batch.
Sections(seq, decisions) ==
    LET found == ResultNotices(seq)
        Claims(ns) == EachOf(ns, LAMBDA n : n.claims)
        Evidence(ns) == EachOf(ns, EvidenceOf)
    IN  [lifecycle |-> Section("TRACEABLE", Claims(seq), Evidence(seq), TimelineFacts(seq)),
         result    |-> Section(IF found = <<>> THEN "UNKNOWN" ELSE "TRACEABLE",
                               Claims(found), Evidence(found), ResultFacts(found)),
         admission |-> Section("SANDBOX_ONLY", [i \in DOMAIN decisions |-> decisions[i].claim],
                               Evidence(seq), decisions)]

\* The answer that carries the dossier of seq under the decisions ds.
Dossier(kind, seq, ds, replay) ==
    [Answer(kind, ds, replay) EXCEPT !.state = DossierState(seq), !.unknowns = Unknowns(seq),
                                     !.chain = BuildEvents(seq), !.sections = Sections(seq, ds)]

\* What the call returns for the raw notices, apart from the store.
Assembled(raw) == Ordered([i \in DOMAIN raw |-> Notice(raw[i])])

Assemblable(raw) ==
    /\ raw # <<>> /\ \A i \in DOMAIN raw : Parses(raw[i])
    /\ ValidateLineage(Assembled(raw)) /\ BuildEvidence(Assembled(raw))

Assemble(fail) ==
    LET seq == Assembled(notices)
        key == LifecycleKey(seq, context)
        decisions == LifecycleDecisions(seq, context)
    IN  /\ rehearsal = "lifecycle"
        /\ UNCHANGED <<rehearsal, notices, context>>
        /\ IF ~Assemblable(notices) \/ ProductAdmissionReady(context) THEN Raise
           ELSE IF ~SandboxReady(context)
           THEN answer' = Dossier("BLOCKED", seq, decisions, FALSE) /\ UNCHANGED <<results, events>>
           ELSE /\ Commit(key, decisions, fail)
                /\ answer' = IF CommitRaises(key, decisions, fail) THEN Raised
                             ELSE Dossier("ASSEMBLED", seq, Stored(key, decisions), key \in Keys)

-----------------------------------------------------------------------------

NoAnswer == Answer("NONE", <<>>, FALSE)

ProcurementInit ==
    /\ rehearsal \in {"admission", "lifecycle"}
    /\ notices = <<>>
    /\ context \in Contexts
    /\ results = <<>> /\ events = <<>>
    /\ answer = NoAnswer

\* The caller gathers another notice.
Submit(d) ==
    /\ rehearsal = "lifecycle"
    /\ Len(notices) < MaxNotices
    /\ notices' = Append(notices, d)
    /\ answer' = NoAnswer
    /\ UNCHANGED <<rehearsal, context, results, events>>

\* The operator changes the source's state, policy, rights or kill switch.
ChangeContext(c) ==
    /\ c # context
    /\ context' = c
    /\ answer' = NoAnswer
    /\ UNCHANGED <<rehearsal, notices, results, events>>

StoreBound == Cardinality(DOMAIN results') <= MaxBatches

ProcurementNext ==
    \/ \E d \in Documents : Submit(d)
    \/ \E c \in Contexts : ChangeContext(c)
    \/ \E fail \in BOOLEAN : Assemble(fail) /\ StoreBound
    \/ \E d \in Decidable, es \in Candidates, fail \in BOOLEAN : Decide(d, es, fail) /\ StoreBound

ProcurementSpec == ProcurementInit /\ [][ProcurementNext]_procurementVars

-----------------------------------------------------------------------------

\* Batch k fills the places of events after the first n, with its start, one decision for
\* each of the stored result and its commit, and no other place.
Fills(k, n) ==
    LET whole == BatchEvents(k, results[k])
    IN  /\ n + Len(whole) <= Len(events)
        /\ \A i \in DOMAIN events : events[i][2] = k <=> i \in (n + 1)..(n + Len(whole))
        /\ \A j \in DOMAIN whole : events[n + j] = whole[j]

\* The store holds whole batches only: the events of a batch are its start, one
\* decision for each of the stored result and its commit, side by side, and no
\* event belongs to a batch that was rolled back, however commits, replays and
\* failures after the first decision alternate.
StoreIsWhole ==
    /\ \A k \in Keys : \E n \in 0..Len(events) : Fills(k, n)
    /\ \A i \in DOMAIN events : events[i][2] \in Keys

Swapped(seq, i) == [j \in DOMAIN seq |-> IF j = i THEN seq[i + 1] ELSE IF j = i + 1 THEN seq[i] ELSE seq[j]]

\* The order in which a caller hands over the notices of a procedure decides
\* neither whether they are accepted nor the chain that is built from them.
OrderIsImmaterial ==
    (\A i \in DOMAIN notices : Parses(notices[i])) =>
        \A i \in 1..(Len(notices) - 1) :
            /\ Assemblable(notices) <=> Assemblable(Swapped(notices, i))
            /\ Assemblable(notices) => Assembled(notices) = Assembled(Swapped(notices, i))

\* Document d awards a lot to an organisation it names, by a tender for that lot.
Awards(d) ==
    /\ d.root = "ContractAwardNotice"
    /\ \E r \in ToSet(d.results), t \in ToSet(d.tenders), p \in ToSet(d.parties) :
        /\ r.status = "selec-w" /\ t.id \in ToSet(r.tenders) /\ t.lot = r.lot
        /\ t.party = p.id /\ p.winners # <<>> /\ ToSet(p.winners) \subseteq OrganisationIds(d)

\* A dossier tells one chain that starts at the initial notice and in which every
\* change names the competition notice before it and nothing but results follows
\* a cancellation; it calls the procedure awarded only when a notice awards a lot
\* to an organisation it identifies (so no winner is unknown), and unresolved only
\* while there is no result.  Its decisions, the stored ones of a replay too, are
\* about the claims of its own notices, one each and in their order, every claim is
\* backed by evidence from a notice of the chain, and the award is called traceable
\* just when a result notice is in it.
DossierIsSound ==
    LET chain == answer.chain
        sections == answer.sections
    IN  answer.state # None =>
        /\ chain[1].kind = "COMPETITION_INITIAL"
        /\ \A i \in 2..Len(chain) :
            LET before == SelectLastInSubSeq(chain, 1, i - 1, IsCompetition)
            IN  IsCompetition(chain[i]) =>
                    chain[i].previous = chain[before].reference /\ chain[before].kind # "NOTICE_CANCELLATION"
        /\ answer.state \in {"AWARDED", "PARTIALLY_AWARDED"} => \E d \in ToSet(notices) : Awards(d)
        /\ "winner organisation" \notin answer.unknowns
        /\ answer.state = "NOTICE_CANCELLED_PROCEDURE_UNRESOLVED" =>
                \A i \in DOMAIN chain : IsCompetition(chain[i])
        /\ sections.admission.claims = sections.lifecycle.claims
        /\ \A k \in {"lifecycle", "result"} :
            /\ Len(sections[k].evidence) = Len(sections[k].claims)
            /\ \A j \in DOMAIN sections[k].evidence :
                /\ sections[k].evidence[j].claim = sections[k].claims[j]
                /\ \E i \in DOMAIN chain : chain[i].reference = sections[k].evidence[j].reference
        /\ sections.result.status = "TRACEABLE" <=> \E i \in DOMAIN chain : ~IsCompetition(chain[i])

Admissible(decisions) ==
    \E i \in DOMAIN decisions : decisions[i].outcome \in {"ADMITTED_REDERIVED", "SANDBOX_ADMISSIBLE_REDERIVED"}

\* Nothing is found admissible while the rights are missing or the kill switch is
\* on, except by repeating a decision on single notices that was taken before;
\* and the lifecycle never admits for the product.
AdmissionNeedsReadiness ==
    Admissible(answer.decisions) =>
        /\ ~answer.replay \/ answer.kind = "ASSEMBLED" =>
                SandboxReady(context) \/ ProductAdmissionReady(context)
        /\ answer.kind = "ASSEMBLED" => SandboxReady(context)

\* Claims a model produced remain proposals: a caller that submits them as a
\* model's is never answered that they are admissible.
ModelClaimsStayProposals ==
    Admissible(answer.decisions) /\ answer.envelopes # <<>> =>
        \E i \in DOMAIN answer.envelopes : answer.envelopes[i].producer = "DETERMINISTIC_XML_PARSER"
=============================================================================
