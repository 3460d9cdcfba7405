--------------------------- MODULE SourceArtifacts --------------------------
(***************************************************************************)
(* What a research run makes of an answer of its source: the source        *)
(* object, the evidence, the candidate claims, the canonical claims and    *)
(* the dossier, deduplicated by hashes over what the source said.  The     *)
(* runs' states, messages and retries are in ResearchSpine; here several   *)
(* runs work while an operator changes the register and the publisher its  *)
(* data.  A hash is the value it is taken of.  Left out: the choice of a   *)
(* frozen fixture, whose payload goes through the same steps, and two of   *)
(* the four TED fields, which go the way of the title.                     *)
(***************************************************************************)
EXTENDS Naturals, Sequences, FiniteSetsExt

CONSTANTS
    Workers,      \* research workers, each at one run
    Pages,        \* by source, the payloads it may answer with
    MaxReviews    \* bound on the changes of the register

Sources == {"WDI", "TED"}

VARIABLES
    register,     \* by source, the gates its row passes
    reviews,
    holding,      \* by worker, what it has read: NoWork, a source, or a source and its page
    objects,      \* source_objects
    evidence,     \* evidence_objects
    candidates,   \* candidate_claims, by fingerprint
    claims,       \* canonical_claims
    dossiers      \* what the completed runs wrote

artifactVars == <<register, reviews, holding, objects, evidence, candidates, claims, dossiers>>

NoAnswer == [refused |-> TRUE]
NoWork == [at |-> "NOWHERE"]

\* _source_block_reason: what the worker asks of the source before it fetches.
BlockGates ==
    [WDI |-> {"admitted", "alive", "rights", "commercial", "redistribution"},
     TED |-> {"admitted", "alive", "rights", "commercial", "profile", "noApiRedistribution"}]

\* The gates evaluate_observed_fact and evaluate_ted_observed_field read from the row.
DecideGates == [BlockGates EXCEPT !.WDI = @ \cup {"licence"}]

ArtifactsInit ==
    /\ register = DecideGates /\ reviews = 0
    /\ holding = [w \in Workers |-> NoWork]
    /\ objects = {} /\ evidence = {} /\ candidates = <<>> /\ claims = {} /\ dossiers = {}

-----------------------------------------------------------------------------
\* World Bank: the first row of the country and indicator that has a number.  A row's
\* period is a closed year (0), the current one (1) or no year (2).
FromWorldBank(page) ==
    LET rows == {i \in DOMAIN page.rows : page.rows[i].ours /\ page.rows[i].value # 0}
    IN  IF rows = {} THEN {}
        ELSE LET row == page.rows[Min(rows)]
             IN  {[subject |-> row.period, predicate |-> "inflation", value |-> row.value]}

NoticeBudget == 2   \* scaled from 3

\* TED: every field of every notice that is there, or nothing when one notice is out of
\* the contract; the publication number 0 is malformed, the title 0 is missing.
FromTed(page) ==
    LET notices == page.notices
        outside == \/ notices = <<>> \/ Len(notices) > NoticeBudget
                   \/ \E i \in DOMAIN notices : notices[i].number = 0
                   \/ \E i, j \in DOMAIN notices : i # j /\ notices[i].number = notices[j].number
        Field(n, name, v) == [subject |-> n.number, predicate |-> name, value |-> v]
    IN  IF outside THEN {}
        ELSE UNION {{Field(n, "publication-number", n.number)}
                    \cup (IF n.title = 0 THEN {} ELSE {Field(n, "notice-title", n.title)})
                    : n \in {notices[i] : i \in DOMAIN notices}}

Observations(source, page) == IF source = "WDI" THEN FromWorldBank(page) ELSE FromTed(page)

\* A period that is no year makes no date.
Dated(source, facts) == source = "WDI" => \A f \in facts : f.subject # 2

\* What the source object keeps of the page: of TED's, the allowlisted projection.
SanitisedProjection(source, page) == IF source = "TED" THEN [page EXCEPT !.envelope = 0] ELSE page

\* [mutant] The key of an observation leaves out what was observed and the page.
EvidenceKeyOfSubject(source, page, fact) ==
    [source |-> source, subject |-> fact.subject, predicate |-> fact.predicate]

\* The evidence key, which the candidate's fingerprint extends by nothing that varies.
EvidenceKey(source, page, fact) ==
    [source |-> source, subject |-> fact.subject, predicate |-> fact.predicate, value |-> fact.value,
     page |-> page]

\* The decision on one observation, by the row the worker read at the head of the run.
Admitted(source, gates, fact) ==
    DecideGates[source] \subseteq gates /\ (source = "WDI" => fact.subject = 0)

-----------------------------------------------------------------------------
\* A source object is known by what it keeps: two TED envelopes around one projection
\* share it, and the second leaves no trace of its own.
SourceObjectKey(source, page) == [source |-> source, content |-> SanitisedProjection(source, page)]

\* The upserts keep the row that is there.
UpsertSourceObject(source, page, gates, facts) ==
    LET key == SourceObjectKey(source, page)
    IN  IF \E o \in objects : o.key = key THEN objects
        ELSE objects \cup {[key |-> key, shows |-> facts, rights |-> gates, envelope |-> page]}

EvidenceRow(source, page, fact) ==
    [key |-> EvidenceKey(source, page, fact), fact |-> fact, object |-> SourceObjectKey(source, page)]

UpsertEvidence(source, page, facts) ==
    evidence \cup
    {EvidenceRow(source, page, f) : f \in {g \in facts : ~\E e \in evidence : e.key = EvidenceKey(source, page, g)}}

\* A candidate decided before is decided again; a rejection leaves its canonical claim.
UpsertCandidates(source, page, gates, facts) ==
    LET keys == {EvidenceKey(source, page, f) : f \in facts}
        Now(k) == CHOOSE f \in facts : EvidenceKey(source, page, f) = k
        old(k) == k \in DOMAIN candidates
    IN  [k \in DOMAIN candidates \cup keys |->
            IF k \notin keys THEN candidates[k]
            ELSE [fact  |-> IF old(k) THEN candidates[k].fact ELSE Now(k),
                  state |-> IF Admitted(source, gates, Now(k)) THEN "ADMITTED" ELSE "REJECTED",
                  canonical |-> Admitted(source, gates, Now(k)) \/ (old(k) /\ candidates[k].canonical)]]

AdmitCandidates(source, page, gates, facts) ==
    claims \cup
    {[key |-> EvidenceKey(source, page, f), fact |-> f, gates |-> gates] :
        f \in {g \in facts : /\ Admitted(source, gates, g)
                             /\ ~\E c \in claims : c.key = EvidenceKey(source, page, g)}}

DossierSections(source, page, gates, facts) ==
    {[key |-> EvidenceKey(source, page, f), fact |-> f, canonical |-> Admitted(source, gates, f)] : f \in facts}

-----------------------------------------------------------------------------
Goto(w, work) == holding' = [holding EXCEPT ![w] = work]

\* The worker reads the source's row and goes on unless a gate blocks it.
ReadSource(w, source) ==
    /\ holding[w] = NoWork /\ BlockGates[source] \subseteq register[source]
    /\ Goto(w, [at |-> "READ", source |-> source, gates |-> register[source]])
    /\ UNCHANGED <<register, reviews, objects, evidence, candidates, claims, dossiers>>

\* One request, answered by what the publisher says at that moment.  A transport error, a
\* redirect, a status, size or type out of the contract (NoAnswer), or a payload without an
\* observation fails the run.
Fetch(w, page) ==
    /\ holding[w].at = "READ" /\ page \in Pages[holding[w].source] \cup {NoAnswer}
    /\ LET source == holding[w].source
       IN  Goto(w, IF page = NoAnswer \/ Observations(source, page) = {} THEN NoWork
                   ELSE [at |-> "HELD", source |-> source, gates |-> holding[w].gates, page |-> page])
    /\ UNCHANGED <<register, reviews, objects, evidence, candidates, claims, dossiers>>

\* One transaction writes it all, from the row and the page read before.
CompleteRun(w) ==
    /\ holding[w].at = "HELD" /\ Goto(w, NoWork)
    /\ LET source == holding[w].source
           page   == holding[w].page
           gates  == holding[w].gates
           facts  == Observations(source, page)
       IN  IF Dated(source, facts)
           THEN /\ objects' = UpsertSourceObject(source, page, gates, facts)
                /\ evidence' = UpsertEvidence(source, page, facts)
                /\ candidates' = UpsertCandidates(source, page, gates, facts)
                /\ claims' = AdmitCandidates(source, page, gates, facts)
                /\ dossiers' = dossiers \cup {DossierSections(source, page, gates, facts)}
           ELSE UNCHANGED <<objects, evidence, candidates, claims, dossiers>>
    /\ UNCHANGED <<register, reviews>>

\* The worker dies before the transaction commits; its run is for ResearchSpine to retry.
WorkerLost(w) ==
    /\ holding[w] # NoWork /\ Goto(w, NoWork)
    /\ UNCHANGED <<register, reviews, objects, evidence, candidates, claims, dossiers>>

\* An operator closes or opens one gate of the source.  Of the gates the worker asks before
\* it fetches, which act alike, the next-state relation takes one.
ReviewSource(source, gate) ==
    /\ reviews < MaxReviews /\ reviews' = reviews + 1
    /\ register' = [register EXCEPT ![source] = IF gate \in @ THEN @ \ {gate} ELSE @ \cup {gate}]
    /\ UNCHANGED <<holding, objects, evidence, candidates, claims, dossiers>>

ArtifactsNext ==
    \/ \E w \in Workers : CompleteRun(w) \/ WorkerLost(w)
    \/ \E w \in Workers, page \in Pages.WDI \cup Pages.TED \cup {NoAnswer} : Fetch(w, page)
    \/ \E w \in Workers, s \in Sources : ReadSource(w, s)
    \/ \E s \in Sources : \E gate \in DecideGates[s] \cap {"alive", "licence"} : ReviewSource(s, gate)

ArtifactsSpec == ArtifactsInit /\ [][ArtifactsNext]_artifactVars

-----------------------------------------------------------------------------
\* The rows get_run_view puts beside one line of a run's dossier.
RunView(line) ==
    [evidence  |-> {e \in evidence : e.key = line.key},
     candidate |-> {candidates[k].fact : k \in DOMAIN candidates \cap {line.key}},
     canonical |-> {c \in claims : line.canonical /\ c.key = line.key}]

\* Whatever runs are under way and however the source's answers and its row change between
\* their steps: every line of a dossier has one evidence row and one candidate that say
\* what it says, and the source object the evidence names shows it and was taken under
\* rights that allow it; what the line calls canonical is one claim of the same fact,
\* over a closed period, judged by gates that were all open; and no claim stands that no
\* dossier was told of.
OutputStandsOnItsSource ==
    /\ \A d \in dossiers : \A line \in d :
        LET view == RunView(line)
        IN  /\ \E e \in view.evidence :
                /\ view.evidence = {e} /\ e.fact = line.fact
                /\ \E o \in objects : /\ o.key = e.object /\ line.fact \in o.shows
                                      /\ BlockGates[o.key.source] \subseteq o.rights
            /\ view.candidate = {line.fact}
            /\ line.canonical =>
                \E c \in view.canonical :
                    /\ view.canonical = {c} /\ c.fact = line.fact
                    /\ DecideGates[line.key.source] \subseteq c.gates
                    /\ line.key.source = "WDI" => line.fact.subject = 0
    /\ \A c \in claims : \E d \in dossiers : \E line \in d : line.canonical /\ line.key = c.key
=============================================================================
