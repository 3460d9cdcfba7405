---------------------------- MODULE ProposalGateway ----------------------------
(***************************************************************************)
(* Inside one execution of the document pipeline: what DocumentAdmission   *)
(* takes as "the pipeline proposes candidates, finds the document unsafe,  *)
(* or fails".  A worker process is built once, from the settings and the   *)
(* fixture files it finds when it starts; it then serves jobs from the     *)
(* queue, each possibly delivered again, and asks the one model gateway    *)
(* it was built with.                                                      *)
(*                                                                         *)
(* A document is the sequence of its paragraphs.  A fragment's identifier  *)
(* and its content hash are both functions of its ordinal and its text, so *)
(* both are that pair.  What a model endpoint answers is any batch of      *)
(* Batches; one the schema refuses (no claim, or too many) stands for an   *)
(* endpoint that does not answer, or not with JSON, as well.               *)
(***************************************************************************)
EXTENDS Naturals, Sequences, FiniteSets, TLC, SequencesExt

CONSTANTS
  Jobs, OpportunityOf,           \* runs, and the opportunity each is about
  DocumentFiles,                 \* what the fixture path may hold: [paragraphs, intact]
  Orders,                        \* the paragraphs a blocked pattern matches
  Batches,                       \* what a model or a proposal fixture may say
  MaxFragments                   \* the schema's limit on fragments (100 in the code)

DeepSeek == "deepseek-direct"
Local == "openai-compatible-local-endpoint"
Frozen == "frozen-local-proposal-fixture"
Gateways == {DeepSeek, Local, Frozen}
ModelOf == DeepSeek :> "deepseek-v4-flash-0731" @@ Local :> "named" @@ Frozen :> "fixture-model@0.1.0"

VARIABLES
  proposer,      \* the worker process: [up, gateway, document, fixture, job]
  deliveries,    \* messages on the proposal queue: runs
  outcome        \* per run: what the pipeline made of it

gatewayVars == <<proposer, deliveries, outcome>>

Nothing == [fragments |-> <<>>, intact |-> TRUE]
NoAnswer == [producer |-> "", model |-> "", claims |-> <<>>]
Down == [up |-> FALSE, gateway |-> Frozen, document |-> Nothing, fixture |-> NoAnswer, job |-> {}]
Pending == [kind |-> "QUEUED", asked |-> "", producer |-> "", model |-> "", fragments |-> <<>>,
            evidence |-> <<>>, candidates |-> <<>>, sections |-> <<>>, opportunity |-> "", hash |-> <<>>]

GatewayInit ==
  /\ proposer = Down
  /\ deliveries = <<>>
  /\ outcome = [j \in Jobs |-> Pending]

-----------------------------------------------------------------------------
(* Documents, fragments and evidence. *)

\* DeterministicInstitutionalParser.parse: the paragraphs in their order, each with
\* the ordinal its hash includes.
Parsed(paragraphs) == [i \in DOMAIN paragraphs |-> <<i, paragraphs[i]>>]

\* ParsedDocument: at least one fragment and no more than the limit.
FitsTheSchema(fragments) == Len(fragments) \in 1..MaxFragments

\* InstitutionalDocument.verify_content_hash, on the file the worker loads.
DocumentLoads(file) == file.intact

\* PromptInjectionScanner.inspect looks at one fragment at a time.
Detections(fragments) == {f \in Range(fragments) : f[2] \in Orders}

\* A reference names a fragment and quotes its hash.
Available(fragments, ref) == ref.fragment \in Range(fragments)

\* [mutant] Evidence looked up by the fragment's name alone.
CitesByName(fragments, ref) == Available(fragments, ref)

\* The test _bind_evidence makes of each reference of a claim.
Cites(fragments, ref) == Available(fragments, ref) /\ ref.quote = ref.fragment

EvidenceOf(ref) == [fragment |-> ref.fragment, content |-> ref.fragment, quote |-> ref.quote]

\* evidence_by_fragment: one record per fragment, made by the first reference to it.
FirstPerFragment(seen, ref) ==
  IF \E e \in Range(seen) : e.fragment = ref.fragment THEN seen ELSE Append(seen, EvidenceOf(ref))

References(claims) == FlattenSeq([i \in DOMAIN claims |-> claims[i].refs])
EvidenceRecords(claims) == FoldLeft(FirstPerFragment, <<>>, References(claims))
EvidenceKeys(claim) == [i \in DOMAIN claim.refs |-> claim.refs[i].fragment]

-----------------------------------------------------------------------------
(* The model gateways. *)

\* The schemas of a claim and of its references.
IsBatch(claims) ==
  /\ claims \in Seq(Range(claims))
  /\ \A c \in Range(claims) :
       /\ c.refs \in Seq(Range(c.refs))
       /\ \A ref \in Range(c.refs) : ref = [fragment |-> ref.fragment, quote |-> ref.quote]

\* ProposalBatch: one to three claims, each with at least one reference.
WellFormed(batch) == Len(batch.claims) \in 1..3 /\ \A i \in DOMAIN batch.claims : batch.claims[i].refs # <<>>

\* The DeepSeek adapter writes its own identity over whatever the endpoint said.
AskDeepSeek(reply) == [reply EXCEPT !.producer = DeepSeek, !.model = ModelOf[DeepSeek]]

\* The OpenAI-compatible adapter passes on what the endpoint states.
AskLocal(reply) == reply

\* The frozen adapter answers with its fixture, if every reference of it still
\* holds for this document.
FrozenStillHolds(fixture, fragments) ==
  \A ref \in Range(References(fixture.claims)) : Cites(fragments, ref)

\* What propose returns, for any reply of an endpoint; NoAnswer is a ModelProposalError.
Answer(reply) ==
  LET asked == proposer.gateway
      batch == CASE asked = DeepSeek -> AskDeepSeek(reply)
                 [] asked = Local -> AskLocal(reply)
                 [] asked = Frozen -> proposer.fixture
  IN IF ~WellFormed(batch) THEN NoAnswer
     ELSE IF asked = Frozen /\ ~FrozenStillHolds(batch, proposer.document.fragments) THEN NoAnswer
     ELSE batch

\* [mutant] Only the producer is compared.
ProducerMatches(batch) == batch.producer = proposer.gateway

\* _verify_model_identity
IdentityMatches(batch) == batch.producer = proposer.gateway /\ batch.model = ModelOf[proposer.gateway]

-----------------------------------------------------------------------------
(* Candidates and the dossier. *)

\* [mutant] The fingerprint without the opportunity.
FingerprintOfTheFact(claim, batch, opportunity) ==
  <<claim.subject, claim.value, EvidenceKeys(claim), batch.producer, batch.model>>

\* _build_candidate: neither the statement, its kind nor its relationship is hashed.
Fingerprint(claim, batch, opportunity) ==
  <<opportunity, claim.subject, claim.value, EvidenceKeys(claim), batch.producer, batch.model>>

CandidateDraft(claim, batch, opportunity) ==
  [id |-> Fingerprint(claim, batch, opportunity), relationship |-> claim.relationship,
   keys |-> EvidenceKeys(claim), opportunity |-> opportunity]

\* DeterministicProposalBoundary: what is handed on; nothing is ever admitted here.
HandoffReady(candidate, evidence) ==
  candidate.keys # <<>> /\ \A k \in Range(candidate.keys) : \E e \in Range(evidence) : e.fragment = k

\* _build_dossier: a section for every candidate, in order, then the unknowns and the method.
DossierSections(candidates) ==
  [i \in DOMAIN candidates |-> [keys |-> candidates[i].keys, candidate |-> candidates[i].id,
                                adverse |-> candidates[i].relationship # "SUPPORTING"]]

\* _reproducibility_hash
ReproducibilityHash(fragments, drafts) == <<fragments, [i \in DOMAIN drafts |-> drafts[i].id]>>

ResultOf(batch, j) ==
  LET drafts == [i \in DOMAIN batch.claims |-> CandidateDraft(batch.claims[i], batch, OpportunityOf[j])]
  IN [kind |-> "RESULT", asked |-> proposer.gateway, producer |-> batch.producer, model |-> batch.model,
      fragments |-> proposer.document.fragments, evidence |-> EvidenceRecords(batch.claims),
      candidates |-> drafts, sections |-> DossierSections(drafts), opportunity |-> OpportunityOf[j],
      hash |-> ReproducibilityHash(proposer.document.fragments, drafts)]

Refused(kind) == [Pending EXCEPT !.kind = kind]

\* LocalDocumentProposalPipeline.execute, with what process makes of its exceptions.
Pipeline(reply, j) ==
  LET fragments == proposer.document.fragments
      batch == Answer(reply)
  IN IF ~FitsTheSchema(fragments) THEN Refused("FAILED")
     ELSE IF Detections(fragments) # {} THEN Refused("QUARANTINED")
     ELSE IF batch = NoAnswer \/ ~IdentityMatches(batch) THEN Refused("FAILED")
     ELSE IF \E ref \in Range(References(batch.claims)) : ~Cites(fragments, ref) THEN Refused("FAILED")
     ELSE ResultOf(batch, j)

-----------------------------------------------------------------------------
(* The worker process. *)

\* Settings.require_document_proposal_worker: one gateway at most, and what it needs.
SettingsAccepted(s) ==
  /\ ~(s.deepseek /\ s.local)
  /\ IF s.deepseek THEN s.key /\ s.checkpoint ELSE s.local \/ s.fixture

\* build_runtime chooses the gateway; a local endpoint must also be named.
GatewayOf(s) == IF s.deepseek THEN DeepSeek ELSE IF s.local THEN Local ELSE Frozen
GatewayBuilds(s, batch) ==
  CASE GatewayOf(s) = DeepSeek -> TRUE
    [] GatewayOf(s) = Local -> s.named
    [] GatewayOf(s) = Frozen -> WellFormed(batch)

WorkerSettings == [deepseek : BOOLEAN, key : BOOLEAN, checkpoint : BOOLEAN, local : BOOLEAN,
                   named : BOOLEAN, fixture : BOOLEAN]

\* The settings, the document file and the proposal file are read here and never again.
BuildRuntime(s, file, batch) ==
  /\ ~proposer.up
  /\ SettingsAccepted(s) /\ DocumentLoads(file) /\ GatewayBuilds(s, batch)
  /\ proposer' = [up |-> TRUE, gateway |-> GatewayOf(s),
                  document |-> [fragments |-> Parsed(file.paragraphs), intact |-> file.intact],
                  fixture |-> IF GatewayOf(s) = Frozen THEN batch ELSE NoAnswer, job |-> {}]
  /\ UNCHANGED <<deliveries, outcome>>

Stops ==
  /\ proposer.up
  /\ proposer' = Down
  /\ UNCHANGED <<deliveries, outcome>>

\* The relay may send a job again; at most one message waits.
Deliver(j) ==
  /\ deliveries = <<>>
  /\ deliveries' = <<j>>
  /\ UNCHANGED <<proposer, outcome>>

\* run_once up to the pipeline: the message is gone from the queue, and a run that
\* has its result is answered by doing nothing.
RunOnce ==
  /\ proposer.up /\ proposer.job = {} /\ deliveries # <<>>
  /\ deliveries' = Tail(deliveries)
  /\ proposer' = IF outcome[deliveries[1]].kind = "RESULT" THEN proposer
                 ELSE [proposer EXCEPT !.job = {deliveries[1]}]
  /\ UNCHANGED outcome

Propose(reply) ==
  \E j \in proposer.job :
    /\ outcome' = [outcome EXCEPT ![j] = Pipeline(reply, j)]
    /\ proposer' = [proposer EXCEPT !.job = {}]
    /\ UNCHANGED deliveries

GatewayNext ==
  \/ \E s \in WorkerSettings, f \in DocumentFiles, b \in Batches : BuildRuntime(s, f, b)
  \/ Stops
  \/ \E j \in Jobs : Deliver(j)
  \/ RunOnce
  \/ \E reply \in Batches : Propose(reply)

GatewaySpec == GatewayInit /\ [][GatewayNext]_gatewayVars

-----------------------------------------------------------------------------
(* Properties. *)

Results == {outcome[j] : j \in {i \in Jobs : outcome[i].kind = "RESULT"}}

\* Whatever a model answered and whenever the worker was restarted with another
\* document, fixture or gateway: a result quotes only fragments of the document it
\* names, which no pattern blocks; it names the producer and model that were asked;
\* every candidate can be handed on and has its section of the dossier, with the
\* same evidence; no two opportunities share a candidate; and equal reproducibility
\* hashes mean equal evidence.
ProposalsAreTraceable ==
  \A r \in Results :
    /\ Detections(r.fragments) = {}
    /\ r.producer = r.asked /\ r.model = ModelOf[r.asked]
    /\ \A e \in Range(r.evidence) : e.fragment \in Range(r.fragments) /\ e.quote = e.content
    /\ \A c \in Range(r.candidates) :
         /\ HandoffReady(c, r.evidence)
         /\ \E s \in Range(r.sections) : s.candidate = c.id /\ s.keys = c.keys
    /\ \A other \in Results :
         /\ r.opportunity # other.opportunity =>
              \A c \in Range(r.candidates), d \in Range(other.candidates) : c.id # d.id
         /\ r.hash = other.hash => r.evidence = other.evidence

===============================================================================
