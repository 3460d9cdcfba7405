-------------------------- MODULE DocumentAdmission --------------------------
(***************************************************************************)
(* From a document to the claim ledger: the proposal worker, which may     *)
(* only propose, the handoff it leaves, the deterministic admission        *)
(* runtime, which alone writes canonical claims, and the human review of   *)
(* what it would not decide.  The two outboxes between them are            *)
(* OutboxRelay.                                                            *)
(*                                                                         *)
(* A candidate is a candidate_claims row (its fingerprint includes the     *)
(* opportunity), a fact the fingerprint of a canonical claim.  The package *)
(* of a handoff carries the time of its pipeline run, so every execution   *)
(* makes a new package_hash and a new handoff, <<run, n>> for the n-th of  *)
(* a run.  Each also writes one completion event to the general outbox;    *)
(* that event and the job-failure logs follow from what is here.           *)
(*                                                                         *)
(* persist_result and decide read state that they lock only later, if at   *)
(* all, and are two steps each.  In its second step decide holds the       *)
(* handoff and the run row FOR UPDATE: who writes them must wait.          *)
(***************************************************************************)
EXTENDS Naturals, Sequences, FiniteSets

CONSTANTS
  Runs, NoRun,
  Candidates, CandidatesOf,      \* what the document can yield for each run
  Facts, FactOf,                 \* the fact a candidate rederives to
  InProfile, Exact, Adverse,     \* candidates that are facts of the profile, that
                                 \* equal the rederived value, that are adverse to it
  NoHandoff,
  Publishers, Workers, Runtimes,
  Reviewers, NoReviewer, Whys, NoWhy,
  PublishLimit,
  MaxHandoffs,                   \* bound: handoffs of a run
  MaxOutages, MaxCrashes         \* bounds: refused sends; processes that die

ASSUME AdmissionAssumption ==
  /\ CandidatesOf \in [Runs -> SUBSET Candidates]
  /\ FactOf \in [Candidates -> Facts]
  /\ InProfile \subseteq Candidates /\ Exact \subseteq Candidates /\ Adverse \subseteq Candidates
  /\ PublishLimit \in Nat \ {0} /\ MaxHandoffs \in Nat
  /\ NoRun \notin Runs /\ NoHandoff \notin Runs \X (1..MaxHandoffs) /\ NoReviewer \notin Reviewers

Handoffs == Runs \X (1..MaxHandoffs)
Cases == Handoffs \X Candidates
RunOf(k) == k[1][1]

VARIABLES
  \* research_runs: state, canonical_claim_ids, admission_handoff_id; the dossier's status
  run, claims, link, dossier,
  \* admission_handoffs with their packages, and admission_decisions
  handoff, package, decision,
  \* candidate_claims, canonical_claims, claim_state_events
  candidate, canon, admissions,
  sourceOpen,
  \* the two outboxes, their publishers and queues
  proposalOutbox, proposalPub, proposalQueue,
  admissionOutbox, admissionPub, admissionQueue,
  worker, runtime,               \* processes: position, job and, for a worker, its package
  review, context,
  outages, crashes

P == INSTANCE OutboxRelay WITH Events <- Runs, NoEvent <- NoRun,
                               outbox <- proposalOutbox, pub <- proposalPub
A == INSTANCE OutboxRelay WITH Events <- Handoffs, NoEvent <- NoHandoff,
                               outbox <- admissionOutbox, pub <- admissionPub
INSTANCE HumanReview

runVars == <<run, claims, link, dossier>>
handoffVars == <<handoff, package, decision>>
ledgerVars == <<candidate, canon, admissions>>
proposalVars == <<proposalOutbox, proposalPub, proposalQueue>>
admissionVars == <<admissionOutbox, admissionPub, admissionQueue>>
reviewVars == <<review, context>>
faultVars == <<outages, crashes>>
vars == <<runVars, handoffVars, ledgerVars, sourceOpen, proposalVars, admissionVars,
          worker, runtime, reviewVars, faultVars>>

IdleWorker == [at |-> "IDLE", job |-> NoRun, package |-> {}]
IdleRuntime == [at |-> "IDLE", job |-> NoHandoff]

Init ==
  /\ run = [r \in Runs |-> "ABSENT"]
  /\ claims = [r \in Runs |-> {}]
  /\ link = [r \in Runs |-> NoHandoff]
  /\ dossier = [r \in Runs |-> "ABSENT"]
  /\ handoff = [h \in Handoffs |-> "ABSENT"]
  /\ package = [h \in Handoffs |-> {}]
  /\ decision = [k \in Cases |-> "NONE"]
  /\ candidate = [c \in Candidates |-> "ABSENT"]
  /\ canon = {}
  /\ admissions = [f \in Facts |-> 0]
  /\ sourceOpen = TRUE
  /\ P!RelayInit /\ proposalQueue = <<>>
  /\ A!RelayInit /\ admissionQueue = <<>>
  /\ worker = [w \in Workers |-> IdleWorker]
  /\ runtime = [m \in Runtimes |-> IdleRuntime]
  /\ ReviewInit
  /\ outages = 0 /\ crashes = 0

\* Row locks of a decide transaction that has begun to write.
HandoffFree(h) == \A m \in Runtimes : runtime[m] # [at |-> "DECIDE", job |-> h]
RunFree(r) == \A h \in Handoffs : h[1] = r => HandoffFree(h)

-----------------------------------------------------------------------------
(* Requests and outboxes. *)

CreateRun(r) ==
  /\ run[r] = "ABSENT"
  /\ run' = [run EXCEPT ![r] = "QUEUED"]
  /\ proposalOutbox' = [proposalOutbox EXCEPT ![r] = P!NewRow]
  /\ UNCHANGED <<claims, link, dossier, handoffVars, ledgerVars, sourceOpen, proposalPub, proposalQueue,
                 admissionVars, worker, runtime, reviewVars, faultVars>>

SwitchSource ==
  /\ sourceOpen' = ~sourceOpen
  /\ UNCHANGED <<runVars, handoffVars, ledgerVars, proposalVars, admissionVars, worker, runtime,
                 reviewVars, faultVars>>

Refusal == outages < MaxOutages /\ outages' = outages + 1 /\ UNCHANGED crashes
Death == crashes < MaxCrashes /\ crashes' = crashes + 1 /\ UNCHANGED outages

PublishProposals(p) ==
  /\ \/ /\ P!SelectPending(p) \/ P!MarkOutbox(p)
        /\ UNCHANGED <<proposalQueue, faultVars>>
     \/ \E r \in proposalPub[p].batch :
          \/ P!Send(p, r) /\ proposalQueue' = Append(proposalQueue, r) /\ UNCHANGED faultVars
          \/ P!SendRefused(p, r) /\ Refusal /\ UNCHANGED proposalQueue
     \/ P!PublisherDies(p) /\ Death /\ UNCHANGED proposalQueue
  /\ UNCHANGED <<runVars, handoffVars, ledgerVars, sourceOpen, admissionVars, worker, runtime, reviewVars>>

PublishHandoffs(p) ==
  /\ \/ /\ A!SelectPending(p) \/ A!MarkOutbox(p)
        /\ UNCHANGED <<admissionQueue, faultVars>>
     \/ \E h \in admissionPub[p].batch :
          \/ A!Send(p, h) /\ admissionQueue' = Append(admissionQueue, h) /\ UNCHANGED faultVars
          \/ A!SendRefused(p, h) /\ Refusal /\ UNCHANGED admissionQueue
     \/ A!PublisherDies(p) /\ Death /\ UNCHANGED admissionQueue
  /\ UNCHANGED <<runVars, handoffVars, ledgerVars, sourceOpen, proposalVars, worker, runtime, reviewVars>>

-----------------------------------------------------------------------------
(* PersistentDocumentProposalWorker. *)

workerFrame == <<handoffVars, ledgerVars, sourceOpen, proposalOutbox, proposalPub, admissionVars,
                 runtime, reviewVars, faultVars>>

DequeueProposal(w) ==
  /\ worker[w].at = "IDLE"
  /\ proposalQueue # <<>>
  /\ worker' = [worker EXCEPT ![w].at = "INSPECT", ![w].job = Head(proposalQueue)]
  /\ proposalQueue' = Tail(proposalQueue)
  /\ UNCHANGED <<runVars, workerFrame>>

\* The head of process.  Only COMPLETED_PROVISIONAL counts as done already.
InspectRun(w) ==
  /\ worker[w].at = "INSPECT"
  /\ worker' = [worker EXCEPT ![w] =
       IF run[@.job] = "COMPLETED_PROVISIONAL" THEN IdleWorker
       ELSE [@ EXCEPT !.at = IF sourceOpen THEN "RETRIEVING" ELSE "FAILED"]]
  /\ UNCHANGED <<runVars, proposalQueue, workerFrame>>

\* The states process writes, each in a transaction of its own, and what follows.
Stage == [RETRIEVING |-> "DOCUMENT_PARSING", DOCUMENT_PARSING |-> "SECURITY_SCANNING",
          SECURITY_SCANNING |-> "PROPOSING", PROPOSING |-> "EXECUTE",
          EVIDENCE_BINDING |-> "HANDOFF_PENDING", HANDOFF_PENDING |-> "PERSIST"]

\* transition_run
TransitionRun(w) ==
  /\ worker[w].at \in DOMAIN Stage
  /\ RunFree(worker[w].job)
  /\ run' = [run EXCEPT ![worker[w].job] = worker[w].at]
  /\ worker' = [worker EXCEPT ![w].at = Stage[@]]
  /\ UNCHANGED <<claims, link, dossier, proposalQueue, workerFrame>>

\* What the model may propose of a document: at least one claim, each bound to
\* fragments of it.
Proposals(r) == SUBSET CandidatesOf[r] \ {{}}

\* How process answers the pipeline's exceptions: an unsafe document, or any other.
Failures == {"QUARANTINED", "FAILED"}

\* The pipeline proposes candidates, detects an unsafe document, or fails.
Execute(w) ==
  /\ worker[w].at = "EXECUTE"
  /\ \/ \E proposed \in Proposals(worker[w].job) :
          worker' = [worker EXCEPT ![w].at = "EVIDENCE_BINDING", ![w].package = proposed]
     \/ \E failure \in Failures : worker' = [worker EXCEPT ![w].at = failure]
  /\ UNCHANGED <<runVars, proposalQueue, workerFrame>>

\* persist_result reads the run without a lock and answers a replay.
AlreadyPersisted(r) == run[r] = "COMPLETED_PROVISIONAL"

BeginPersist(w) ==
  /\ worker[w].at = "PERSIST"
  /\ worker' = [worker EXCEPT ![w] = IF AlreadyPersisted(@.job) THEN IdleWorker
                                     ELSE [@ EXCEPT !.at = "WRITE"]]
  /\ UNCHANGED <<runVars, proposalQueue, workerFrame>>

\* The upserts of an execution's source object, fragments, evidence and candidates:
\* a candidate that exists keeps the state it has.
Upserted(pack) ==
  [c \in Candidates |-> IF c \in pack /\ candidate[c] = "ABSENT" THEN "ADMISSION_QUEUED" ELSE candidate[c]]

\* A dossier that exists is kept as it is.
DossierOf(r) == IF dossier[r] = "ABSENT" THEN "TRACEABLE_PROVISIONAL" ELSE dossier[r]

HandoffsOf(r) == {h \in Handoffs : h[1] = r /\ handoff[h] # "ABSENT"}

\* The rest of persist_result: new candidates, the handoff (whose trigger writes
\* the admission outbox), the dossier if there is none, and the run.
PersistResult(w) ==
  LET r == worker[w].job
      h == <<r, Cardinality(HandoffsOf(r)) + 1>>
  IN
  /\ worker[w].at = "WRITE"
  /\ h \in Handoffs
  /\ RunFree(r)
  /\ candidate' = Upserted(worker[w].package)
  /\ handoff' = [handoff EXCEPT ![h] = "PENDING"]
  /\ package' = [package EXCEPT ![h] = worker[w].package]
  /\ admissionOutbox' = [admissionOutbox EXCEPT ![h] = A!NewRow]
  /\ dossier' = [dossier EXCEPT ![r] = DossierOf(r)]
  /\ run' = [run EXCEPT ![r] = "COMPLETED_PROVISIONAL"]
  /\ claims' = [claims EXCEPT ![r] = {}]
  /\ link' = [link EXCEPT ![r] = h]
  /\ worker' = [worker EXCEPT ![w] = IdleWorker]
  /\ UNCHANGED <<decision, canon, admissions, sourceOpen, proposalVars, admissionPub, admissionQueue,
                 runtime, reviewVars, faultVars>>

\* DocumentProposalRepository.record_failure: whatever state the run is in.
RecordProposalFailure(w) ==
  /\ worker[w].at \in Failures
  /\ RunFree(worker[w].job)
  /\ run' = [run EXCEPT ![worker[w].job] = worker[w].at]
  /\ worker' = [worker EXCEPT ![w] = IdleWorker]
  /\ UNCHANGED <<claims, link, dossier, proposalQueue, workerFrame>>

WorkerDies(w) ==
  /\ worker[w].at # "IDLE"
  /\ Death
  /\ worker' = [worker EXCEPT ![w] = IdleWorker]
  /\ UNCHANGED <<runVars, handoffVars, ledgerVars, sourceOpen, proposalVars, admissionVars, runtime, reviewVars>>

-----------------------------------------------------------------------------
(* DeterministicAdmissionRuntime. *)

runtimeFrame == <<ledgerVars, sourceOpen, proposalVars, admissionOutbox, admissionPub, worker, reviewVars>>

DequeueHandoff(m) ==
  /\ runtime[m].at = "IDLE"
  /\ admissionQueue # <<>>
  /\ runtime' = [runtime EXCEPT ![m] = [at |-> "LOAD", job |-> Head(admissionQueue)]]
  /\ admissionQueue' = Tail(admissionQueue)
  /\ UNCHANGED <<runVars, handoffVars, runtimeFrame, faultVars>>

\* decide on a handoff that is not PENDING: a replay if it has decisions, an
\* integrity error if it has none.
ReplayDecision(m) ==
  /\ runtime[m].at = "LOAD"
  /\ HandoffFree(runtime[m].job)
  /\ handoff[runtime[m].job] # "PENDING"
  /\ runtime' = [runtime EXCEPT ![m] =
       IF \E c \in Candidates : decision[<<@.job, c>>] # "NONE" THEN IdleRuntime
       ELSE [@ EXCEPT !.at = "QUARANTINED"]]
  /\ UNCHANGED <<runVars, handoffVars, runtimeFrame, admissionQueue, faultVars>>

\* [mutant] _load_run without the comparison of admission_handoff_id.
AnyLink(r, h) == TRUE

LinkMatches(r, h) == link[r] = h

\* The source is still admitted, its kill switch off, its rights still granted.
SourceAdmitted == sourceOpen

CandidatesQueued(h) == \A c \in package[h] : candidate[c] = "ADMISSION_QUEUED"

\* The gates of decide on a PENDING handoff, up to its writes: the run's handoff
\* reference, the current source, the candidates.  What the stored package and
\* records say beyond that may differ too; a failed gate rolls back.
Validate(m) ==
  LET h == runtime[m].job IN
  /\ runtime[m].at = "LOAD"
  /\ HandoffFree(h) /\ RunFree(h[1])
  /\ handoff[h] = "PENDING"
  /\ \E integrity \in BOOLEAN :
       runtime' = [runtime EXCEPT ![m].at =
         IF ~LinkMatches(h[1], h) \/ ~integrity THEN "QUARANTINED"
         ELSE IF ~SourceAdmitted THEN "REJECTED"
         ELSE IF ~CandidatesQueued(h) THEN "QUARANTINED"
         ELSE "DECIDE"]
  /\ UNCHANGED <<runVars, handoffVars, runtimeFrame, admissionQueue, faultVars>>

\* _evaluate_candidate
Evaluate(c, pack) ==
  IF c \notin InProfile THEN "HUMAN_REVIEW_REQUIRED"
  ELSE IF c \notin Exact THEN "REJECTED"
  ELSE IF \E d \in pack \ {c} : d \in Adverse THEN "CONTESTED"
  ELSE "ADMITTED"

Admissible(pack) == {c \in pack : Evaluate(c, pack) = "ADMITTED"}

\* The candidate of a package that comes to a fact first.
First(f, pack) == CHOOSE c \in Admissible(pack) : FactOf[c] = f

\* [mutant] _write_canonical that never reports a duplicate.
AlwaysInserts(c, pack) == TRUE

\* _write_canonical inserts the fingerprint unless it is there, from an earlier
\* decision or from an earlier candidate of this package.
Inserts(c, pack) ==
  /\ FactOf[c] \notin canon
  /\ c = First(FactOf[c], pack)

\* The facts that a decision on a package adds to the ledger, and those it admits at all.
Inserted(pack) == {FactOf[c] : c \in {d \in Admissible(pack) : Inserts(d, pack)}}
Admitted(pack) == {FactOf[c] : c \in Admissible(pack)}

\* The outcome written for a candidate of the package.
Outcome(c, pack) ==
  IF c \notin Admissible(pack) THEN Evaluate(c, pack)
  ELSE IF Inserts(c, pack) THEN "ADMITTED_REDERIVED" ELSE "DUPLICATE"

\* [mutant] The trigger reacting to one outcome only.
OpensCaseIfEscalated(outcome) == outcome = "HUMAN_REVIEW_REQUIRED"

OpensCase(outcome) == outcome \in {"HUMAN_REVIEW_REQUIRED", "CONTESTED"}

\* [mutant] The outcome written as the candidate's state.
OutcomeAsState(outcome) == outcome

CandidateState(outcome) == IF outcome \in {"ADMITTED_REDERIVED", "DUPLICATE"} THEN "ADMITTED" ELSE outcome

\* The writes of decide, one transaction with the triggers it fires.
Decide(m) ==
  LET h == runtime[m].job
      r == h[1]
      pack == package[h]
      inserted == Inserted(pack)
      facts == Admitted(pack)
  IN
  /\ runtime[m].at = "DECIDE"
  /\ canon' = canon \cup inserted
  /\ admissions' = [f \in Facts |-> IF f \in inserted THEN admissions[f] + 1 ELSE admissions[f]]
  /\ candidate' = [c \in Candidates |-> IF c \in pack THEN CandidateState(Outcome(c, pack)) ELSE candidate[c]]
  /\ decision' = [k \in Cases |-> IF k[1] = h /\ k[2] \in pack THEN Outcome(k[2], pack) ELSE decision[k]]
  /\ OpenCases({<<h, c>> : c \in {d \in pack : OpensCase(Outcome(d, pack))}})
  /\ handoff' = [handoff EXCEPT ![h] = "CONSUMED"]
  /\ run' = [run EXCEPT ![r] = IF facts = {} THEN "HUMAN_REVIEW_REQUIRED" ELSE "COMPLETED"]
  /\ claims' = [claims EXCEPT ![r] = facts]
  /\ dossier' = [dossier EXCEPT ![r] = IF facts = {} THEN @ ELSE "TRACEABLE_WITH_ADMITTED_FACTS"]
  /\ runtime' = [runtime EXCEPT ![m] = IdleRuntime]
  /\ UNCHANGED <<link, package, sourceOpen, proposalVars, admissionVars, worker, context, faultVars>>

\* AdmissionFailureStoreMixin.record_failure: the handoff if it is still PENDING,
\* the run in any case.
RecordAdmissionFailure(m) ==
  LET h == runtime[m].job IN
  /\ runtime[m].at \in {"REJECTED", "QUARANTINED"}
  /\ HandoffFree(h) /\ RunFree(h[1])
  /\ handoff' = [handoff EXCEPT ![h] = IF @ = "PENDING" THEN runtime[m].at ELSE @]
  /\ run' = [run EXCEPT ![h[1]] = IF runtime[m].at = "REJECTED" THEN "FAILED" ELSE "QUARANTINED"]
  /\ runtime' = [runtime EXCEPT ![m] = IdleRuntime]
  /\ UNCHANGED <<claims, link, dossier, package, decision, runtimeFrame, admissionQueue, faultVars>>

RuntimeDies(m) ==
  /\ runtime[m].at # "IDLE"
  /\ Death
  /\ runtime' = [runtime EXCEPT ![m] = IdleRuntime]
  /\ UNCHANGED <<runVars, handoffVars, runtimeFrame, admissionQueue>>

-----------------------------------------------------------------------------

ReviewStep ==
  /\ \E k \in Cases, v \in Reviewers, why \in Whys :
       \/ RequestMoreEvidence(k, v, why)
       \/ \E action \in Resolutions : Resolve(k, v, action, why)
  /\ UNCHANGED <<runVars, handoffVars, ledgerVars, proposalVars, admissionVars, worker, runtime, faultVars>>

Work(w) ==
  \/ DequeueProposal(w) \/ InspectRun(w) \/ TransitionRun(w) \/ Execute(w)
  \/ BeginPersist(w) \/ PersistResult(w) \/ RecordProposalFailure(w) \/ WorkerDies(w)

Admit(m) ==
  \/ DequeueHandoff(m) \/ ReplayDecision(m) \/ Validate(m) \/ Decide(m)
  \/ RecordAdmissionFailure(m) \/ RuntimeDies(m)

Next ==
  \/ \E r \in Runs : CreateRun(r)
  \/ SwitchSource
  \/ \E p \in Publishers : PublishProposals(p) \/ PublishHandoffs(p)
  \/ \E w \in Workers : Work(w)
  \/ \E m \in Runtimes : Admit(m)
  \/ ReviewStep

Spec == Init /\ [][Next]_vars

-----------------------------------------------------------------------------
(* Properties. *)

\* The rows obey the CHECK constraints of their tables, the processes their loops.
TypeOK ==
  /\ run \in [Runs -> {"ABSENT", "QUEUED", "FAILED", "QUARANTINED", "COMPLETED_PROVISIONAL",
                       "COMPLETED", "HUMAN_REVIEW_REQUIRED"} \cup DOMAIN Stage]
  /\ claims \in [Runs -> SUBSET Facts]
  /\ link \in [Runs -> Handoffs \cup {NoHandoff}]
  /\ dossier \in [Runs -> {"ABSENT", "TRACEABLE_PROVISIONAL", "TRACEABLE_WITH_ADMITTED_FACTS"}]
  /\ handoff \in [Handoffs -> {"ABSENT", "PENDING", "CONSUMED", "REJECTED", "QUARANTINED"}]
  /\ package \in [Handoffs -> SUBSET Candidates]
  /\ decision \in [Cases -> {"NONE", "ADMITTED_REDERIVED", "DUPLICATE", "REJECTED", "CONTESTED",
                             "HUMAN_REVIEW_REQUIRED"}]
  /\ candidate \in [Candidates -> {"ABSENT", "ADMISSION_QUEUED", "ADMITTED", "REJECTED", "CONTESTED",
                                   "HUMAN_REVIEW_REQUIRED"}]
  /\ canon \in SUBSET Facts
  /\ admissions \in [Facts -> Nat]
  /\ sourceOpen \in BOOLEAN
  /\ P!RelayTypeOK /\ proposalQueue \in Seq(Runs)
  /\ A!RelayTypeOK /\ admissionQueue \in Seq(Handoffs)
  /\ worker \in [Workers -> [at : {"IDLE", "INSPECT", "EXECUTE", "PERSIST", "WRITE", "FAILED", "QUARANTINED"}
                                    \cup DOMAIN Stage,
                             job : Runs \cup {NoRun},
                             package : SUBSET Candidates]]
  /\ runtime \in [Runtimes -> [at : {"IDLE", "LOAD", "DECIDE", "REJECTED", "QUARANTINED"},
                               job : Handoffs \cup {NoHandoff}]]
  /\ ReviewTypeOK
  /\ outages \in Nat /\ crashes \in Nat

\* The ledger is what the deterministic decisions made it: each canonical fact was
\* inserted by exactly one decision, with one state event; every other decision to
\* admit it is a DUPLICATE that points at it; an ADMITTED candidate's fact is there.
LedgerTraced ==
  /\ \A f \in Facts :
       LET by(outcome) == {k \in Cases : FactOf[k[2]] = f /\ decision[k] = outcome}
       IN /\ Cardinality(by("ADMITTED_REDERIVED")) = IF f \in canon THEN 1 ELSE 0
          /\ admissions[f] = IF f \in canon THEN 1 ELSE 0
          /\ by("DUPLICATE") # {} => f \in canon
  /\ \A c \in Candidates : candidate[c] = "ADMITTED" => FactOf[c] \in canon

\* A handoff is decided as a whole or not at all: a consumed one has a decision for
\* every candidate of its package, any other has none, and exactly the decisions
\* left to people have a review case.
DecidedWhole ==
  /\ \A h \in Handoffs :
       {c \in Candidates : decision[<<h, c>>] # "NONE"}
         = IF handoff[h] = "CONSUMED" THEN package[h] ELSE {}
  /\ \A k \in Cases :
       review[k].state # "ABSENT" <=> decision[k] \in {"HUMAN_REVIEW_REQUIRED", "CONTESTED"}

FactsAdmittedBy(h) ==
  {FactOf[c] : c \in {d \in Candidates : decision[<<h, d>>] \in {"ADMITTED_REDERIVED", "DUPLICATE"}}}

\* What a run says of its admission is what the handoff it refers to says, however
\* many handoffs duplicate deliveries left behind and in whatever order they are
\* decided: provisional while that handoff waits, and with its facts once decided.
RunAgreesWithHandoff ==
  \A r \in Runs :
    LET h == link[r] IN
    /\ claims[r] \subseteq canon
    /\ run[r] = "COMPLETED_PROVISIONAL" => handoff[h] = "PENDING" /\ claims[r] = {}
    /\ run[r] \in {"COMPLETED", "HUMAN_REVIEW_REQUIRED"} =>
         /\ handoff[h] = "CONSUMED"
         /\ claims[r] = FactsAdmittedBy(h)
         /\ claims[r] # {} <=> run[r] = "COMPLETED"

\* A duplicate queue delivery preserves the artifact counts: a run that was handed
\* over once is not handed over again.
OneHandoffPerRun == \A r \in Runs : Cardinality(HandoffsOf(r)) <= 1
=============================================================================
