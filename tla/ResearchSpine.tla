---------------------------- MODULE ResearchSpine ----------------------------
(***************************************************************************)
(* The persistent research spine: ResearchRepository and                   *)
(* TEDResearchRepository over research_runs, outbox_events, dossiers and   *)
(* the canonical ledger, the OutboxPublisher that the API handlers and the *)
(* worker loop both call, the Valkey list, and ResearchWorker.process.     *)
(*                                                                         *)
(* Every repository method is one transaction and one step.  Between them  *)
(* a publisher or a worker can be overtaken or die: pending_outbox takes   *)
(* no lock, so two publishers may send the same request, and process       *)
(* decides on a run state it read before several later transactions.       *)
(*                                                                         *)
(* A fact stands for a claim fingerprint.  Source objects and evidence are *)
(* written by idempotent upserts in the completing transaction and are     *)
(* left out.                                                               *)
(***************************************************************************)
EXTENDS Naturals, Sequences, FiniteSets, SequencesExt

CONSTANTS Runs,            \* research runs
          TedRuns,         \* those of job kind TED_PROCUREMENT; the others are World Bank
          Facts, FactsOf,  \* claim fingerprints, and those each run's source yields
          Publishers,      \* API handlers and worker loops calling publish_pending
          Workers,         \* ResearchWorker processes
          NoRun, NoEvent,
          PublishLimit,    \* refused sends after which an outbox event is FAILED (5)
          MaxOutages,      \* bound: refused sends in a behaviour
          MaxCrashes       \* bound: publishers and workers that die

ASSUME SpineAssumption ==
  /\ TedRuns \subseteq Runs
  /\ FactsOf \in [Runs -> SUBSET Facts]
  /\ PublishLimit \in Nat \ {0}
  /\ NoRun \notin Runs

VARIABLES
  \* tenant_private.research_runs and dossiers
  run, cited, dossier,
  \* axignal_global: the outbox, the candidate and canonical claims, and the
  \* claim_state_events of each
  outbox, candidate, canon, admissions,
  \* the source registry's admission gates, as one switch
  sourceOpen,
  \* Valkey: the job list, and the runs announced on the event stream
  queue, announced,
  \* the publishers
  pub,
  \* workers: position, job in hand
  wpc, job,
  outages, crashes,
  dropped     \* history: runs whose job was lost with a worker that died

runVars == <<run, cited, dossier>>
relayVars == <<outbox, pub>>
ledgerVars == <<candidate, canon, admissions>>
workVars == <<wpc, job>>
faultVars == <<outages, crashes, dropped>>
vars == <<runVars, relayVars, ledgerVars, sourceOpen, queue, announced, workVars, faultVars>>

RunStates == {"ABSENT", "QUEUED", "RETRIEVING", "PROPOSING", "ADMISSION_PENDING",
              "COMPLETED", "FAILED"}
Events == {"requested", "completed"} \X Runs

INSTANCE OutboxRelay

Init ==
  /\ run = [r \in Runs |-> "ABSENT"]
  /\ cited = [r \in Runs |-> {}]
  /\ dossier = [r \in Runs |-> FALSE]
  /\ RelayInit
  /\ candidate = [f \in Facts |-> "ABSENT"]
  /\ canon = {}
  /\ admissions = [f \in Facts |-> 0]
  /\ sourceOpen = TRUE
  /\ queue = <<>>
  /\ announced = {}
  /\ wpc = [w \in Workers |-> "IDLE"]
  /\ job = [w \in Workers |-> NoRun]
  /\ outages = 0
  /\ crashes = 0
  /\ dropped = {}

-----------------------------------------------------------------------------
(* Requests and the outbox. *)

\* create_run, create_ted_run: the run and its outbox event in one transaction.
CreateRun(r) ==
  /\ run[r] = "ABSENT"
  /\ run' = [run EXCEPT ![r] = "QUEUED"]
  /\ outbox' = [outbox EXCEPT ![<<"requested", r>>] = NewRow]
  /\ UNCHANGED <<cited, dossier, pub, ledgerVars, sourceOpen, queue, announced, workVars, faultVars>>

\* An operator closes or reopens a source (kill switch, admission state, rights).
SwitchSource ==
  /\ sourceOpen' = ~sourceOpen
  /\ UNCHANGED <<runVars, relayVars, ledgerVars, queue, announced, workVars, faultVars>>

\* enqueue (RPUSH) for a request, publish_event (XADD) for a completion.
Deliver(p, e) ==
  /\ Send(p, e)
  /\ queue' = IF e[1] = "requested" THEN Append(queue, e[2]) ELSE queue
  /\ announced' = IF e[1] = "completed" THEN announced \cup {e[2]} ELSE announced
  /\ UNCHANGED <<runVars, ledgerVars, sourceOpen, workVars, faultVars>>

DeliveryRefused(p, e) ==
  /\ outages < MaxOutages
  /\ SendRefused(p, e)
  /\ outages' = outages + 1
  /\ UNCHANGED <<runVars, ledgerVars, sourceOpen, queue, announced, workVars, crashes, dropped>>

-----------------------------------------------------------------------------
(* ResearchWorker. *)

Goto(w, step) == wpc' = [wpc EXCEPT ![w] = step]

\* BLPOP: the job leaves the list for good.
Dequeue(w) ==
  /\ wpc[w] = "IDLE"
  /\ queue # <<>>
  /\ queue' = Tail(queue)
  /\ job' = [job EXCEPT ![w] = Head(queue)]
  /\ Goto(w, "INSPECT")
  /\ UNCHANGED <<runVars, relayVars, ledgerVars, sourceOpen, announced, faultVars>>

\* The head of process: a duplicate of a COMPLETED run is ignored, a closed
\* source fails the run; both on what the row and the registry say now.
Inspect(w) ==
  /\ wpc[w] = "INSPECT"
  /\ \/ /\ run[job[w]] = "COMPLETED"
        /\ Goto(w, "IDLE")
        /\ job' = [job EXCEPT ![w] = NoRun]
     \/ /\ run[job[w]] # "COMPLETED"
        /\ Goto(w, IF sourceOpen THEN "RETRIEVE" ELSE "FAIL")
        /\ UNCHANGED job
  /\ UNCHANGED <<runVars, relayVars, ledgerVars, sourceOpen, queue, announced, faultVars>>

\* transition_run: an UPDATE without a condition on the state it replaces.
Transition(w, step, state, next) ==
  /\ wpc[w] = step
  /\ run' = [run EXCEPT ![job[w]] = state]
  /\ Goto(w, next)
  /\ UNCHANGED <<cited, dossier, relayVars, ledgerVars, sourceOpen, queue, announced, job, faultVars>>

Retrieve(w) == Transition(w, "RETRIEVE", "RETRIEVING", "FETCH")

\* The connector answers or raises SourceRetrievalError.
Fetch(w) ==
  /\ wpc[w] = "FETCH"
  /\ \E next \in {"PROPOSE", "FAIL"} : Goto(w, next)
  /\ UNCHANGED <<runVars, relayVars, ledgerVars, sourceOpen, queue, announced, job, faultVars>>

Propose(w) == Transition(w, "PROPOSE", "PROPOSING", "AWAIT")

\* build_ted_search_artifacts raises for a page outside the admitted profile; the
\* World Bank artifacts are built without a check.
BuildRefused(w) ==
  /\ wpc[w] = "AWAIT"
  /\ job[w] \in TedRuns
  /\ Goto(w, "FAIL")
  /\ UNCHANGED <<runVars, relayVars, ledgerVars, sourceOpen, queue, announced, job, faultVars>>

\* [mutant] COMPLETED before the completing transaction.
AwaitAsCompleted(w) == Transition(w, "AWAIT", "COMPLETED", "COMPLETE")

Await(w) == Transition(w, "AWAIT", "ADMISSION_PENDING", "COMPLETE")

\* [mutant] A claim_state_event for every admission, new or not.
CountEveryAdmission(admitted) ==
  [f \in Facts |-> IF f \in admitted THEN admissions[f] + 1 ELSE admissions[f]]

\* _admit_candidate: INSERT ... ON CONFLICT (fingerprint) DO NOTHING, and a state
\* event only for a claim that was created.
CountAdmissions(admitted) ==
  [f \in Facts |-> IF f \in admitted \ canon THEN admissions[f] + 1 ELSE admissions[f]]

\* Every candidate of the run is judged anew, whatever an earlier run made of it.
Judged(r, admitted) ==
  [f \in Facts |-> IF f \in admitted THEN "ADMITTED"
                   ELSE IF f \in FactsOf[r] THEN "REJECTED"
                   ELSE candidate[f]]

\* [mutant] A completion that finds its run's dossier and goes on without it.
NoSecondDossierCheck(r) == TRUE

\* dossiers_one_per_research_run_idx.
DossierSlotFree(r) == ~dossier[r]

\* The first half of a completion: candidates, the admission batch, the ledger.
Admit(r, admitted) ==
  /\ canon' = canon \cup admitted
  /\ admissions' = CountAdmissions(admitted)
  /\ candidate' = Judged(r, admitted)

\* The transaction ends with the run and the event that announces it.
MarkCompleted(r) ==
  /\ run' = [run EXCEPT ![r] = "COMPLETED"]
  /\ outbox' = [outbox EXCEPT ![<<"completed", r>>] = NewRow]

\* The second half: dossier, evidence links, the run and its completion event.
WriteOutput(r, admitted) ==
  /\ dossier' = [dossier EXCEPT ![r] = TRUE]
  /\ cited' = [cited EXCEPT ![r] = admitted]
  /\ MarkCompleted(r)

\* complete_world_bank_run, complete_ted_run: the whole of a run's output, in one
\* transaction, for the facts the deterministic gates admit.
CompleteRun(w, admitted) ==
  LET r == job[w] IN
  /\ wpc[w] = "COMPLETE"
  /\ ~(r \in TedRuns /\ run[r] = "COMPLETED")
  /\ DossierSlotFree(r)
  /\ admitted \subseteq FactsOf[r]
  /\ Admit(r, admitted)
  /\ WriteOutput(r, admitted)
  /\ Goto(w, "IDLE")
  /\ job' = [job EXCEPT ![w] = NoRun]
  /\ UNCHANGED <<pub, sourceOpen, queue, announced, faultVars>>

\* complete_ted_run's replay answer; a second World Bank completion has none.
ReplayTedRun(w) ==
  /\ wpc[w] = "COMPLETE"
  /\ job[w] \in TedRuns /\ run[job[w]] = "COMPLETED"
  /\ Goto(w, "IDLE")
  /\ job' = [job EXCEPT ![w] = NoRun]
  /\ UNCHANGED <<runVars, relayVars, ledgerVars, sourceOpen, queue, announced, faultVars>>

\* The second dossier of a run violates the index.  process catches neither this
\* nor any other psycopg error: the transaction rolls back, the worker process
\* dies and is restarted.
SecondDossier(w) ==
  /\ wpc[w] = "COMPLETE"
  /\ ~(job[w] \in TedRuns /\ run[job[w]] = "COMPLETED")
  /\ ~DossierSlotFree(job[w])
  /\ Goto(w, "IDLE")
  /\ job' = [job EXCEPT ![w] = NoRun]
  /\ UNCHANGED <<runVars, relayVars, ledgerVars, sourceOpen, queue, announced, faultVars>>

\* fail_run: again without a condition on the state.
FailRun(w) ==
  /\ wpc[w] = "FAIL"
  /\ run' = [run EXCEPT ![job[w]] = "FAILED"]
  /\ Goto(w, "IDLE")
  /\ job' = [job EXCEPT ![w] = NoRun]
  /\ UNCHANGED <<cited, dossier, relayVars, ledgerVars, sourceOpen, queue, announced, faultVars>>

-----------------------------------------------------------------------------
(* Faults. *)

PublisherLost(p) ==
  /\ crashes < MaxCrashes
  /\ PublisherDies(p)
  /\ crashes' = crashes + 1
  /\ UNCHANGED <<runVars, ledgerVars, sourceOpen, queue, announced, workVars, outages, dropped>>

WorkerDies(w) ==
  /\ crashes < MaxCrashes /\ wpc[w] # "IDLE"
  /\ crashes' = crashes + 1
  /\ dropped' = dropped \cup {job[w]}
  /\ Goto(w, "IDLE")
  /\ job' = [job EXCEPT ![w] = NoRun]
  /\ UNCHANGED <<runVars, relayVars, ledgerVars, sourceOpen, queue, announced, outages>>

-----------------------------------------------------------------------------

Publish(p) ==
  \/ /\ SelectPending(p) \/ MarkOutbox(p)
     /\ UNCHANGED <<runVars, ledgerVars, sourceOpen, queue, announced, workVars, faultVars>>
  \/ \E e \in pub[p].batch : Deliver(p, e) \/ DeliveryRefused(p, e)

Work(w) ==
  \/ Dequeue(w) \/ Inspect(w) \/ Retrieve(w) \/ Fetch(w) \/ Propose(w)
  \/ BuildRefused(w) \/ Await(w)
  \/ \E admitted \in SUBSET Facts : CompleteRun(w, admitted)
  \/ ReplayTedRun(w) \/ SecondDossier(w) \/ FailRun(w)

Next ==
  \/ \E r \in Runs : CreateRun(r)
  \/ SwitchSource
  \/ \E p \in Publishers : Publish(p) \/ PublisherLost(p)
  \/ \E w \in Workers : Work(w) \/ WorkerDies(w)

Spec == Init /\ [][Next]_vars

-----------------------------------------------------------------------------
(* Properties. *)

\* The rows, the outbox, the Valkey list and the workers have their types.
TypeOK ==
  /\ run \in [Runs -> RunStates]
  /\ cited \in [Runs -> SUBSET Facts]
  /\ dossier \in [Runs -> BOOLEAN]
  /\ RelayTypeOK
  /\ candidate \in [Facts -> {"ABSENT", "ADMITTED", "REJECTED"}]
  /\ canon \in SUBSET Facts
  /\ admissions \in [Facts -> Nat]
  /\ sourceOpen \in BOOLEAN
  /\ queue \in Seq(Runs)
  /\ announced \in SUBSET Runs
  /\ wpc \in [Workers -> {"IDLE", "INSPECT", "RETRIEVE", "FETCH", "PROPOSE", "AWAIT", "COMPLETE", "FAIL"}]
  /\ job \in [Workers -> Runs \cup {NoRun}]
  /\ outages \in Nat /\ crashes \in Nat
  /\ dropped \in SUBSET Runs

\* However many runs, duplicates and workers rediscover a fact, the ledger holds
\* it once with one ADMITTED state event, and a candidate marked ADMITTED is there.
LedgerOnce ==
  \A f \in Facts :
    /\ admissions[f] = IF f \in canon THEN 1 ELSE 0
    /\ candidate[f] = "ADMITTED" => f \in canon

\* A run's output is all there or not at all: its dossier, its completion event
\* and, once COMPLETED, only citations of canonical facts.
OutputIsWhole ==
  \A r \in Runs :
    /\ dossier[r] <=> outbox[<<"completed", r>>].status # "ABSENT"
    /\ run[r] = "COMPLETED" => dossier[r]
    /\ cited[r] \subseteq canon
    /\ r \in announced => dossier[r]

\* No dossier is announced twice over: once its completion event was published
\* it is never again open for publication.
CompletionPublishedOnce ==
  [][\A r \in Runs : outbox[<<"completed", r>>].status = "PUBLISHED"
       => outbox'[<<"completed", r>>] = outbox[<<"completed", r>>]]_vars

InHand(r) == \E w \in Workers : wpc[w] # "IDLE" /\ job[w] = r

\* Where a QUEUED run can be: its request is pending, its job is in the list or
\* in a worker's hand - or it is lost, to a worker that died with the job or to an
\* outbox event given up after PublishLimit refused sends.
QueuedIsAccountedFor ==
  \A r \in Runs : run[r] = "QUEUED" =>
    \/ outbox[<<"requested", r>>].status = "PENDING"
    \/ r \in Range(queue)
    \/ InHand(r)
    \/ r \in dropped
    \/ outbox[<<"requested", r>>] = [status |-> "FAILED", attempts |-> PublishLimit]

\* A completed run stays completed: what "the worker is idempotent" asks of
\* duplicate deliveries.
CompletedIsFinal ==
  [][\A r \in Runs : run[r] = "COMPLETED" => run'[r] = "COMPLETED"]_vars
=============================================================================
