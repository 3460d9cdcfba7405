------------------------- MODULE ResearchSpineProofs -------------------------
(***************************************************************************)
(* Theorems about ResearchSpine, for every set of runs, facts, publishers  *)
(* and workers, every publish limit and any number of outages and crashes. *)
(***************************************************************************)
EXTENDS ResearchSpine, SequenceTheorems, TLAPS

USE DEF runVars, relayVars, ledgerVars, workVars, faultVars

-----------------------------------------------------------------------------
(* Types. *)

\* A worker that is past the list has a run in hand.
HandsFull == \A w \in Workers : wpc[w] # "IDLE" => job[w] \in Runs

Typed == TypeOK /\ HandsFull

LEMMA InitTyped == Init => Typed
<1> SUFFICES ASSUME Init PROVE Typed
  OBVIOUS
<1>1. RelayTypeOK
  BY DEF Init, RelayInit, RelayTypeOK, NoRow, Idle
<1>2. QED
  BY <1>1 DEF Init, Typed, TypeOK, HandsFull, RunStates

\* The loop of a publisher: a select, a send or a refusal, a mark, a death.
LEMMA RelayTyped ==
  ASSUME RelayTypeOK, NEW p \in Publishers,
         \/ SelectPending(p) \/ MarkOutbox(p) \/ PublisherDies(p)
         \/ \E e \in pub[p].batch : Send(p, e) \/ SendRefused(p, e)
  PROVE  RelayTypeOK'
<1> USE DEF RelayTypeOK
<1>1. CASE SelectPending(p)
  BY <1>1 DEF SelectPending, PendingOutbox
<1>2. ASSUME NEW e \in pub[p].batch, NEW at \in {"SENT", "REFUSED"}, Take(p, e, at)
      PROVE  RelayTypeOK'
  BY <1>2 DEF Take
<1>3. CASE MarkOutbox(p)
  <2>1. pub[p].sending \in Events
    BY <1>3 DEF MarkOutbox
  <2>2. outbox' \in [Events -> [status : {"ABSENT", "PENDING", "PUBLISHED", "FAILED"}, attempts : Nat]]
    BY <1>3, <2>1, SpineAssumption DEF MarkOutbox, Published, Refused
  <2>3. pub' \in [Publishers -> [at : {"IDLE", "SEND", "SENT", "REFUSED"},
                                 batch : SUBSET Events, sending : Events \cup {NoEvent}]]
    BY <1>3 DEF MarkOutbox, Idle
  <2>4. \A q \in Publishers : pub'[q].at \in {"SENT", "REFUSED"} => pub'[q].sending \in Events
    BY <1>3 DEF MarkOutbox, Idle
  <2>5. QED
    BY <2>2, <2>3, <2>4
<1>4. CASE PublisherDies(p)
  BY <1>4 DEF PublisherDies, Idle
<1>5. QED
  BY <1>1, <1>2, <1>3, <1>4 DEF Send, SendRefused

LEMMA TypedStep == Typed /\ [Next]_vars => Typed'
<1> SUFFICES ASSUME Typed, [Next]_vars PROVE Typed'
  OBVIOUS
<1> USE DEF Typed, TypeOK, HandsFull
<1>1. ASSUME UNCHANGED relayVars PROVE RelayTypeOK'
  BY <1>1 DEF RelayTypeOK
<1>2. ASSUME NEW r \in Runs, NEW e \in {"requested", "completed"}, UNCHANGED pub,
             outbox' = [outbox EXCEPT ![<<e, r>>] = NewRow]
      PROVE  RelayTypeOK'
  BY <1>2 DEF RelayTypeOK, NewRow
<1>3. CASE \E r \in Runs : CreateRun(r)
  BY <1>2, <1>3 DEF CreateRun, RunStates
<1>4. CASE SwitchSource
  BY <1>1, <1>4 DEF SwitchSource
<1>5. ASSUME NEW p \in Publishers, Publish(p) \/ PublisherLost(p) PROVE Typed'
  <2>1. RelayTypeOK'
    BY <1>5, RelayTyped DEF Publish, PublisherLost, Deliver, DeliveryRefused
  <2>2. ASSUME NEW e \in pub[p].batch, Deliver(p, e) PROVE Typed'
    <3>1. e \in Events
      BY <2>2 DEF RelayTypeOK
    <3>2. queue' \in Seq(Runs) /\ announced' \in SUBSET Runs
      BY <2>2, <3>1, AppendProperties DEF Deliver, Events
    <3>3. QED
      BY <2>1, <2>2, <3>2 DEF Deliver
  <2>3. ASSUME NEW e \in pub[p].batch, DeliveryRefused(p, e) PROVE Typed'
    BY <2>1, <2>3 DEF DeliveryRefused
  <2>4. CASE SelectPending(p) \/ MarkOutbox(p)
    BY <1>5, <2>1, <2>2, <2>3, <2>4 DEF Publish, PublisherLost, PublisherDies, SelectPending, MarkOutbox
  <2>5. CASE PublisherLost(p)
    BY <2>1, <2>5 DEF PublisherLost
  <2>6. QED
    BY <1>5, <2>2, <2>3, <2>4, <2>5 DEF Publish
<1>6. ASSUME NEW w \in Workers, Work(w) \/ WorkerDies(w) PROVE Typed'
  <2>1. CASE Dequeue(w)
    BY <1>1, <2>1, HeadTailProperties DEF Dequeue, Goto
  <2>2. CASE Inspect(w)
    BY <1>1, <2>2 DEF Inspect, Goto
  <2>3. ASSUME NEW step \in {"RETRIEVE", "PROPOSE", "AWAIT"}, NEW state \in RunStates,
               NEW next \in {"FETCH", "AWAIT", "COMPLETE"}, Transition(w, step, state, next)
        PROVE  Typed'
    BY <1>1, <2>3 DEF Transition, Goto
  <2>4. CASE Retrieve(w) \/ Propose(w) \/ Await(w)
    BY <2>3, <2>4 DEF Retrieve, Propose, Await, RunStates
  <2>5. CASE Fetch(w) \/ BuildRefused(w)
    BY <1>1, <2>5 DEF Fetch, BuildRefused, Goto
  <2>6. ASSUME NEW admitted \in SUBSET Facts, CompleteRun(w, admitted) PROVE Typed'
    <3>1. job[w] \in Runs
      BY <2>6 DEF CompleteRun
    <3>2. RelayTypeOK'
      BY <1>2, <2>6, <3>1 DEF CompleteRun, WriteOutput, MarkCompleted
    <3>3. /\ candidate' \in [Facts -> {"ABSENT", "ADMITTED", "REJECTED"}]
          /\ canon' \in SUBSET Facts
          /\ admissions' \in [Facts -> Nat]
      BY <2>6 DEF CompleteRun, Admit, Judged, CountAdmissions
    <3>4. run' \in [Runs -> RunStates] /\ cited' \in [Runs -> SUBSET Facts] /\ dossier' \in [Runs -> BOOLEAN]
      BY <2>6, <3>1 DEF CompleteRun, WriteOutput, MarkCompleted, RunStates
    <3>5. QED
      BY <2>6, <3>2, <3>3, <3>4 DEF CompleteRun, Goto
  <2>7. CASE ReplayTedRun(w) \/ SecondDossier(w)
    BY <1>1, <2>7 DEF ReplayTedRun, SecondDossier, Goto
  <2>8. CASE FailRun(w)
    BY <1>1, <2>8 DEF FailRun, Goto, RunStates
  <2>9. CASE WorkerDies(w)
    BY <1>1, <2>9 DEF WorkerDies, Goto
  <2>10. QED
    BY <1>6, <2>1, <2>2, <2>4, <2>5, <2>6, <2>7, <2>8, <2>9 DEF Work
<1>7. CASE UNCHANGED vars
  BY <1>1, <1>7 DEF vars
<1>8. QED
  BY <1>3, <1>4, <1>5, <1>6, <1>7 DEF Next

\* Every reachable state of the research spine has the types of its tables, outbox, list and
\* processes; in particular a worker past the list has a run in hand.
THEOREM TypeCorrect == Spec => []TypeOK
<1>1. Typed => TypeOK
  BY DEF Typed
<1>2. QED
  BY <1>1, InitTyped, TypedStep, PTL DEF Spec

-----------------------------------------------------------------------------
(* The ledger and the output of a run. *)

\* A publisher sends rows that exist.
BatchesExist == \A p \in Publishers : \A e \in pub[p].batch : outbox[e].status # "ABSENT"

SpineInv == Typed /\ LedgerOnce /\ BatchesExist /\ OutputIsWhole

LEMMA InitSpine == Init => SpineInv
BY InitTyped DEF Init, RelayInit, SpineInv, LedgerOnce, BatchesExist, OutputIsWhole, NoRow, Idle, Events

LEMMA LedgerStep ==
  ASSUME Typed, LedgerOnce, [Next]_vars
  PROVE  LedgerOnce'
<1>1. ASSUME NEW w \in Workers, NEW admitted \in SUBSET Facts, CompleteRun(w, admitted)
      PROVE  LedgerOnce'
  BY <1>1 DEF CompleteRun, Admit, Judged, CountAdmissions, LedgerOnce, Typed, TypeOK
<1>2. CASE UNCHANGED ledgerVars
  BY <1>2 DEF LedgerOnce
<1>3. QED
  BY <1>1, <1>2 DEF Next, vars, CreateRun, SwitchSource, Publish, PublisherLost, Deliver, DeliveryRefused,
     Work, WorkerDies, Dequeue, Inspect, Retrieve, Fetch, Propose, BuildRefused, Await, Transition,
     ReplayTedRun, SecondDossier, FailRun

\* What a step of a publisher does to the rows.
LEMMA RelayKeepsRows ==
  ASSUME Typed, BatchesExist, NEW p \in Publishers, Publish(p) \/ PublisherLost(p)
  PROVE  /\ BatchesExist'
         /\ \A e \in Events : outbox'[e].status = "ABSENT" <=> outbox[e].status = "ABSENT"
<1> USE DEF Typed, TypeOK, RelayTypeOK, BatchesExist
<1>1. CASE SelectPending(p)
  BY <1>1 DEF SelectPending, PendingOutbox
<1>2. ASSUME NEW e \in pub[p].batch, NEW at \in {"SENT", "REFUSED"}, Take(p, e, at)
      PROVE  BatchesExist' /\ UNCHANGED outbox
  BY <1>2 DEF Take
<1>3. CASE MarkOutbox(p)
  <2>1. \A e \in Events : outbox'[e].status = "ABSENT" <=> outbox[e].status = "ABSENT"
    BY <1>3 DEF MarkOutbox, Published, Refused
  <2>2. \A q \in Publishers : pub'[q].batch \subseteq pub[q].batch
    BY <1>3 DEF MarkOutbox, Idle
  <2>3. QED
    BY <2>1, <2>2
<1>4. CASE PublisherDies(p)
  BY <1>4 DEF PublisherDies, Idle
<1>5. QED
  BY <1>1, <1>2, <1>3, <1>4 DEF Publish, PublisherLost, Deliver, DeliveryRefused, Send, SendRefused

LEMMA OutputStep ==
  ASSUME SpineInv, [Next]_vars
  PROVE  BatchesExist' /\ OutputIsWhole'
<1> USE DEF SpineInv, Typed, TypeOK, HandsFull
<1>1. ASSUME NEW r \in Runs, CreateRun(r) PROVE BatchesExist' /\ OutputIsWhole'
  <2>1. BatchesExist'
    BY <1>1 DEF CreateRun, BatchesExist, RelayTypeOK, NewRow
  <2>2. OutputIsWhole'
    BY <1>1 DEF CreateRun, OutputIsWhole, RelayTypeOK, NewRow, Events
  <2>3. QED
    BY <2>1, <2>2
<1>2. ASSUME NEW p \in Publishers, Publish(p) \/ PublisherLost(p) PROVE BatchesExist' /\ OutputIsWhole'
  <2>1. \A e \in Events : outbox'[e].status = "ABSENT" <=> outbox[e].status = "ABSENT"
    BY <1>2, RelayKeepsRows
  <2>2. \A r \in announced' : r \in announced \/ outbox[<<"completed", r>>].status # "ABSENT"
    <3>1. ASSUME NEW e \in pub[p].batch, Deliver(p, e), NEW r \in announced', r \notin announced
          PROVE  outbox[<<"completed", r>>].status # "ABSENT"
      <4>1. e \in Events /\ outbox[e].status # "ABSENT"
        BY <3>1 DEF BatchesExist, RelayTypeOK
      <4>2. e[1] = "completed" /\ r = e[2]
        BY <3>1 DEF Deliver
      <4>3. e = <<"completed", r>>
        BY <4>1, <4>2 DEF Events
      <4>4. QED
        BY <4>1, <4>3
    <3>2. CASE UNCHANGED announced
      BY <3>2
    <3>3. QED
      BY <1>2, <3>1, <3>2 DEF Publish, PublisherLost, DeliveryRefused
  <2>3. UNCHANGED <<run, cited, dossier, canon>>
    BY <1>2 DEF Publish, PublisherLost, Deliver, DeliveryRefused
  <2>4. OutputIsWhole'
    BY <2>1, <2>2, <2>3 DEF OutputIsWhole, Events
  <2>5. QED
    BY <1>2, <2>4, RelayKeepsRows
<1>3. ASSUME NEW w \in Workers, NEW admitted \in SUBSET Facts, CompleteRun(w, admitted)
      PROVE  BatchesExist' /\ OutputIsWhole'
  <2>1. job[w] \in Runs
    BY <1>3 DEF CompleteRun
  <2>2. BatchesExist'
    BY <1>3, <2>1 DEF CompleteRun, WriteOutput, MarkCompleted, BatchesExist, RelayTypeOK, NewRow
  <2>3. OutputIsWhole'
    BY <1>3, <2>1 DEF CompleteRun, Admit, WriteOutput, MarkCompleted, OutputIsWhole, RelayTypeOK, NewRow, Events
  <2>4. QED
    BY <2>2, <2>3
<1>4. ASSUME NEW w \in Workers, NEW state \in RunStates \ {"COMPLETED"},
             run' = [run EXCEPT ![job[w]] = state],
             UNCHANGED <<relayVars, cited, dossier, canon, announced>>
      PROVE  BatchesExist' /\ OutputIsWhole'
  BY <1>4 DEF BatchesExist, OutputIsWhole
<1>5. CASE UNCHANGED <<runVars, relayVars, canon, announced>>
  BY <1>5 DEF BatchesExist, OutputIsWhole
<1>6. QED
  BY <1>1, <1>2, <1>3, <1>4, <1>5 DEF Next, vars, SwitchSource, Work, WorkerDies, Dequeue, Inspect,
     Retrieve, Fetch, Propose, BuildRefused, Await, Transition, ReplayTedRun, SecondDossier, FailRun, RunStates

LEMMA SpineStep == SpineInv /\ [Next]_vars => SpineInv'
BY TypedStep, LedgerStep, OutputStep DEF SpineInv

\* A fact is in the ledger once, with one state event, whichever runs, duplicate jobs and
\* workers rediscover it and wherever they die: _admit_candidate and its unique fingerprint.
THEOREM FactsAreAdmittedOnce == Spec => []LedgerOnce
<1>1. SpineInv => LedgerOnce
  BY DEF SpineInv
<1>2. QED
  BY <1>1, InitSpine, SpineStep, PTL DEF Spec

\* Dossier, completion event and citations of a run appear together, in the one transaction
\* of complete_world_bank_run or complete_ted_run, and are announced only afterwards.
THEOREM OutputAppearsWhole == Spec => []OutputIsWhole
<1>1. SpineInv => OutputIsWhole
  BY DEF SpineInv
<1>2. QED
  BY <1>1, InitSpine, SpineStep, PTL DEF Spec

\* A published completion is never opened again: a second completion of the run, World Bank
\* or TED, finds the dossier of the first, and a late mark finds the row marked.
THEOREM CompletionsAreFinal == Spec => CompletionPublishedOnce
<1> DEFINE Final == \A r \in Runs : outbox[<<"completed", r>>].status = "PUBLISHED"
                      => outbox'[<<"completed", r>>] = outbox[<<"completed", r>>]
<1>1. SpineInv /\ [Next]_vars => [Final]_vars
  <2> SUFFICES ASSUME SpineInv, Next PROVE Final
    BY DEF vars
  <2> USE DEF SpineInv, Typed, TypeOK, HandsFull, RelayTypeOK
  <2>1. ASSUME NEW r \in Runs, CreateRun(r) PROVE Final
    BY <2>1 DEF CreateRun, Events
  <2>2. ASSUME NEW p \in Publishers, Publish(p) \/ PublisherLost(p) PROVE Final
    <3>1. CASE MarkOutbox(p)
      BY <3>1 DEF MarkOutbox, Events
    <3>2. CASE ~MarkOutbox(p)
      BY <2>2, <3>2 DEF Publish, PublisherLost, SelectPending, PublisherDies, Deliver, DeliveryRefused,
         Send, SendRefused, Take
    <3>3. QED
      BY <3>1, <3>2
  <2>3. ASSUME NEW w \in Workers, NEW admitted \in SUBSET Facts, CompleteRun(w, admitted) PROVE Final
    BY <2>3 DEF CompleteRun, DossierSlotFree, WriteOutput, MarkCompleted, OutputIsWhole, Events
  <2>4. CASE UNCHANGED outbox
    BY <2>4
  <2>5. QED
    BY <2>1, <2>2, <2>3, <2>4 DEF Next, SwitchSource, Work, WorkerDies, Dequeue, Inspect,
       Retrieve, Fetch, Propose, BuildRefused, Await, Transition, ReplayTedRun, SecondDossier, FailRun
<1>2. QED
  BY <1>1, InitSpine, SpineStep, PTL DEF Spec, CompletionPublishedOnce

-----------------------------------------------------------------------------
(* Where a queued run is. *)

Request(r) == <<"requested", r>>

OnItsWay(r) == r \in Range(queue) \/ InHand(r) \/ r \in dropped

\* A worker that asked the source has moved its run on, and no step makes it QUEUED again.
StartedRuns ==
  \A w \in Workers : wpc[w] \in {"FETCH", "PROPOSE", "AWAIT", "COMPLETE"} =>
    run[job[w]] \notin {"ABSENT", "QUEUED"}

\* A run has its request row, and a row is given up only at the limit.
RowsAgree ==
  /\ \A r \in Runs :
       /\ run[r] = "ABSENT" => outbox[Request(r)].status = "ABSENT"
       /\ run[r] = "QUEUED" => outbox[Request(r)].status # "ABSENT"
  /\ \A e \in Events :
       /\ outbox[e].status = "PENDING" => outbox[e].attempts < PublishLimit
       /\ outbox[e].status = "FAILED" => outbox[e].attempts = PublishLimit
  /\ \A p \in Publishers : pub[p].at = "SENT" => outbox[pub[p].sending].status # "ABSENT"

\* A request that was sent, marked or not, has put its job on the way.
SentIsOnItsWay ==
  \A r \in Runs : run[r] = "QUEUED" =>
    /\ outbox[Request(r)].status = "PUBLISHED" => OnItsWay(r)
    /\ \A p \in Publishers : pub[p].at = "SENT" /\ pub[p].sending = Request(r) => OnItsWay(r)

QueueInv == SpineInv /\ StartedRuns /\ RowsAgree /\ SentIsOnItsWay

LEMMA InitQueue == Init => QueueInv
BY InitSpine, SpineAssumption
DEF Init, RelayInit, QueueInv, StartedRuns, RowsAgree, SentIsOnItsWay, NoRow, Idle, Events, Request

\* Only a request makes a run QUEUED.
LEMMA QueuedByRequest ==
  ASSUME Typed, [Next]_vars, NEW r \in Runs, run'[r] = "QUEUED"
  PROVE  run[r] = "QUEUED" \/ CreateRun(r)
<1> USE DEF Typed, TypeOK
<1>1. ASSUME NEW s \in Runs, CreateRun(s) PROVE run[r] = "QUEUED" \/ CreateRun(r)
  BY <1>1 DEF CreateRun
<1>2. CASE UNCHANGED run
  BY <1>2
<1>3. ASSUME NEW w \in Workers, NEW state \in RunStates \ {"QUEUED"}, run' = [run EXCEPT ![job[w]] = state]
      PROVE  run[r] = "QUEUED"
  BY <1>3
<1>4. QED
  BY <1>1, <1>2, <1>3 DEF Next, vars, SwitchSource, Publish, PublisherLost, Deliver, DeliveryRefused,
     Work, WorkerDies, Dequeue, Inspect, Retrieve, Fetch, Propose, BuildRefused, Await, Transition,
     CompleteRun, WriteOutput, MarkCompleted, ReplayTedRun, SecondDossier, FailRun, RunStates

LEMMA StartedStep ==
  ASSUME Typed, StartedRuns, [Next]_vars
  PROVE  StartedRuns'
<1> USE DEF Typed, TypeOK, HandsFull, StartedRuns
<1>1. ASSUME NEW w \in Workers, NEW step \in {"RETRIEVE", "PROPOSE", "AWAIT"}, NEW next,
             NEW state \in RunStates \ {"ABSENT", "QUEUED"}, Transition(w, step, state, next)
      PROVE  StartedRuns'
  BY <1>1 DEF Transition, Goto
<1>2. ASSUME NEW w \in Workers, NEW admitted \in SUBSET Facts, CompleteRun(w, admitted) PROVE StartedRuns'
  BY <1>2 DEF CompleteRun, WriteOutput, MarkCompleted, Goto
<1>3. ASSUME NEW w \in Workers, FailRun(w) PROVE StartedRuns'
  BY <1>3 DEF FailRun, Goto
<1>4. ASSUME NEW w \in Workers, UNCHANGED run,
             \/ Dequeue(w) \/ Inspect(w) \/ Fetch(w) \/ BuildRefused(w)
             \/ ReplayTedRun(w) \/ SecondDossier(w) \/ WorkerDies(w)
      PROVE  StartedRuns'
  BY <1>4 DEF Dequeue, Inspect, Fetch, BuildRefused, ReplayTedRun, SecondDossier, WorkerDies, Goto
<1>5. ASSUME NEW r \in Runs, CreateRun(r) PROVE StartedRuns'
  BY <1>5 DEF CreateRun
<1>6. CASE UNCHANGED <<run, workVars>>
  BY <1>6
<1>7. QED
  BY <1>1, <1>2, <1>3, <1>4, <1>5, <1>6 DEF Next, vars, SwitchSource, Publish, PublisherLost, Deliver,
     DeliveryRefused, Work, Retrieve, Propose, Await, RunStates, Dequeue, Inspect, Fetch, BuildRefused,
     ReplayTedRun, SecondDossier, WorkerDies

LEMMA RowsStep ==
  ASSUME Typed, RowsAgree, BatchesExist, [Next]_vars
  PROVE  RowsAgree'
<1> USE DEF Typed, TypeOK, HandsFull, RelayTypeOK, RowsAgree
<1>1. ASSUME NEW r \in Runs, CreateRun(r) PROVE RowsAgree'
  BY <1>1, SpineAssumption DEF CreateRun, NewRow, Events, Request
<1>2. ASSUME NEW p \in Publishers, UNCHANGED run, SelectPending(p) PROVE RowsAgree'
  BY <1>2 DEF SelectPending
<1>3. ASSUME NEW p \in Publishers, UNCHANGED run, PublisherDies(p) PROVE RowsAgree'
  BY <1>3 DEF PublisherDies, Idle
<1>4. ASSUME NEW p \in Publishers, UNCHANGED run, NEW e \in pub[p].batch,
             NEW at \in {"SENT", "REFUSED"}, Take(p, e, at)
      PROVE  RowsAgree'
  <2>1. outbox[e].status # "ABSENT" /\ UNCHANGED outbox
    BY <1>4 DEF Take, BatchesExist
  <2>2. \A q \in Publishers : IF q = p THEN pub'[q].sending = e ELSE pub'[q] = pub[q]
    BY <1>4 DEF Take
  <2>3. QED
    BY <1>4, <2>1, <2>2 DEF Request
<1>5. ASSUME NEW p \in Publishers, UNCHANGED run, MarkOutbox(p) PROVE RowsAgree'
  <2>1. \A e \in Events : outbox'[e].status = "ABSENT" <=> outbox[e].status = "ABSENT"
    BY <1>5 DEF MarkOutbox, Published, Refused
  <2>2. \A q \in Publishers : pub'[q].at = "SENT" => pub[q].at = "SENT" /\ pub'[q].sending = pub[q].sending
    BY <1>5 DEF MarkOutbox, Idle
  <2>3. ASSUME NEW e \in Events
        PROVE  /\ outbox'[e].status = "PENDING" => outbox'[e].attempts < PublishLimit
               /\ outbox'[e].status = "FAILED" => outbox'[e].attempts = PublishLimit
    BY <1>5, <2>3, SpineAssumption DEF MarkOutbox, Published, Refused
  <2>4. \A r \in Runs : Request(r) \in Events
    BY DEF Request, Events
  <2>5. QED
    BY <1>5, <2>1, <2>2, <2>3, <2>4 DEF Request
<1>6. ASSUME NEW w \in Workers, NEW admitted \in SUBSET Facts, CompleteRun(w, admitted) PROVE RowsAgree'
  BY <1>6, SpineAssumption DEF CompleteRun, WriteOutput, MarkCompleted, NewRow, Events, Request
<1>7. ASSUME NEW w \in Workers, NEW state \in RunStates \ {"ABSENT", "QUEUED"},
             run' = [run EXCEPT ![job[w]] = state], UNCHANGED relayVars
      PROVE  RowsAgree'
  BY <1>7 DEF Request
<1>8. CASE UNCHANGED <<run, relayVars>>
  BY <1>8 DEF Request
<1>9. QED
  BY <1>1, <1>2, <1>3, <1>4, <1>5, <1>6, <1>7, <1>8 DEF Next, vars, SwitchSource, Publish, PublisherLost,
     Deliver, DeliveryRefused, Send, SendRefused, Work, WorkerDies, Dequeue, Inspect, Retrieve, Fetch,
     Propose, BuildRefused, Await, Transition, ReplayTedRun, SecondDossier, FailRun, RunStates

\* Nothing but progress takes a job off its way: the run it is for is QUEUED no longer, or
\* the job is written off with the worker that died.
LEMMA StaysOnItsWay ==
  ASSUME Typed, StartedRuns, [Next]_vars, NEW r \in Runs, run'[r] = "QUEUED", OnItsWay(r)
  PROVE  OnItsWay(r)'
<1> USE DEF Typed, TypeOK, HandsFull
<1>1. ASSUME NEW w \in Workers, wpc[w] # "IDLE", job[w] = r PROVE OnItsWay(r)'
  <2>1. (wpc'[w] # "IDLE" /\ job'[w] = r) \/ r \in dropped'
    <3>1. ASSUME NEW v \in Workers, v # w, Work(v) \/ WorkerDies(v) PROVE UNCHANGED <<wpc[w], job[w]>>
      BY <3>1 DEF Work, WorkerDies, Dequeue, Inspect, Retrieve, Fetch, Propose, BuildRefused, Await,
         Transition, CompleteRun, ReplayTedRun, SecondDossier, FailRun, Goto
    <3>2. CASE Work(w)
      <4>1. CASE Inspect(w)
        BY <1>1, <4>1 DEF Inspect, Goto
      <4>2. CASE Retrieve(w) \/ Fetch(w) \/ Propose(w) \/ BuildRefused(w) \/ Await(w)
        BY <1>1, <4>2 DEF Retrieve, Fetch, Propose, BuildRefused, Await, Transition, Goto
      <4>3. ASSUME NEW admitted \in SUBSET Facts, CompleteRun(w, admitted) PROVE FALSE
        BY <1>1, <4>3 DEF CompleteRun, WriteOutput, MarkCompleted
      <4>4. CASE ReplayTedRun(w)
        BY <1>1, <4>4 DEF ReplayTedRun
      <4>5. CASE SecondDossier(w)
        BY <1>1, <4>5 DEF SecondDossier, StartedRuns
      <4>6. CASE FailRun(w)
        BY <1>1, <4>6 DEF FailRun
      <4>7. CASE Dequeue(w)
        BY <1>1, <4>7 DEF Dequeue
      <4>8. QED
        BY <3>2, <4>1, <4>2, <4>3, <4>4, <4>5, <4>6, <4>7 DEF Work
    <3>3. CASE WorkerDies(w)
      BY <1>1, <3>3 DEF WorkerDies
    <3>4. CASE UNCHANGED workVars
      BY <1>1, <3>4
    <3>5. QED
      BY <1>1, <3>1, <3>2, <3>3, <3>4 DEF Next, vars, CreateRun, SwitchSource, Publish, PublisherLost,
         Deliver, DeliveryRefused
  <2>2. QED
    BY <2>1 DEF OnItsWay, InHand
<1>2. ASSUME r \in Range(queue) PROVE OnItsWay(r)'
  <2>1. ASSUME NEW w \in Workers, Dequeue(w) PROVE OnItsWay(r)'
    <3>1. PICK i \in 1..Len(queue) : queue[i] = r
      BY <1>2 DEF Range
    <3>2. CASE i = 1
      <4>1. wpc'[w] # "IDLE" /\ job'[w] = r
        BY <2>1, <3>1, <3>2 DEF Dequeue, Goto
      <4>2. QED
        BY <4>1 DEF OnItsWay, InHand
    <3>3. CASE i # 1
      <4>1. queue # <<>> /\ queue' = Tail(queue)
        BY <2>1 DEF Dequeue
      <4>2. i - 1 \in 1..Len(queue') /\ queue'[i - 1] = r /\ queue' \in Seq(Runs)
        BY <3>1, <3>3, <4>1, HeadTailProperties
      <4>3. r \in Range(queue')
        BY <4>2 DEF Range
      <4>4. QED
        BY <4>3 DEF OnItsWay
    <3>4. QED
      BY <3>2, <3>3
  <2>2. ASSUME NEW p \in Publishers, NEW e \in pub[p].batch, Deliver(p, e) PROVE OnItsWay(r)'
    <3>1. e[2] \in Runs
      BY <2>2 DEF RelayTypeOK, Events
    <3>2. queue' = queue \/ queue' = Append(queue, e[2])
      BY <2>2 DEF Deliver
    <3>3. r \in Range(queue')
      <4>1. PICK i \in 1..Len(queue) : queue[i] = r
        BY <1>2 DEF Range
      <4>2. CASE queue' = queue
        BY <4>1, <4>2 DEF Range
      <4>3. CASE queue' = Append(queue, e[2])
        <5>1. /\ queue' \in Seq(Runs)
              /\ Len(queue') = Len(queue) + 1
              /\ \A j \in 1..Len(queue) : queue'[j] = queue[j]
          BY <3>1, <4>3, AppendProperties
        <5>2. i \in DOMAIN queue' /\ queue'[i] = r
          BY <4>1, <5>1
        <5>3. QED
          BY <5>2 DEF Range
      <4>4. QED
        BY <3>2, <4>2, <4>3
    <3>4. QED
      BY <3>3 DEF OnItsWay
  <2>3. CASE UNCHANGED queue
    BY <1>2, <2>3 DEF OnItsWay
  <2>4. QED
    BY <2>1, <2>2, <2>3 DEF Next, vars, CreateRun, SwitchSource, Publish, PublisherLost, DeliveryRefused,
       Work, WorkerDies, Inspect, Retrieve, Fetch, Propose, BuildRefused, Await, Transition, CompleteRun,
       ReplayTedRun, SecondDossier, FailRun
<1>3. ASSUME r \in dropped PROVE OnItsWay(r)'
  <2>1. r \in dropped'
    BY <1>3 DEF Next, vars, CreateRun, SwitchSource, Publish, PublisherLost, Deliver, DeliveryRefused,
       Work, WorkerDies, Dequeue, Inspect, Retrieve, Fetch, Propose, BuildRefused, Await, Transition,
       CompleteRun, ReplayTedRun, SecondDossier, FailRun
  <2>2. QED
    BY <2>1 DEF OnItsWay
<1>4. QED
  BY <1>1, <1>2, <1>3 DEF OnItsWay, InHand

LEMMA SentStep ==
  ASSUME QueueInv, [Next]_vars
  PROVE  SentIsOnItsWay'
<1> USE DEF QueueInv, SpineInv
<1>1. SUFFICES ASSUME NEW r \in Runs, run'[r] = "QUEUED",
                      \/ outbox'[Request(r)].status = "PUBLISHED"
                      \/ \E p \in Publishers : pub'[p].at = "SENT" /\ pub'[p].sending = Request(r)
               PROVE  OnItsWay(r)'
  BY DEF SentIsOnItsWay, Request
<1>2. Request(r) \in Events
  BY DEF Request, Events
<1>3. ASSUME run[r] = "QUEUED", UNCHANGED relayVars PROVE OnItsWay(r)'
  BY <1>1, <1>3, StaysOnItsWay DEF SentIsOnItsWay
<1>4. CASE CreateRun(r)
  <2>1. outbox[Request(r)].status = "ABSENT"
    BY <1>4 DEF CreateRun, RowsAgree
  <2>2. outbox'[Request(r)].status = "PENDING" /\ UNCHANGED pub
    BY <1>2, <1>4 DEF CreateRun, NewRow, Request, Typed, TypeOK, RelayTypeOK
  <2>3. QED
    BY <1>1, <2>1, <2>2 DEF RowsAgree
<1>5. ASSUME run[r] = "QUEUED", NEW s \in Runs, CreateRun(s) PROVE OnItsWay(r)'
  <2>1. s # r
    BY <1>5 DEF CreateRun
  <2>2. outbox'[Request(r)] = outbox[Request(r)] /\ UNCHANGED pub
    BY <1>2, <1>5, <2>1 DEF CreateRun, Request, Typed, TypeOK, RelayTypeOK
  <2>3. QED
    BY <1>1, <1>5, <2>2, StaysOnItsWay DEF SentIsOnItsWay
<1>6. ASSUME run[r] = "QUEUED", NEW p \in Publishers, Publish(p) \/ PublisherLost(p) PROVE OnItsWay(r)'
  <2>1. ASSUME NEW e \in pub[p].batch, Deliver(p, e), e = Request(r) PROVE OnItsWay(r)'
    <3>1. queue' = Append(queue, r)
      BY <2>1 DEF Deliver, Request
    <3>2. r \in Range(queue')
      BY <3>1, AppendProperties DEF Range, Typed, TypeOK
    <3>3. QED
      BY <3>2 DEF OnItsWay
  <2>2. ASSUME NEW e \in pub[p].batch, NEW at \in {"SENT", "REFUSED"}, Take(p, e, at),
               at = "SENT" => e # Request(r)
        PROVE  OnItsWay(r)'
    <3>1. \A q \in Publishers : IF q = p THEN pub'[q].at = at /\ pub'[q].sending = e ELSE pub'[q] = pub[q]
      BY <2>2 DEF Take, Typed, TypeOK, RelayTypeOK
    <3>2. UNCHANGED outbox
      BY <2>2 DEF Take
    <3>3. QED
      BY <1>1, <1>6, <2>2, <3>1, <3>2, StaysOnItsWay DEF SentIsOnItsWay
  <2>3. CASE SelectPending(p) \/ PublisherDies(p)
    <3>1. \A q \in Publishers : pub'[q].at = "SENT" => pub'[q] = pub[q]
      BY <2>3 DEF SelectPending, PublisherDies, Idle, Typed, TypeOK, RelayTypeOK
    <3>2. UNCHANGED outbox
      BY <2>3 DEF SelectPending, PublisherDies
    <3>3. QED
      BY <1>1, <1>6, <3>1, <3>2, StaysOnItsWay DEF SentIsOnItsWay
  <2>4. CASE MarkOutbox(p)
    <3>1. \A q \in Publishers : pub'[q].at = "SENT" => pub'[q] = pub[q]
      BY <2>4 DEF MarkOutbox, Idle, Typed, TypeOK, RelayTypeOK
    <3>2. outbox'[Request(r)].status = "PUBLISHED" =>
            \/ outbox[Request(r)].status = "PUBLISHED"
            \/ pub[p].at = "SENT" /\ pub[p].sending = Request(r)
      BY <1>2, <2>4 DEF MarkOutbox, Published, Refused, Typed, TypeOK, RelayTypeOK
    <3>3. QED
      BY <1>1, <1>6, <3>1, <3>2, StaysOnItsWay DEF SentIsOnItsWay
  <2>5. QED
    BY <1>6, <2>1, <2>2, <2>3, <2>4 DEF Publish, PublisherLost, Deliver, DeliveryRefused, Send, SendRefused
<1>7. ASSUME run[r] = "QUEUED", NEW w \in Workers, NEW admitted \in SUBSET Facts, CompleteRun(w, admitted)
      PROVE  OnItsWay(r)'
  <2>1. outbox'[Request(r)] = outbox[Request(r)] /\ UNCHANGED pub
    BY <1>2, <1>7 DEF CompleteRun, WriteOutput, MarkCompleted, Request, Typed, TypeOK, RelayTypeOK
  <2>2. QED
    BY <1>1, <1>7, <2>1, StaysOnItsWay DEF SentIsOnItsWay
<1>8. run[r] = "QUEUED" \/ CreateRun(r)
  BY <1>1, QueuedByRequest
<1>9. QED
  BY <1>3, <1>4, <1>5, <1>6, <1>7, <1>8 DEF Next, vars, SwitchSource, Work, WorkerDies, Dequeue, Inspect,
     Retrieve, Fetch, Propose, BuildRefused, Await, Transition, ReplayTedRun, SecondDossier, FailRun

\* A run stays QUEUED only while its request waits, its job is in the list or in a hand, or
\* one of the two losses the code allows has happened: a worker died with the job, or the
\* outbox gave the request up at its limit.
THEOREM QueuedRunsAreAccountedFor == Spec => []QueuedIsAccountedFor
<1>1. QueueInv /\ [Next]_vars => QueueInv'
  BY SpineStep, StartedStep, RowsStep, SentStep DEF QueueInv, SpineInv
<1>2. QueueInv => QueuedIsAccountedFor
  <2> SUFFICES ASSUME QueueInv, NEW r \in Runs, run[r] = "QUEUED"
               PROVE  \/ outbox[Request(r)].status = "PENDING"
                      \/ OnItsWay(r)
                      \/ outbox[Request(r)] = [status |-> "FAILED", attempts |-> PublishLimit]
    BY DEF QueuedIsAccountedFor, OnItsWay, Request
  <2>1. Request(r) \in Events
    BY DEF Request, Events
  <2>2. outbox[Request(r)] \in [status : {"ABSENT", "PENDING", "PUBLISHED", "FAILED"}, attempts : Nat]
    BY <2>1 DEF QueueInv, SpineInv, Typed, TypeOK, RelayTypeOK
  <2>3. CASE outbox[Request(r)].status = "FAILED"
    BY <2>1, <2>2, <2>3 DEF QueueInv, RowsAgree
  <2>4. CASE outbox[Request(r)].status \in {"ABSENT", "PUBLISHED"}
    BY <2>4 DEF QueueInv, RowsAgree, SentIsOnItsWay
  <2>5. QED
    BY <2>2, <2>3, <2>4
<1>3. QED
  BY <1>1, <1>2, InitQueue, PTL DEF Spec
=============================================================================
