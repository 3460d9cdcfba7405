--------------------------- MODULE ControlledStudy --------------------------
(***************************************************************************)
(* The F1 qualified-user study: a participant starts one session per task, *)
(* is assigned a condition by a digest, leaves events, answers once; the   *)
(* analyst's export is scored by the frozen manifest.  A session is known  *)
(* by its participant and task: the row is unique on them.  Rates are      *)
(* percentages, compared by cross multiplication.                          *)
(***************************************************************************)
EXTENDS Integers, FiniteSets

CONSTANTS
    Participants,      \* pseudonyms; a different tenant or subject is a different one
    StudyTasks,        \* frozen tasks
    Assigned,          \* [Participants \X StudyTasks -> condition], the parity of the digest
    MinSessions, MinParticipants, MinPerCondition   \* cohort minima of the manifest

VARIABLES
    opened,       \* sessions whose row exists
    response,     \* [session -> the stored answer, or NoAnswer]
    eventKeys,    \* [session -> idempotency keys of its events]
    appending,    \* appends that have read an open session: [session, key]
    accepted      \* [session, answer] pairs the participant was told are stored (history)

studyVars == <<opened, response, eventKeys, appending, accepted>>

Sessions == Participants \X StudyTasks
Conditions == {"AXIGNAL", "CONTROL"}

\* What scoring tells apart of an answer.
Answers == [layer : {"RIGHT", "WRONG", "CRITICAL"}, evidence : BOOLEAN, unknowns : BOOLEAN]
NoAnswer == [layer |-> "NONE", evidence |-> FALSE, unknowns |-> FALSE]
Perfect == [layer |-> "RIGHT", evidence |-> TRUE, unknowns |-> TRUE]

\* complete_validation_session inserts these two keys, start_validation_session the first.
ClosingKeys == {"answer-submitted", "session-completed"}

State(s) ==
    IF s \notin opened THEN "ABSENT" ELSE IF response[s] = NoAnswer THEN "STARTED" ELSE "COMPLETED"

StudyInit ==
    /\ opened = {} /\ response = [s \in Sessions |-> NoAnswer]
    /\ eventKeys = [s \in Sessions |-> {}]
    /\ appending = {} /\ accepted = {}

\* Starting again answers with the session that exists.
StartValidationSession(s) ==
    /\ opened' = opened \cup {s}
    /\ eventKeys' = [eventKeys EXCEPT ![s] = @ \cup {"session-started"}]
    /\ UNCHANGED <<response, appending, accepted>>

\* The state is read without a lock, before the insert waits for the row.
AppendReadsSession(s, key) ==
    /\ State(s) = "STARTED"
    /\ appending = {}
    /\ appending' = {[session |-> s, key |-> key]}
    /\ UNCHANGED <<opened, response, eventKeys, accepted>>

\* ON CONFLICT (session, key) DO NOTHING
AppendValidationEvent(a) ==
    /\ a \in appending
    /\ appending' = appending \ {a}
    /\ eventKeys' = [eventKeys EXCEPT ![a.session] = @ \cup {a.key}]
    /\ UNCHANGED <<opened, response, accepted>>

\* [mutant] A replay is not compared with the stored response.
AcceptsAnyReplay(s, answer) == State(s) = "COMPLETED"

\* A repeated answer must have the hash of the stored one.
Accepts(s, answer) == State(s) = "COMPLETED" /\ response[s] = answer

\* The row is locked throughout; the closing events are inserted without ON CONFLICT,
\* so a key the participant already used refuses the answer.
CompleteValidationSession(s, answer) ==
    \/ /\ Accepts(s, answer)
       /\ accepted' = accepted \cup {[session |-> s, answer |-> answer]}
       /\ UNCHANGED <<opened, response, eventKeys, appending>>
    \/ /\ State(s) = "STARTED" /\ eventKeys[s] \cap ClosingKeys = {}
       /\ response' = [response EXCEPT ![s] = answer]
       /\ eventKeys' = [eventKeys EXCEPT ![s] = @ \cup ClosingKeys]
       /\ accepted' = accepted \cup {[session |-> s, answer |-> answer]}
       /\ UNCHANGED <<opened, appending>>

-----------------------------------------------------------------------------

\* The outcome of a response, as scored when it is stored.
Outcome(answer) ==
    [critical_error          |-> answer.layer = "CRITICAL",
     authority_layer_correct |-> answer.layer = "RIGHT",
     evidence_traceability   |-> answer.evidence,
     unknowns_identified     |-> answer.unknowns,
     task_completed          |-> answer = Perfect]

\* One row per session, with no outcome when it was not answered; the export marks
\* no technical failure.
ExportValidationStudy ==
    {[participant |-> s[1], task |-> s[2], condition |-> Assigned[s],
      technical |-> FALSE, answer |-> response[s]] : s \in opened}

\* [mutant] Sessions without an outcome are left out of the analysis.
EligibleCompleted(dataset) == {row \in dataset : ~row.technical /\ row.answer # NoAnswer}

\* The profile of a row is qualified by its table, and participant and task are a key.
EligibleSessions(dataset) == {row \in dataset : ~row.technical}

Successes(rows, metric) == Cardinality({row \in rows : Outcome(row.answer)[metric]})

\* 100 * successes / total, compared; the rate of no session is 0.
RateAtLeast(rows, metric, percent) ==
    IF rows = {} THEN percent <= 0 ELSE 100 * Successes(rows, metric) >= percent * Cardinality(rows)
RateAtMost(rows, metric, percent) ==
    rows = {} \/ 100 * Successes(rows, metric) <= percent * Cardinality(rows)

\* 100 * (rate of a - rate of b), times both sizes; neither is empty when it is used.
DifferenceAtLeast(a, b, metric, percent) ==
    100 * (Successes(a, metric) * Cardinality(b) - Successes(b, metric) * Cardinality(a))
        >= percent * Cardinality(a) * Cardinality(b)

Absolute ==
    [task_completed |-> 80, authority_layer_correct |-> 85, evidence_traceability |-> 80,
     unknowns_identified |-> 80]
Margins == [m \in {"task_completed", "authority_layer_correct", "evidence_traceability"} |-> -10]

Evaluate(dataset, incidents) ==
    LET rows == EligibleSessions(dataset)
        under == [c \in Conditions |-> {row \in rows : row.condition = c}]
        ax == under["AXIGNAL"]
        control == under["CONTROL"]
        sample_ready == /\ Cardinality(rows) >= MinSessions
                        /\ Cardinality({row.participant : row \in rows}) >= MinParticipants
                        /\ \A c \in Conditions : Cardinality(under[c]) >= MinPerCondition
        absolute_checks == /\ \A m \in DOMAIN Absolute : RateAtLeast(ax, m, Absolute[m])
                           /\ RateAtMost(ax, "critical_error", 10)
        comparative_checks ==
            /\ \A m \in DOMAIN Margins : DifferenceAtLeast(ax, control, m, Margins[m])
            /\ DifferenceAtLeast(control, ax, "critical_error", -5)
    IN  IF ~sample_ready THEN "NOT_READY"
        ELSE IF incidents > 0 \/ ~absolute_checks THEN "FAIL_CANDIDATE"
        ELSE IF comparative_checks THEN "PASS_CANDIDATE" ELSE "INCONCLUSIVE"

-----------------------------------------------------------------------------

StudyNext ==
    \E s \in Sessions :
        \/ StartValidationSession(s)
        \/ \E key \in {"task-opened", "answer-submitted"} : AppendReadsSession(s, key)
        \/ \E a \in appending : a.session = s /\ AppendValidationEvent(a)
        \/ \E answer \in {Perfect, [Perfect EXCEPT !.evidence = FALSE], [Perfect EXCEPT !.layer = "CRITICAL"]} :
               CompleteValidationSession(s, answer)

StudySpec == StudyInit /\ [][StudyNext]_studyVars

\* The study counts what happened: every answer the participant was told is stored is
\* the one in the export, a scored session has its closing events, and the analysis is
\* by intention to treat.  It passes only when every session ever started under AXIGNAL
\* counts as a task, completed by an accepted answer, and four in five of them are.
StudyIsHonest ==
    /\ \A a \in accepted : response[a.session] = a.answer
    /\ \A s \in opened : response[s] # NoAnswer => ClosingKeys \subseteq eventKeys[s]
    /\ Evaluate(ExportValidationStudy, 0) = "PASS_CANDIDATE" =>
        LET treated == {s \in opened : Assigned[s] = "AXIGNAL"}
        IN  5 * Cardinality({a \in accepted : a.session \in treated /\ a.answer = Perfect})
                >= 4 * Cardinality(treated)
=============================================================================
