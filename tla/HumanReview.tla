----------------------------- MODULE HumanReview -----------------------------
(***************************************************************************)
(* Bounded human review: the cases that admission decisions open, their    *)
(* append-only events, and resolve_human_review_case, one transaction      *)
(* under a row lock on the case.                                           *)
(*                                                                         *)
(* A call that the function refuses, and a repetition that it answers from *)
(* the row, change nothing and are not steps.  `why` stands for the reason *)
(* code and note of a call.  The stored gates of a decision that opened a  *)
(* case all passed (admission stops before the decision otherwise) and     *)
(* evidence is immutable, so of the non-bypassable gates only the current  *)
(* source can refuse.                                                      *)
(***************************************************************************)
EXTENDS Naturals, Sequences

CONSTANTS Cases, RunOf(_),          \* cases, and the research run of each
          Runs,
          Reviewers, NoReviewer,
          Whys, NoWhy               \* reason codes with notes

VARIABLES review,                   \* [Cases -> case row with its events]
          context,                  \* dossiers.human_review_context, per run
          sourceOpen                \* the registry row that admission also reads

NoCase == [state |-> "ABSENT", reviewer |-> NoReviewer, resolution |-> "NONE",
           why |-> NoWhy, events |-> <<>>]

ReviewInit ==
  /\ review = [k \in Cases |-> NoCase]
  /\ context = [r \in Runs |-> <<>>]

\* REJECT_PROPOSAL also stands for CONFIRM_CONTESTED and MARK_OUT_OF_SCOPE, which
\* the function treats exactly alike.
Resolutions == {"ACCEPT_AS_CONTEXT", "RETURN_TO_DETERMINISTIC_REVIEW", "REJECT_PROPOSAL"}
Gated == {"ACCEPT_AS_CONTEXT", "RETURN_TO_DETERMINISTIC_REVIEW"}

Event(type, by, why) == [type |-> type, by |-> by, why |-> why]

\* The trigger open_human_review_case on a new decision row.
OpenCases(ks) ==
  review' = [k \in Cases |->
    IF k \in ks /\ review[k] = NoCase
    THEN [NoCase EXCEPT !.state = "OPEN", !.events = <<Event("CASE_OPENED", NoReviewer, NoWhy)>>]
    ELSE review[k]]

\* [mutant] The RESOLVED branch dropped from resolve_human_review_case.
AnyOpenFor(k, v) ==
  /\ review[k].state # "ABSENT"
  /\ review[k].reviewer \in {NoReviewer, v}

\* Neither resolved nor somebody else's.
OpenFor(k, v) ==
  /\ review[k].state \in {"OPEN", "MORE_EVIDENCE_REQUIRED"}
  /\ review[k].reviewer \in {NoReviewer, v}

\* The first action of a reviewer assigns the case.
Assignment(k, v, why) ==
  IF review[k].reviewer = NoReviewer
  THEN <<Event("CASE_ASSIGNED", v, why), Event("REVIEW_STARTED", v, why)>>
  ELSE <<>>

\* [mutant] Every repetition of a request appended.
NeverRequested(k, v, why) == FALSE

AlreadyRequested(k, v, why) ==
  /\ review[k].state = "MORE_EVIDENCE_REQUIRED"
  /\ \E i \in DOMAIN review[k].events :
       review[k].events[i] = Event("EVIDENCE_REQUESTED", v, why)

RequestMoreEvidence(k, v, why) ==
  /\ OpenFor(k, v)
  /\ ~AlreadyRequested(k, v, why)
  /\ review' = [review EXCEPT
       ![k].state = "MORE_EVIDENCE_REQUIRED",
       ![k].reviewer = v,
       ![k].events = @ \o Assignment(k, v, why) \o <<Event("EVIDENCE_REQUESTED", v, why)>>]
  /\ UNCHANGED <<context, sourceOpen>>

Resolve(k, v, action, why) ==
  /\ OpenFor(k, v)
  /\ action \in Gated => sourceOpen
  /\ review' = [review EXCEPT
       ![k].state = "RESOLVED",
       ![k].reviewer = v,
       ![k].resolution = action,
       ![k].why = why,
       ![k].events = @ \o Assignment(k, v, why)
                       \o <<Event("RESOLUTION_RECORDED", v, why), Event("CASE_CLOSED", v, why)>>]
  /\ context' = IF action = "ACCEPT_AS_CONTEXT"
                THEN [context EXCEPT ![RunOf(k)] = Append(@, k)]
                ELSE context
  /\ UNCHANGED sourceOpen

\* The case rows, their events and the dossier context have their types.
ReviewTypeOK ==
  /\ review \in [Cases -> [state : {"ABSENT", "OPEN", "MORE_EVIDENCE_REQUIRED", "RESOLVED"},
                           reviewer : Reviewers \cup {NoReviewer},
                           resolution : Resolutions \cup {"NONE"},
                           why : Whys \cup {NoWhy},
                           events : Seq([type : {"CASE_OPENED", "CASE_ASSIGNED", "REVIEW_STARTED",
                                                 "EVIDENCE_REQUESTED", "RESOLUTION_RECORDED",
                                                 "CASE_CLOSED"},
                                         by : Reviewers \cup {NoReviewer},
                                         why : Whys \cup {NoWhy}])]]
  /\ context \in [Runs -> Seq(Cases)]

TypesOf(k) == [i \in DOMAIN review[k].events |-> review[k].events[i].type]

\* The events of a case are its whole story: opened, assigned to the one reviewer
\* who took every later step, evidence asked for at most once per reason, and
\* closed exactly when the row is RESOLVED.
CaseHistory ==
  \A k \in Cases :
    LET events == review[k].events
        asked == {i \in DOMAIN events : events[i].type = "EVIDENCE_REQUESTED"}
        closing == IF review[k].state = "RESOLVED" THEN 2 ELSE 0
        n == Len(events)
    IN CASE review[k].state = "ABSENT" -> n = 0
         [] review[k].state = "OPEN" -> TypesOf(k) = <<"CASE_OPENED">> /\ review[k].reviewer = NoReviewer
         [] OTHER ->
              /\ SubSeq(TypesOf(k), 1, 3) = <<"CASE_OPENED", "CASE_ASSIGNED", "REVIEW_STARTED">>
              /\ asked = 4..(n - closing)
              /\ closing = 2 => SubSeq(TypesOf(k), n - 1, n) = <<"RESOLUTION_RECORDED", "CASE_CLOSED">>
              /\ \A i \in 2..n : events[i].by = review[k].reviewer
              /\ \A i, j \in asked : events[i] = events[j] => i = j

\* A dossier's review context lists each accepted case of its run once, and no
\* other: what ACCEPT_AS_CONTEXT wrote is never repeated by a replayed call.
ContextOnce ==
  \A r \in Runs :
    /\ \A i, j \in DOMAIN context[r] : context[r][i] = context[r][j] => i = j
    /\ {context[r][i] : i \in DOMAIN context[r]}
         = {k \in Cases : RunOf(k) = r /\ review[k].resolution = "ACCEPT_AS_CONTEXT"}

\* What people did with a case is accounted for, in its events and in the dossier.
ReviewIsAccounted == CaseHistory /\ ContextOnce
=============================================================================
