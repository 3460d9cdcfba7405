--------------------------- MODULE ApprovalRenewal --------------------------
(***************************************************************************)
(* The renewal of the O01 approval.  A workflow runs daily, on demand and  *)
(* on a push: it unzips the last evidence artifact, reads the typed        *)
(* decisions of the two authorities from issue comments, observes the      *)
(* official terms, classifies what changed since the last package,         *)
(* evaluates the authority, and uploads a package.  Days are scaled, the   *)
(* four documents are one, and a manifest digest is its head: the manifest *)
(* is made of the head's files and identity.  Outside the model: comments  *)
(* that are no typed decision, which the extraction passes over.           *)
(***************************************************************************)
EXTENDS Naturals, Sequences, FiniteSetsExt

CONSTANTS
    RenewalWindow, UrgentWindow,   \* days, of the policy's schedule
    EvidenceDays,                  \* the shorter of the terms' and the artifact's safe life
    Expiries,                      \* days an authority may name
    FrozenDay,                     \* the --now of the runs that are offline
    MaxHeads, MaxComments, LastDay \* bounds

Authorities == {"LEGAL", "PRIVACY_DATA_RIGHTS"}

VARIABLES
    heads,      \* the branch: Seq([files, technical]), the versions of two classes of paths
    terms,      \* [version, reachable]: the official documents, and whether all can be read
    today,
    comments,   \* Seq([authority, decision, head, expiry]) in the order of their ids
    artifact,   \* packages in the newest artifact: its own first, then those it unzipped
    lastRun     \* what the last run answered, or NotRun

renewalVars == <<heads, terms, today, comments, artifact, lastRun>>

NotRun == [outcome |-> "NONE"]

RenewalInit ==
    /\ heads = <<[files |-> 0, technical |-> 0]>> /\ terms = [version |-> 0, reachable |-> TRUE]
    /\ today = 0 /\ comments = <<>> /\ artifact = <<>> /\ lastRun = NotRun

HeadSha == Len(heads)

\* The packages a run finds below "previous"; a push does not look.
Recovered(event) == IF event = "PUSH" THEN <<>> ELSE artifact

\* discover_maximum_expiry gives up when the evidence is not one online package.
Unusable(event) ==
    /\ Recovered(event) # <<>>
    /\ Len(Recovered(event)) # 1 \/ Recovered(event)[1].mode # "ONLINE"

\* [mutant] The approval of another head counts.
EligibleAnyHead(authority, maximumExpiry) ==
    {i \in DOMAIN comments : comments[i].authority = authority /\ comments[i].expiry <= maximumExpiry}

\* Decisions bound to this head whose expiry the evidence covers.
Eligible(authority, maximumExpiry) ==
    {i \in DOMAIN comments : /\ comments[i].authority = authority
                             /\ comments[i].head = HeadSha
                             /\ comments[i].expiry <= maximumExpiry}

ExtractLatestDecision(authority, maximumExpiry) == comments[Max(Eligible(authority, maximumExpiry))]

\* The envelope of both decisions, or nothing: an incomplete envelope is not written.
Envelope(event) ==
    IF Recovered(event) = <<>> THEN {}
    ELSE LET expiry == Recovered(event)[1].maximumExpiry
         IN  IF \E a \in Authorities : Eligible(a, expiry) = {} THEN {}
             ELSE {ExtractLatestDecision(a, expiry) : a \in Authorities}

\* A run that is not online is given a day of its own.
Now(mode) == IF mode = "ONLINE" THEN today ELSE FrozenDay

\* The authority at a moment; the phase goes with the status.
EvaluateAuthority(decisions, moment) ==
    LET expiry == Min({d.expiry : d \in decisions})
    IN  IF decisions = {} THEN "MISSING"
        ELSE IF \E d \in decisions : d.decision = "REJECT" THEN "REJECTED"
        ELSE IF moment >= expiry THEN "EXPIRED"
        ELSE IF expiry <= moment + UrgentWindow THEN "URGENT"
        ELSE IF expiry <= moment + RenewalWindow THEN "EXPIRING"
        ELSE "ACTIVE"

TechnicalPathsChanged(previous) == heads[previous.head].technical # heads[HeadSha].technical

\* [mutant] Evidence that could not be fetched is compared all the same.
ClassifyDeltaUnseen(observed, previous) ==
    IF previous = <<>> THEN "BASELINE_REQUIRED"
    ELSE IF previous[1].version # observed.version THEN "MATERIAL_TERMS_CHANGE"
    ELSE IF heads[previous[1].head].files # heads[HeadSha].files THEN "AUTHORITY_SURFACE_CHANGE"
    ELSE IF TechnicalPathsChanged(previous[1]) THEN "MATERIAL_TECHNICAL_CHANGE"
    ELSE "NO_MATERIAL_CHANGE"

\* A document that could not be read before has no hash, and differs from any.
ClassifyDelta(observed, previous) ==
    IF observed.status # "PASS" THEN "EVIDENCE_UNAVAILABLE"
    ELSE IF previous = <<>> THEN "BASELINE_REQUIRED"
    ELSE IF previous[1].status = "UNAVAILABLE" \/ previous[1].version # observed.version THEN "MATERIAL_TERMS_CHANGE"
    ELSE IF heads[previous[1].head].files # heads[HeadSha].files THEN "AUTHORITY_SURFACE_CHANGE"
    ELSE IF TechnicalPathsChanged(previous[1]) THEN "MATERIAL_TECHNICAL_CHANGE"
    ELSE "NO_MATERIAL_CHANGE"

\* Online the documents are fetched; offline a fixture stands in, readable and with hashes
\* of its own.
FixtureVersion == 2

FetchDocument == [version |-> terms.version, status |-> IF terms.reachable THEN "PASS" ELSE "UNAVAILABLE"]

ObserveTerms(mode) == IF mode = "ONLINE" THEN FetchDocument ELSE [version |-> FixtureVersion, status |-> "PASS"]

\* The package: what later runs look at.
MaterialiseRenewal(mode) ==
    [mode |-> mode, head |-> HeadSha, version |-> ObserveTerms(mode).version,
     status |-> ObserveTerms(mode).status, maximumExpiry |-> Now(mode) + EvidenceDays]

NewDecisionsRequired(class, authority) ==
    authority # "ACTIVE" \/ class \notin {"NO_MATERIAL_CHANGE", "BASELINE_REQUIRED"}

\* Fails closed on unavailable, changed or expired authority.
Passes(class, authority) ==
    class \notin {"EVIDENCE_UNAVAILABLE", "MATERIAL_TERMS_CHANGE"} /\ authority \notin {"EXPIRED", "REJECTED"}

\* A run, whole.  The artifact is uploaded whatever the steps before answered, with the
\* packages the run had unzipped.
Run(event, mode) ==
    /\ event = "PUSH" => mode = "OFFLINE"
    /\ event = "SCHEDULE" => mode = "ONLINE"
    /\ IF Unusable(event)
       THEN /\ artifact' = Recovered(event)
            /\ lastRun' = [outcome |-> "NO_PACKAGE"]
       ELSE LET class     == ClassifyDelta(ObserveTerms(mode), Recovered(event))
                authority == EvaluateAuthority(Envelope(event), Now(mode))
            IN  /\ artifact' = <<MaterialiseRenewal(mode)>> \o Recovered(event)
                /\ lastRun' = [outcome  |-> IF Passes(class, authority) THEN "PASS" ELSE "BLOCKED",
                               required |-> NewDecisionsRequired(class, authority)]
    /\ UNCHANGED <<heads, terms, today, comments>>

\* Bound: with two packages in the artifact every later run is Unusable, and the world
\* around the workflow stands still.
WorldMoves == Len(artifact) < 2

ValidDecision(expiry) == expiry > today

\* An authority signs the template of the current head.
Decide(authority, decision, expiry) ==
    /\ WorldMoves /\ Len(comments) < MaxComments /\ ValidDecision(expiry)
    /\ comments' = Append(comments, [authority |-> authority, decision |-> decision,
                                     head |-> HeadSha, expiry |-> expiry])
    /\ lastRun' = NotRun
    /\ UNCHANGED <<heads, terms, today, artifact>>

Commit(files, technical) ==
    /\ WorldMoves /\ Len(heads) < MaxHeads
    /\ heads' = Append(heads, [files |-> files, technical |-> technical])
    /\ lastRun' = NotRun
    /\ UNCHANGED <<terms, today, comments, artifact>>

TermsMove(version, reachable) ==
    /\ WorldMoves /\ version >= terms.version
    /\ terms' = [version |-> version, reachable |-> reachable]
    /\ terms' # terms /\ lastRun' = NotRun
    /\ UNCHANGED <<heads, today, comments, artifact>>

DayPasses ==
    /\ WorldMoves /\ today < LastDay
    /\ today' = today + 1 /\ lastRun' = NotRun
    /\ UNCHANGED <<heads, terms, comments, artifact>>

RenewalNext ==
    \/ \E event \in {"SCHEDULE", "DISPATCH", "PUSH"}, mode \in {"ONLINE", "OFFLINE"} : Run(event, mode)
    \/ \E a \in Authorities, d \in {"APPROVE", "REJECT"}, e \in Expiries : Decide(a, d, e)
    \/ Commit(0, 1) \/ Commit(1, 0)
    \/ \E v \in 0..1, r \in BOOLEAN : TermsMove(v, r)
    \/ DayPasses

RenewalSpec == RenewalInit /\ [][RenewalNext]_renewalVars

\* A run that passes and asks for no new decision saw the terms of the online package
\* before it, on paths of the same versions; both authorities approved this very head, until
\* a day beyond the renewal window that the earlier evidence reaches, and neither of them
\* rejected it afterwards within the reach of that evidence.
QuietRenewalIsEarned ==
    lastRun.outcome = "PASS" /\ ~lastRun.required =>
        /\ Len(artifact) = 2 /\ artifact[2].mode = "ONLINE"
        /\ LET before == artifact[2]
               now    == artifact[1]
           IN  /\ now.mode = "ONLINE" /\ terms.reachable
               /\ before.status = "PASS" /\ before.version = now.version
               /\ heads[before.head] = heads[HeadSha]
               /\ \A a \in Authorities : \E i \in DOMAIN comments :
                    /\ comments[i].authority = a /\ comments[i].decision = "APPROVE" /\ comments[i].head = HeadSha
                    /\ comments[i].expiry > today + RenewalWindow /\ comments[i].expiry <= before.maximumExpiry
                    /\ ~\E j \in DOMAIN comments :
                          /\ j > i /\ comments[j].authority = a /\ comments[j].decision = "REJECT"
                          /\ comments[j].head = HeadSha /\ comments[j].expiry <= before.maximumExpiry

\* A run that looks for the retained evidence finds one online package.  It does not: the
\* third run in a row unzips two, and so do all the runs after it.
EvidenceIsRecovered == lastRun.outcome # "NO_PACKAGE"
=============================================================================
