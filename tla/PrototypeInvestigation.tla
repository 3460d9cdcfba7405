------------------------ MODULE PrototypeInvestigation ------------------------
(***************************************************************************)
(* The navigator prototype: the server keeps nothing, the client sends the *)
(* whole investigation with every command and gets the next one back, and  *)
(* a research run answers with an update of the investigation's context.   *)
(* A command is free text; what counts is which words it holds, and one    *)
(* may hold several.  Texts, confidences and explanations are left out.    *)
(***************************************************************************)
EXTENDS Naturals, Sequences, FiniteSets, SequencesExt

CONSTANTS MaxVersion     \* bound: commands of one investigation

NoneOf == "none"
Lenses == {"GRAPH", "DUAL", "GLOBE"}

\* The fixtures: opportunities in their order, their claims, and which claims are
\* contradictions, with their evidence.  Two opportunities share one.
Fixture == <<"ramenki", "zil", "khamovniki", "basmanniy">>
ClaimsOf ==
  [ramenki |-> <<"ramenki_rent", "ramenki_metro", "ramenki_supply", "ramenki_rates", "ramenki_tax">>,
   zil |-> <<"zil_regeneration", "zil_transport", "zil_rates">>,
   khamovniki |-> <<"khamovniki_supply", "ramenki_rates">>,
   basmanniy |-> <<"basmanniy_demand", "ramenki_tax">>]
ContradictionsFixture == {"ramenki_rates", "zil_rates"}
EvidenceOfClaim(claim) == IF claim \in ContradictionsFixture THEN "bank_rates" ELSE "other"

VARIABLES
  investigation, \* the payload the client holds
  dossierShown   \* the answer to its last research run

prototypeVars == <<investigation, dossierShown>>

FocusOn(opportunity, claim, proof) == [opportunity |-> opportunity, claim |-> claim, evidence |-> proof]

\* initial_payload
InitialPayload ==
  [version |-> 1, lens |-> "GLOBE", selected |-> "ramenki", claims |-> {}, proofs |-> {},
   rail |-> "OPPORTUNITY", saved |-> FALSE, horizon |-> "24M", trail |-> <<"INVESTIGATION_CREATED">>,
   focus |-> FocusOn("ramenki", NoneOf, NoneOf)]

NoDossier == [asked |-> FALSE, private |-> FALSE, evidence |-> {}, provisional |-> {}, sections |-> <<>>,
              candidates |-> {}]

PrototypeInit == investigation = InitialPayload /\ dossierShown = NoDossier

-----------------------------------------------------------------------------
(* execute_prototype_command: each of these looks at the message and rewrites *)
(* the payload; the event of the last one that applies is the one recorded.   *)

Message == [lens : Lenses \cup {NoneOf}, names : Range(Fixture) \cup {NoneOf},
            contradiction : BOOLEAN, save : BOOLEAN, horizon : BOOLEAN]

Step(payload, event) == [payload |-> payload, event |-> event]

\* The first word found decides.
ChangeLens(step, msg) ==
  IF msg.lens = NoneOf THEN step
  ELSE Step([step.payload EXCEPT !.lens = msg.lens], "LENS_CHANGED")

\* [mutant] The claim that was in focus stays.
SelectKeepingClaim(step, msg) ==
  IF msg.names = NoneOf THEN step
  ELSE Step([step.payload EXCEPT !.selected = msg.names, !.rail = "OPPORTUNITY",
               !.focus.opportunity = msg.names], "OPPORTUNITY_SELECTED")

SelectNamed(step, msg) ==
  IF msg.names = NoneOf THEN step
  ELSE Step([step.payload EXCEPT !.selected = msg.names, !.claims = {}, !.proofs = {}, !.rail = "OPPORTUNITY",
               !.focus = FocusOn(msg.names, NoneOf, NoneOf)], "OPPORTUNITY_SELECTED")

\* The positions of an opportunity's claims that are contradictions.
ContradictionsIn(opportunity) == {i \in DOMAIN ClaimsOf[opportunity] : ClaimsOf[opportunity][i] \in ContradictionsFixture}

FocusContradiction(step, msg) ==
  LET found == ContradictionsIn(step.payload.selected) IN
  IF ~msg.contradiction THEN step
  ELSE IF found = {} THEN Step([step.payload EXCEPT !.rail = "COVERAGE"], step.event)
  ELSE LET claim == ClaimsOf[step.payload.selected][Min(found)]
           proof == EvidenceOfClaim(claim)
       IN Step([step.payload EXCEPT !.claims = {claim}, !.proofs = {proof}, !.rail = "CLAIM",
                  !.focus = FocusOn(step.payload.selected, claim, proof)], "CONTRADICTION_FOCUSED")

SaveTrail(step, msg) ==
  IF msg.save THEN Step([step.payload EXCEPT !.saved = TRUE], "TRAIL_SAVED") ELSE step

WidenHorizon(step, msg) ==
  IF msg.horizon THEN Step([step.payload EXCEPT !.horizon = "36M"], "TIME_HORIZON_CHANGED") ELSE step

Executed(payload, msg) ==
  LET asked == Step(payload, "NAVIGATOR_COMMAND_EXECUTED")
      done == WidenHorizon(SaveTrail(FocusContradiction(SelectNamed(ChangeLens(asked, msg), msg), msg), msg), msg)
  IN [done.payload EXCEPT !.version = @ + 1, !.trail = Append(@, done.event)]

\* A command without a payload starts from the initial one.
RunCommand(payload, msg) ==
  /\ payload.version < MaxVersion
  /\ investigation' = Executed(payload, msg)
  /\ UNCHANGED dossierShown

\* get_prototype_investigation: the client starts over.
Reload ==
  /\ investigation' = InitialPayload
  /\ dossierShown' = NoDossier

-----------------------------------------------------------------------------
(* build_research_response. *)

OfficialSource == [id |-> "official_permits", domain |-> "EXTERNAL"]
BrowserSource == [id |-> "browser_financing", domain |-> "EXTERNAL"]
UnknownSource == [id |-> "tax_unknown", domain |-> "GLOBAL"]
PrivateSource == [id |-> "commute_note", domain |-> "TENANT_PRIVATE"]

EvidenceFound(private) ==
  {OfficialSource, BrowserSource, UnknownSource} \cup IF private THEN {PrivateSource} ELSE {}

\* The candidates of the admission batch, each with its evidence.
CandidatesFound ==
  {[claim |-> "permit_resilience", evidence |-> OfficialSource],
   [claim |-> "financing_pressure", evidence |-> BrowserSource]}

\* [mutant] The whole of the evidence is passed on.
AllOfThem(found) == found

\* The evidence ids of the context update: the private note is not among them.
Provisional(found) == {e \in found : e.domain # "TENANT_PRIVATE"}

Sections(private) ==
  IF private THEN <<OfficialSource, BrowserSource, UnknownSource, PrivateSource>>
  ELSE <<OfficialSource, BrowserSource, UnknownSource>>

Research(private) ==
  /\ dossierShown' = [asked |-> TRUE, private |-> private, evidence |-> EvidenceFound(private),
                      provisional |-> Provisional(EvidenceFound(private)), sections |-> Sections(private),
                      candidates |-> CandidatesFound]
  /\ UNCHANGED investigation

PrototypeNext ==
  \/ \E msg \in Message, payload \in {investigation, InitialPayload} : RunCommand(payload, msg)
  \/ Reload
  \/ \E private \in BOOLEAN : Research(private)

PrototypeSpec == PrototypeInit /\ [][PrototypeNext]_prototypeVars

-----------------------------------------------------------------------------
(* Properties. *)

\* However commands are combined and follow each other: what is in focus belongs to
\* what is selected (the claim to the opportunity, the evidence to the claim), the claim
\* rail is shown only for a claim in focus, and the trail has one event per version.  A
\* dossier shows all its evidence, and a private note only in a dossier it was
\* authorised for: in none of the candidates and not in what the context keeps.
InvestigationHoldsTogether ==
  LET i == investigation IN
  /\ i.focus.opportunity = i.selected
  /\ i.claims = {i.focus.claim} \ {NoneOf} /\ i.proofs = {i.focus.evidence} \ {NoneOf}
  /\ i.focus.claim # NoneOf =>
       /\ i.focus.claim \in Range(ClaimsOf[i.selected])
       /\ i.focus.evidence = EvidenceOfClaim(i.focus.claim)
  /\ i.rail = "CLAIM" => i.focus.claim # NoneOf
  /\ Len(i.trail) = i.version
  /\ dossierShown.asked =>
       /\ Range(dossierShown.sections) = dossierShown.evidence
       /\ PrivateSource \in dossierShown.evidence <=> dossierShown.private
       /\ PrivateSource \notin dossierShown.provisional \cup {c.evidence : c \in dossierShown.candidates}

===============================================================================
