------------------------------- MODULE Kernels -------------------------------
(***************************************************************************)
(* All decision kernels under one question: what happens to a verdict when *)
(* the evidence behind it gets worse.  A behaviour picks a kernel with the *)
(* best facts and loses evidence one fact and one rung at a time: a right  *)
(* is withdrawn, an observation goes stale, a gate is not evaluated, the   *)
(* kill switch is thrown, the actor turns out to be a model.               *)
(***************************************************************************)
EXTENDS FoundationKernels, BidKernels, StrategyKernels, IntelligenceKernels, LaunchKernels

Phases == 5..24

\* The kernels of a phase, each with the ladders of the facts it reads.
KernelsOf(p) ==
    CASE p = 5 -> P05Kernels [] p = 6 -> P06Kernels [] p = 7 -> P07Kernels [] p = 8 -> P08Kernels
      [] p = 9 -> P09Kernels [] p = 10 -> P10Kernels [] p = 11 -> P11Kernels [] p = 12 -> P12Kernels
      [] p = 13 -> P13Kernels [] p = 14 -> P14Kernels [] p = 15 -> P15Kernels [] p = 16 -> P16Kernels
      [] p = 17 -> P17Kernels [] p = 18 -> P18Kernels [] p = 19 -> P19Kernels [] p = 20 -> P20Kernels
      [] p = 21 -> P21Kernels [] p = 22 -> P22Kernels [] p = 23 -> P23Kernels [] p = 24 -> P24Kernels

SeverityOf(p, k, x) ==
    CASE p = 5 -> P05Severity(k, x) [] p = 6 -> P06Severity(k, x) [] p = 7 -> P07Severity(k, x)
      [] p = 8 -> P08Severity(k, x) [] p = 9 -> P09Severity(k, x) [] p = 10 -> P10Severity(k, x)
      [] p = 11 -> P11Severity(k, x) [] p = 12 -> P12Severity(k, x) [] p = 13 -> P13Severity(k, x)
      [] p = 14 -> P14Severity(k, x) [] p = 15 -> P15Severity(k, x) [] p = 16 -> P16Severity(k, x)
      [] p = 17 -> P17Severity(k, x) [] p = 18 -> P18Severity(k, x) [] p = 19 -> P19Severity(k, x)
      [] p = 20 -> P20Severity(k, x) [] p = 21 -> P21Severity(k, x) [] p = 22 -> P22Severity(k, x)
      [] p = 23 -> P23Severity(k, x) [] p = 24 -> P24Severity(k, x)

VARIABLES
    phase,   \* which reference file
    kernel,  \* which function of it
    rung,    \* for each fact the kernel reads, how far down its ladder it is
    severity \* of the verdict on those facts

kernelVars == <<phase, kernel, rung, severity>>

Facts(p, k, r) == [f \in DOMAIN r |-> KernelsOf(p)[k][f][r[f]]]

KernelsInit ==
    /\ phase \in Phases
    /\ kernel \in DOMAIN KernelsOf(phase)
    /\ rung = [f \in DOMAIN KernelsOf(phase)[kernel] |-> 1]
    /\ severity = SeverityOf(phase, kernel, Facts(phase, kernel, rung))

\* One fact gets worse and the kernel is asked again.
LoseEvidence(f) ==
    /\ rung[f] < Len(KernelsOf(phase)[kernel][f])
    /\ rung' = [rung EXCEPT ![f] = @ + 1]
    /\ severity' = SeverityOf(phase, kernel, Facts(phase, kernel, rung'))
    /\ UNCHANGED <<phase, kernel>>

KernelsNext == \E f \in DOMAIN rung : LoseEvidence(f)

KernelsSpec == KernelsInit /\ [][KernelsNext]_kernelVars

------------------------------------------------------------------------------

\* Kernels in which a lost fact hides a worse one, because a reason to review is
\* looked at before some reason to deny: an unevaluated gate hides a gate that
\* denies, an unobserved state a terminal one, an unknown time zone a deadline
\* that has passed, a contest a share over 100, and a hard trigger moves a
\* retired model back to DEMOTED, from where it may be promoted.
Masking ==
    {<<6, "semantic_parity_decision">>, <<8, "deadline_decision">>, <<8, "eligibility_decision">>,
     <<9, "application_readiness">>, <<10, "market_entry_readiness">>, <<11, "project_readiness">>,
     <<12, "ownership_decision">>, <<12, "account_readiness">>, <<13, "indicator_current">>,
     <<13, "strategy_readiness">>, <<14, "flow_observation_decision">>, <<14, "supply_readiness">>,
     <<15, "project_status_decision">>, <<15, "grid_connection_decision">>, <<15, "emissions_decision">>,
     <<15, "transition_readiness">>, <<16, "patent_status_decision">>, <<16, "research_output_decision">>,
     <<16, "innovation_readiness">>, <<17, "cross_library_readiness">>, <<19, "reconcile_outcome">>,
     <<19, "demotion_decision">>}

\* Kernels that are handed a bare list or mapping, and are not told what it
\* should hold: an entry left out is an entry that does not object.
BareLists ==
    {<<5, "least_authority">>, <<6, "least_document_authority">>, <<7, "work_readiness">>,
     <<8, "readiness_decision">>, <<9, "eligibility_decision">>, <<10, "applicability_decision">>,
     <<11, "stage_evidence_decision">>, <<11, "permit_land_decision">>, <<17, "compose_authority">>,
     <<19, "may_promote_model">>, <<21, "commercial_readiness">>, <<23, "publication_decision">>}

Entries == {"first", "second", "gate1", "gate2", "criterion1", "criterion2", "source", "derived"}

\* Facts whose last rung the kernel takes for a harmless one: the end of an
\* interval nobody knows is an open end, a value outside the vocabulary passes
\* where the listed ones would not, and a subscription that ends with its period
\* is entitled whatever its invoice says.
OpenEnded ==
    {<<5, "resolve_interval", "valid_from">>, <<5, "resolve_interval", "valid_to">>,
     <<11, "project_current", "status">>, <<16, "research_output_decision", "output_type">>,
     <<18, "retention_decision", "retention_class">>,
     <<21, "derive_entitlement_state", "subscription_state">>,
     <<22, "risk_acceptance_decision", "severity">>, <<23, "analytics_decision", "purpose">>,
     <<23, "claim_decision", "evidence_status">>, <<23, "claim_decision", "public_use">>}

\* The fact f reaches its last rung and the kernel cannot tell that it was lost.
GoesUnnoticed(f) ==
    /\ rung'[f] = Len(KernelsOf(phase)[kernel][f])
    /\ \/ <<phase, kernel>> \in BareLists /\ f \in Entries
       \/ <<phase, kernel, f>> \in OpenEnded

\* Losing evidence never turns a verdict into a better one: what was denied is
\* not softened to a review, what was held is not let through.  In the masking
\* kernels it may soften a denial, but still never lets anything through; and
\* the losses named above are the only ones a kernel does not notice.
VerdictNeverImproves ==
    [][\A f \in DOMAIN rung :
           rung'[f] # rung[f] /\ ~GoesUnnoticed(f) =>
               IF <<phase, kernel>> \in Masking THEN severity > 0 => severity' > 0
               ELSE severity' >= severity]_kernelVars
=============================================================================
