-------------------------- MODULE MCResearchSpine --------------------------
(* Small instances of ResearchSpine for TLC. *)
EXTENDS ResearchSpine

CONSTANTS wb, ted, f1, p1, p2, w1, w2

\* A World Bank run and a TED run that rediscover the same fact.
SharedFact == [r \in Runs |-> Facts]

Interchangeable == Permutations(Workers)
=============================================================================
