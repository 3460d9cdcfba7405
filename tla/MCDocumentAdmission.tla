------------------------ MODULE MCDocumentAdmission ------------------------
(* Small instances of DocumentAdmission for TLC. *)
EXTENDS DocumentAdmission, TLC

CONSTANTS r1, r2, fact, limit, wrong, f1, f2, p1, p2, w1, w2, m1, m2, v1, v2, y1, y2

\* The frozen fixture of the acceptance scripts: one rederivable fact and one
\* limitation, adverse to it or not.
BothCandidates == [r \in Runs |-> Candidates]

\* One run proposes the fact beside a limitation, the other beside a wrong value of it.
MixedCandidates ==
  [r \in Runs |-> IF r = r1 THEN {fact, limit} ELSE {fact, wrong}]

\* The wrong value claims the same fact; the limitation is one of its own.
OwnFact == [c \in Candidates |-> IF c = limit THEN f2 ELSE f1]

Interchangeable ==
  Permutations(Workers) \cup Permutations(Runtimes) \cup Permutations(Reviewers)
=============================================================================
