---------------------------- MODULE MCScheduler ----------------------------
(* Small instances of Scheduler for TLC. *)
EXTENDS Scheduler, TLC

CONSTANTS k1, k2, s1, s2

\* Keys and processes are interchangeable; every property checked with it is safety.
Interchangeable == Permutations({k1, k2}) \cup Permutations({s1, s2})

\* run_forever gives every process the same worker id.
OneWorkerId == [s \in Services |-> "scheduler-service"]

\* A job kind that writes nothing and may be tried twice, and the recovery kind.
TwoTriesOrRecovery ==
  {[recovers |-> FALSE, max |-> 2], [recovers |-> TRUE, max |-> 1]}

\* The recovery kind, which may give up its own lease, and may be retried.
RetriedKinds ==
  {[recovers |-> FALSE, max |-> 2], [recovers |-> TRUE, max |-> 2]}
=============================================================================
