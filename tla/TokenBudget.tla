----------------------------- MODULE TokenBudget -----------------------------
(***************************************************************************)
(* What the entitlement ledger promises of the one controlled trial of a   *)
(* tenant: tokens are held before they are spent, what is held and spent   *)
(* never exceeds the budget, settling a hold spends no more than it held,  *)
(* and what was spent is never given back.                                 *)
(***************************************************************************)
EXTENDS Naturals

CONSTANT Budget

VARIABLES held, spent

Init == held = 0 /\ spent = 0

\* reserve_ai_tokens on a trial
Hold(n) ==
  /\ held + spent + n <= Budget
  /\ held' = held + n
  /\ UNCHANGED spent

\* reconcile_ai_tokens (used = what the caller reports) and every release (used = 0)
Settle(n, used) ==
  /\ n <= held
  /\ held' = held - n
  /\ spent' = spent + used

Next ==
  \/ \E n \in 1..Budget : Hold(n)
  \/ \E n \in 1..Budget : \E used \in 0..n : Settle(n, used)

Spec == Init /\ [][Next]_<<held, spent>>
=============================================================================
