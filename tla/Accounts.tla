------------------------------- MODULE Accounts -------------------------------
(***************************************************************************)
(* The accounts side of a tenant: the passwordless identity of its owner   *)
(* and the seats of its organisation.  The two meet in two rows only: the  *)
(* owner's membership, which start_prepared_identity_trial writes and      *)
(* resolve_identity_session reads, and which Identity keeps as ownerSeat.  *)
(* A behaviour follows one of them, chosen at the start.                   *)
(***************************************************************************)
EXTENDS Identity, Seats

LOCAL INSTANCE TLC

VARIABLE side

accountsVars == <<identityVars, seatsVars, side>>

AccountsInit == IdentityInit /\ SeatsInit /\ side \in {"identity", "seats"}

AccountsNext ==
  /\ UNCHANGED side
  /\ \/ side = "identity" /\ IdentityNext /\ UNCHANGED seatsVars
     \/ side = "seats" /\ SeatsNext /\ UNCHANGED identityVars

AccountsSpec == AccountsInit /\ [][AccountsNext]_accountsVars

\* Owners, invited principals, requests and operations are told apart by nothing, and
\* TLC may exchange them.
Interchangeable ==
  Permutations(Requests) \cup Permutations(Calls) \cup Permutations(Ops)
    \cup Permutations(OwnerSubjects)
=============================================================================
