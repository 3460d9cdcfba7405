-------------------------------- MODULE Seats --------------------------------
(***************************************************************************)
(* Seat governance of one organisation: seat_routes.py over the functions  *)
(* of 110-seat-governance.sql, and the trigger that copies the product     *)
(* entitlement's plan into the seat row.                                   *)
(*                                                                         *)
(* A function is one step when everything it decides on is under a lock it *)
(* holds.  Three are two steps.  The trigger counts the allocated seats    *)
(* before its upsert locks the seat row.  A membership's revocation and a  *)
(* role change lock that membership only, and then count the owners, whose *)
(* rows another revocation may be about to write.                          *)
(***************************************************************************)
EXTENDS Naturals, FiniteSets

CONSTANTS
  Principals,      \* people, each with the email of its identity
  Ops,             \* operation ids of invitations
  Calls,           \* requests in flight
  OwnerSubjects,   \* AXIGNAL_ORGANISATION_OWNER_SUBJECTS
  Capacities,      \* seat_plan_policies.seat_capacity of the plans
  Roles,           \* the invitable roles of the instance
  SeatStates       \* states of the seat row, ACTIVE among them

\* A seat is allocated either to an invitation or to a member, by a key of its kind; every
\* plan has a seat (the CHECK on seat_capacity).
ASSUME SeatsAssumption ==
  /\ IsFiniteSet(Principals) /\ IsFiniteSet(Ops) /\ Principals \cap Ops = {}
  /\ Capacities \subseteq Nat \ {0}

VARIABLES
  seat,            \* organisation_seat_entitlements: state and capacity
  member,          \* organisation_memberships with its one active role
  inv,             \* organisation_invitations by operation id
  alloc,           \* seat allocations, by the invitation or member that holds it
  call,            \* requests between two transactions, or inside one
  sync,            \* the trigger between its count and its upsert
  mailed           \* invitations whose token reached the invitee

seatsVars == <<seat, member, inv, alloc, call, sync, mailed>>

NoInvitation == [status |-> "NONE", email |-> "NONE", role |-> "NONE", lapsed |-> FALSE]
Free == [pc |-> "idle", by |-> "NONE", op |-> "NONE", target |-> "NONE", role |-> "NONE"]
NoSync == [state |-> "NONE", capacity |-> 0, counted |-> 0]

SeatsInit ==
  /\ seat = [state |-> "NONE", capacity |-> 0]
  /\ member = [p \in Principals |-> [status |-> "NONE", role |-> "NONE"]]
  /\ inv = [o \in Ops |-> NoInvitation]
  /\ alloc = [h \in Ops \cup Principals |-> "NONE"]
  /\ call = [c \in Calls |-> Free]
  /\ sync = NoSync
  /\ mailed = {}

Occupied == Cardinality({h \in DOMAIN alloc : alloc[h] \in {"RESERVED", "ACTIVE"}})
Pending == {o \in Ops : inv[o].status = "PENDING"}
Owners == {p \in Principals : member[p].status = "ACTIVE" /\ member[p].role = "ORG_OWNER"}
IsAdmin(p) == member[p].status = "ACTIVE" /\ member[p].role \in {"ORG_OWNER", "ORG_ADMIN"}

\* seat_access_decision.
Decides(p, write) ==
  /\ member[p].status = "ACTIVE"
  /\ seat.state \in IF write THEN {"ACTIVE"} ELSE {"ACTIVE", "READ_ONLY"}

\* What require_identity asks before every route but bootstrap and acceptance.
MayWrite(p) == Decides(p, TRUE)

\* A set of invitations ends and gives its seats back.
End(ops, status) ==
  /\ inv' = [o \in Ops |-> IF o \in ops THEN [inv[o] EXCEPT !.status = status] ELSE inv[o]]
  /\ alloc' = [h \in DOMAIN alloc |-> IF h \in ops THEN "RELEASED" ELSE alloc[h]]

--------------------------------------------------------------------------------
(* The product entitlement changes: sync_seat_entitlement_from_product *)

SyncCount(state, capacity) ==
  /\ sync = NoSync
  /\ ~(state = "ACTIVE" /\ Occupied > capacity)   \* else the writer is rolled back
  /\ sync' = [state |-> state, capacity |-> capacity, counted |-> Occupied]
  /\ UNCHANGED <<seat, member, inv, alloc, call, mailed>>

SyncWrite ==
  /\ sync # NoSync
  /\ seat' = [state |-> sync.state, capacity |-> sync.capacity]
  /\ IF sync.state = "ACTIVE" THEN UNCHANGED <<inv, alloc>> ELSE End(Pending, "REVOKED")
  /\ sync' = NoSync
  /\ UNCHANGED <<member, call, mailed>>

--------------------------------------------------------------------------------
(* Owners and invitations *)

\* bootstrap_organisation_owner; a membership that exists, revoked or not, stays.
MakeOwner(p) ==
  /\ member[p].status = "NONE"
  /\ seat.state = "ACTIVE"
  /\ \A q \in Principals : member[q].status # "ACTIVE"
  /\ member' = [member EXCEPT ![p] = [status |-> "ACTIVE", role |-> "ORG_OWNER"]]
  /\ alloc' = [alloc EXCEPT ![p] = "ACTIVE"]

BootstrapOwner(p) ==
  /\ p \in OwnerSubjects
  /\ MakeOwner(p)
  /\ UNCHANGED <<seat, inv, call, sync, mailed>>

\* invite_member reads the operation; a known one is answered without a delivery.
InviteMember(c, by, o, email, role) ==
  /\ call[c] = Free
  /\ MayWrite(by)
  /\ inv[o] = NoInvitation
  /\ call' = [call EXCEPT ![c] =
       [pc |-> "reserve", by |-> by, op |-> o, target |-> email, role |-> role]]
  /\ UNCHANGED <<seat, member, inv, alloc, sync, mailed>>

\* Invitations past their time, whose expiry the reservation writes first.
Lapsed == {o \in Pending : inv[o].lapsed}

OneSeatMore(taken) == Occupied - Cardinality(Lapsed) <= taken

\* What reserve_seat_invitation decides on, after that expiry.
SeatAvailable(taken) == Occupied - Cardinality(Lapsed) < taken

Reservable(q) ==
  /\ IsAdmin(q.by)
  /\ seat.state = "ACTIVE"
  /\ member[q.target].status # "ACTIVE"
  /\ \A o \in Pending \ Lapsed : inv[o].email # q.target
  /\ SeatAvailable(seat.capacity)

\* reserve_seat_invitation; another request may have reserved the operation.
ReserveInvitation(c) ==
  LET q == call[c]
      known == inv[q.op] # NoInvitation
      ended == [o \in Ops |-> IF o \in Lapsed THEN [inv[o] EXCEPT !.status = "EXPIRED"] ELSE inv[o]]
      freed == [h \in DOMAIN alloc |-> IF h \in Lapsed THEN "RELEASED" ELSE alloc[h]]
  IN
  /\ q.pc = "reserve"
  /\ IF known \/ ~Reservable(q)
     THEN /\ call' = [call EXCEPT ![c] = Free]
          /\ UNCHANGED <<inv, alloc>>
     ELSE /\ inv' = [ended EXCEPT ![q.op] =
               [status |-> "PENDING", email |-> q.target, role |-> q.role, lapsed |-> FALSE]]
          /\ alloc' = [freed EXCEPT ![q.op] = "RESERVED"]
          /\ call' = [call EXCEPT ![c].pc = "deliver"]
  /\ UNCHANGED <<seat, member, sync, mailed>>

Deliver(c) ==
  /\ call[c].pc = "deliver"
  /\ \/ /\ mailed' = mailed \cup {call[c].op}
        /\ call' = [call EXCEPT ![c] = Free]
     \/ /\ call' = [call EXCEPT ![c].pc = "compensate"]
        /\ UNCHANGED mailed
  /\ UNCHANGED <<seat, member, inv, alloc, sync>>

\* revoke_seat_invitation: an invitation that is over stays as it is.
EndInvitation(o, status) ==
  IF inv[o].status = "PENDING" THEN End({o}, status) ELSE UNCHANGED <<inv, alloc>>

\* The compensation needs the inviter to be an administrator still.
Compensate(c) ==
  LET q == call[c] IN
  /\ q.pc = "compensate"
  /\ IF IsAdmin(q.by) THEN EndInvitation(q.op, "DELIVERY_FAILED") ELSE UNCHANGED <<inv, alloc>>
  /\ call' = [call EXCEPT ![c] = Free]
  /\ UNCHANGED <<seat, member, sync, mailed>>

InvitationLapses(o) ==
  /\ inv[o].status = "PENDING" /\ ~inv[o].lapsed
  /\ inv' = [inv EXCEPT ![o].lapsed = TRUE]
  /\ UNCHANGED <<seat, member, alloc, call, sync, mailed>>

\* The reserved seat becomes the member's.  Members are unique by principal for
\* ever: the insert of one that was revoked before violates the constraint.
Join(p, o) ==
  /\ inv[o].status = "PENDING" /\ ~inv[o].lapsed
  /\ inv[o].email = p
  /\ member[p].status = "NONE"
  /\ member' = [member EXCEPT ![p] = [status |-> "ACTIVE", role |-> inv[o].role]]
  /\ alloc' = [alloc EXCEPT ![o] = "NONE", ![p] = "ACTIVE"]
  /\ inv' = [inv EXCEPT ![o].status = "ACCEPTED"]

AcceptInvitation(p, o) ==
  /\ o \in mailed
  /\ Join(p, o)
  /\ UNCHANGED <<seat, call, sync, mailed>>

RevokeInvitation(by, o) ==
  /\ MayWrite(by) /\ IsAdmin(by)
  /\ inv[o].status = "PENDING"
  /\ EndInvitation(o, "REVOKED")
  /\ UNCHANGED <<seat, member, call, sync, mailed>>

--------------------------------------------------------------------------------
(* Revocations and role changes *)

RowFree(p) == \A c \in Calls : call[c].pc \in {"revoke", "change"} => call[c].target # p

\* The last owner may neither be revoked nor lose the role.
OwnerSpared(p, role) == p \in Owners /\ role # "ORG_OWNER" => Cardinality(Owners) > 1

\* The function has the member's row and has counted the owners.
BeginMemberChange(c, by, p, pc, role) ==
  /\ call[c] = Free
  /\ MayWrite(by) /\ IsAdmin(by)
  /\ RowFree(p)
  /\ member[p].status = "ACTIVE"
  /\ OwnerSpared(p, role)
  /\ call' = [call EXCEPT ![c] =
       [pc |-> pc, by |-> by, op |-> "NONE", target |-> p, role |-> role]]
  /\ UNCHANGED <<seat, member, inv, alloc, sync, mailed>>

RevokeWithoutRelease(c) ==
  LET p == call[c].target IN
  /\ call[c].pc = "revoke"
  /\ member' = [member EXCEPT ![p] = [status |-> "REVOKED", role |-> "NONE"]]
  /\ call' = [call EXCEPT ![c] = Free]
  /\ UNCHANGED <<seat, inv, alloc, sync, mailed>>

RevokeMembership(c) ==
  LET p == call[c].target IN
  /\ call[c].pc = "revoke"
  /\ member' = [member EXCEPT ![p] = [status |-> "REVOKED", role |-> "NONE"]]
  /\ alloc' = [alloc EXCEPT ![p] = "RELEASED"]
  /\ call' = [call EXCEPT ![c] = Free]
  /\ UNCHANGED <<seat, inv, sync, mailed>>

ChangeMembershipRole(c) ==
  /\ call[c].pc = "change"
  /\ member' = [member EXCEPT ![call[c].target].role = call[c].role]
  /\ call' = [call EXCEPT ![c] = Free]
  /\ UNCHANGED <<seat, inv, alloc, sync, mailed>>

\* The process dies: an open transaction is rolled back.
Crash(c) ==
  /\ call[c] # Free
  /\ call' = [call EXCEPT ![c] = Free]
  /\ UNCHANGED <<seat, member, inv, alloc, sync, mailed>>

SeatsNext ==
  \/ \E capacity \in Capacities, state \in SeatStates :
       SyncCount(state, capacity)
  \/ SyncWrite
  \/ \E p \in Principals : BootstrapOwner(p)
  \/ \E o \in Ops :
       \/ InvitationLapses(o)
       \/ \E p \in Principals : AcceptInvitation(p, o) \/ RevokeInvitation(p, o)
  \/ \E c \in Calls :
       \/ \E by, p \in Principals :
            \/ \E o \in Ops, role \in Roles : InviteMember(c, by, o, p, role)
            \/ BeginMemberChange(c, by, p, "revoke", "NONE")
            \/ \E role \in Roles \cup {"ORG_OWNER"} : BeginMemberChange(c, by, p, "change", role)
       \/ ReserveInvitation(c) \/ Deliver(c) \/ Compensate(c)
       \/ RevokeMembership(c) \/ ChangeMembershipRole(c) \/ Crash(c)

SeatsSpec == SeatsInit /\ [][SeatsNext]_seatsVars

--------------------------------------------------------------------------------
SeatsTypeOK ==
  /\ seat.state \in {"NONE", "ACTIVE", "READ_ONLY", "SUSPENDED", "CANCELLED"}
  /\ \A p \in Principals :
       /\ member[p].status \in {"NONE", "ACTIVE", "REVOKED"}
       /\ member[p].status = "ACTIVE" <=> member[p].role # "NONE"
  /\ \A c \in Calls : call[c].pc \in {"idle", "reserve", "deliver", "compensate", "revoke", "change"}

(* The seat books agree: an active membership holds exactly one active seat,   *)
(* a pending invitation exactly one reserved seat, and nothing else holds any, *)
(* across acceptances, compensations, expiries and plan changes in any order.  *)
SeatBooksAgree ==
  /\ \A p \in Principals : alloc[p] = "ACTIVE" <=> member[p].status = "ACTIVE"
  /\ \A o \in Ops : alloc[o] = "RESERVED" <=> inv[o].status = "PENDING"
  /\ \A h \in DOMAIN alloc : alloc[h] = "RESERVED" => h \in Ops

(* Seats are oversold only by the races the locks leave open: a plan change that *)
(* counted the seats before a reservation committed, and locked the seat row     *)
(* after it; and a new owner of an organisation whose owners revoked each other, *)
(* which bootstrap_organisation_owner seats without counting.                    *)
OversoldOnlyByRaces ==
  [][seat'.state = "ACTIVE" /\ Occupied' > seat'.capacity =>
       \/ seat.state = "ACTIVE" /\ Occupied > seat.capacity /\ Occupied' <= Occupied
       \/ sync # NoSync /\ sync' = NoSync /\ sync.counted < Occupied
       \/ Owners = {} /\ Owners' # {} /\ \E p \in Principals : member[p].status = "REVOKED"]_seatsVars

(* "The last active owner cannot be revoked or demoted": an organisation that  *)
(* has members has an owner.                                                   *)
OwnerRemains ==
  (\E p \in Principals : member[p].status # "NONE") => Owners # {}
================================================================================
