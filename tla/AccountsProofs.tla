---------------------------- MODULE AccountsProofs ----------------------------
(***************************************************************************)
(* Theorems about Accounts, for every number of people, credentials,       *)
(* sessions, invitations and requests in flight and every set of plans.    *)
(***************************************************************************)
EXTENDS Accounts, FiniteSetTheorems, SequenceTheorems, TLAPS

--------------------------------------------------------------------------------
(* Seats *)

SeatRoles == Roles \cup {"NONE", "ORG_OWNER"}
Members == [status : {"NONE", "ACTIVE", "REVOKED"}, role : SeatRoles]
Invitations ==
  [status : {"NONE", "PENDING", "ACCEPTED", "REVOKED", "EXPIRED", "DELIVERY_FAILED"},
   email : Principals \cup {"NONE"}, role : SeatRoles, lapsed : BOOLEAN]
SeatCalls ==
  [pc : {"idle", "reserve", "deliver", "compensate", "revoke", "change"},
   by : Principals \cup {"NONE"}, op : Ops \cup {"NONE"}, target : Principals \cup {"NONE"}, role : SeatRoles]

SeatTables ==
  /\ member \in [Principals -> Members]
  /\ inv \in [Ops -> Invitations]
  /\ alloc \in [Ops \cup Principals -> {"NONE", "RESERVED", "ACTIVE", "RELEASED"}]

\* What the rows say of each other is inductive once a request in flight is known to name
\* an invitation, or a member, that the tables have.
SeatRequests ==
  /\ call \in [Calls -> SeatCalls]
  /\ \A c \in Calls :
       /\ call[c].pc \in {"reserve", "deliver", "compensate"} =>
            call[c].op \in Ops /\ call[c].target \in Principals /\ call[c].by \in Principals
       /\ call[c].pc \in {"revoke", "change"} => call[c].target \in Principals

SeatsInv == SeatTables /\ SeatRequests /\ SeatBooksAgree

\* reserve, compensate, revoke and the plan change end invitations in the same way: a
\* pending one that ends gives its seat back, and no other loses one.
LEMMA EndKeepsBooks ==
  ASSUME SeatTables, SeatBooksAgree, UNCHANGED member,
         NEW ops \in SUBSET Pending,
         NEW status \in {"REVOKED", "EXPIRED", "DELIVERY_FAILED"}, End(ops, status)
  PROVE  SeatTables' /\ SeatBooksAgree'
<1>1. ops \subseteq Ops
  BY DEF Pending
<1>2. SeatTables'
  <2>1. inv' \in [Ops -> Invitations]
    BY <1>1 DEF SeatTables, End, Invitations
  <2>2. alloc' \in [Ops \cup Principals -> {"NONE", "RESERVED", "ACTIVE", "RELEASED"}]
    BY <1>1 DEF SeatTables, End
  <2>3. QED
    BY <2>1, <2>2 DEF SeatTables
<1>3. SeatBooksAgree'
  <2>1. ASSUME NEW p \in Principals PROVE alloc'[p] = "ACTIVE" <=> member'[p].status = "ACTIVE"
    BY <1>1, <2>1, SeatsAssumption DEF SeatTables, SeatBooksAgree, End
  <2>2. ASSUME NEW o \in Ops PROVE alloc'[o] = "RESERVED" <=> inv'[o].status = "PENDING"
    BY <1>1, <2>2 DEF SeatTables, SeatBooksAgree, End, Invitations
  <2>3. ASSUME NEW h \in DOMAIN alloc', alloc'[h] = "RESERVED" PROVE h \in Ops
    BY <1>1, <2>3 DEF SeatTables, SeatBooksAgree, End
  <2>4. QED
    BY <2>1, <2>2, <2>3 DEF SeatBooksAgree
<1>4. QED
  BY <1>2, <1>3

\* revoke_seat_invitation, on an invitation that is pending or over.
LEMMA EndInvitationKeepsBooks ==
  ASSUME SeatTables, SeatBooksAgree, UNCHANGED member, NEW o \in Ops,
         NEW status \in {"REVOKED", "DELIVERY_FAILED"}, EndInvitation(o, status)
  PROVE  SeatTables' /\ SeatBooksAgree'
<1>1. CASE inv[o].status = "PENDING"
  <2>1. {o} \in SUBSET Pending /\ End({o}, status)
    BY <1>1 DEF EndInvitation, Pending
  <2>2. QED
    BY <2>1, EndKeepsBooks
<1>2. CASE inv[o].status # "PENDING"
  BY <1>2 DEF EndInvitation, SeatTables, SeatBooksAgree
<1>3. QED
  BY <1>1, <1>2

\* reserve_seat_invitation ends the lapsed invitations and then takes a seat for its own.
LEMMA ReserveKeepsBooks ==
  ASSUME SeatsInv, NEW c \in Calls, ReserveInvitation(c)
  PROVE  SeatTables' /\ SeatBooksAgree'
<1> DEFINE q == call[c]
           reserves == ~(inv[q.op] # NoInvitation \/ ~Reservable(q))
<1>1. CASE ~reserves
  BY <1>1 DEF ReserveInvitation, SeatsInv, SeatTables, SeatBooksAgree
<1>2. CASE reserves
  <2> DEFINE ended == [o \in Ops |-> IF o \in Lapsed THEN [inv[o] EXCEPT !.status = "EXPIRED"] ELSE inv[o]]
             freed == [h \in DOMAIN alloc |-> IF h \in Lapsed THEN "RELEASED" ELSE alloc[h]]
             made == [status |-> "PENDING", email |-> q.target, role |-> q.role, lapsed |-> FALSE]
  <2>1. q.op \in Ops /\ made \in Invitations /\ Lapsed \subseteq Ops
    BY <1>2 DEF ReserveInvitation, SeatsInv, SeatRequests, SeatCalls, Invitations, Lapsed, Pending
  <2>2. inv' = [ended EXCEPT ![q.op] = made] /\ alloc' = [freed EXCEPT ![q.op] = "RESERVED"] /\ UNCHANGED member
    BY <1>2 DEF ReserveInvitation
  <2>3. SeatTables'
    <3>1. inv' \in [Ops -> Invitations]
      BY <2>1, <2>2 DEF SeatsInv, SeatTables, Invitations
    <3>2. alloc' \in [Ops \cup Principals -> {"NONE", "RESERVED", "ACTIVE", "RELEASED"}]
      BY <2>1, <2>2 DEF SeatsInv, SeatTables
    <3>3. QED
      BY <2>2, <3>1, <3>2 DEF SeatsInv, SeatTables
  <2>4. ASSUME NEW p \in Principals PROVE alloc'[p] = "ACTIVE" <=> member'[p].status = "ACTIVE"
    BY <2>1, <2>2, <2>4, SeatsAssumption DEF SeatsInv, SeatTables, SeatBooksAgree
  <2>5. ASSUME NEW o \in Ops PROVE alloc'[o] = "RESERVED" <=> inv'[o].status = "PENDING"
    <3>1. CASE o = q.op
      BY <2>1, <2>2, <3>1 DEF SeatsInv, SeatTables
    <3>2. CASE o # q.op /\ o \in Lapsed
      BY <2>1, <2>2, <3>2 DEF SeatsInv, SeatTables, Invitations
    <3>3. CASE o # q.op /\ o \notin Lapsed
      BY <2>1, <2>2, <3>3 DEF SeatsInv, SeatTables, SeatBooksAgree
    <3>4. QED
      BY <3>1, <3>2, <3>3
  <2>6. ASSUME NEW h \in DOMAIN alloc', alloc'[h] = "RESERVED" PROVE h \in Ops
    BY <2>1, <2>2, <2>6 DEF SeatsInv, SeatTables, SeatBooksAgree
  <2>7. QED
    BY <2>3, <2>4, <2>5, <2>6 DEF SeatBooksAgree
<1>3. QED
  BY <1>1, <1>2

LEMMA SeatsInitially == SeatsInit => SeatsInv
<1> SUFFICES ASSUME SeatsInit PROVE SeatsInv
  OBVIOUS
<1>1. SeatTables
  BY DEF SeatsInit, SeatTables, Members, Invitations, NoInvitation, SeatRoles
<1>2. SeatRequests
  BY DEF SeatsInit, SeatRequests, SeatCalls, Free, SeatRoles
<1>3. SeatBooksAgree
  BY DEF SeatsInit, SeatBooksAgree, NoInvitation
<1>4. QED
  BY <1>1, <1>2, <1>3 DEF SeatsInv

LEMMA RequestsKept ==
  ASSUME SeatsInv, [SeatsNext]_seatsVars
  PROVE  SeatRequests'
<1> USE DEF SeatsInv, SeatRequests
<1>1. ASSUME UNCHANGED call PROVE SeatRequests'
  BY <1>1
<1>2. ASSUME NEW c \in Calls, call' = [call EXCEPT ![c] = Free] PROVE SeatRequests'
  BY <1>2 DEF Free, SeatCalls, SeatRoles
<1>3. ASSUME NEW c \in Calls, NEW pc \in {"deliver", "compensate"}, call[c].pc \in {"reserve", "deliver"},
             call' = [call EXCEPT ![c].pc = pc]
      PROVE  SeatRequests'
  BY <1>3 DEF SeatCalls
<1>4. ASSUME NEW c \in Calls, NEW by \in Principals, NEW o \in Ops, NEW p \in Principals, NEW role \in Roles,
             InviteMember(c, by, o, p, role)
      PROVE  SeatRequests'
  BY <1>4 DEF InviteMember, SeatCalls, SeatRoles
<1>5. ASSUME NEW c \in Calls, NEW by \in Principals, NEW p \in Principals, NEW pc \in {"revoke", "change"},
             NEW role \in SeatRoles, BeginMemberChange(c, by, p, pc, role)
      PROVE  SeatRequests'
  BY <1>5 DEF BeginMemberChange, SeatCalls
<1>6. ASSUME NEW c \in Calls, ReserveInvitation(c) PROVE SeatRequests'
  BY <1>2, <1>3, <1>6 DEF ReserveInvitation
<1>7. ASSUME NEW c \in Calls, Deliver(c) PROVE SeatRequests'
  BY <1>2, <1>3, <1>7 DEF Deliver
<1>8. QED
  BY <1>1, <1>2, <1>4, <1>5, <1>6, <1>7
  DEF SeatsNext, seatsVars, SyncCount, SyncWrite, BootstrapOwner, InvitationLapses, AcceptInvitation,
      RevokeInvitation, Compensate, RevokeMembership, ChangeMembershipRole, Crash, SeatRoles

\* A member changes: joins by a seat reserved or made, or leaves with the seat.
LEMMA BooksKept ==
  ASSUME SeatsInv, [SeatsNext]_seatsVars
  PROVE  SeatTables' /\ SeatBooksAgree'
<1>1. ASSUME UNCHANGED <<member, inv, alloc>> PROVE SeatTables' /\ SeatBooksAgree'
  BY <1>1 DEF SeatsInv, SeatTables, SeatBooksAgree
<1>2. CASE SyncWrite
  <2>1. CASE sync.state = "ACTIVE"
    BY <1>1, <1>2, <2>1 DEF SyncWrite
  <2>2. CASE sync.state # "ACTIVE"
    <3>1. End(Pending, "REVOKED") /\ UNCHANGED member
      BY <1>2, <2>2 DEF SyncWrite
    <3>2. QED
      BY <3>1, EndKeepsBooks DEF SeatsInv
  <2>3. QED
    BY <2>1, <2>2
<1>3. ASSUME NEW p \in Principals, BootstrapOwner(p) PROVE SeatTables' /\ SeatBooksAgree'
  <2>1. SeatTables'
    BY <1>3 DEF SeatsInv, SeatTables, BootstrapOwner, MakeOwner, Members, SeatRoles
  <2>2. SeatBooksAgree'
    BY <1>3, SeatsAssumption DEF SeatsInv, SeatTables, SeatBooksAgree, BootstrapOwner, MakeOwner, Members
  <2>3. QED
    BY <2>1, <2>2
<1>4. ASSUME NEW o \in Ops, InvitationLapses(o) PROVE SeatTables' /\ SeatBooksAgree'
  <2>1. SeatTables'
    BY <1>4 DEF SeatsInv, SeatTables, InvitationLapses, Invitations
  <2>2. SeatBooksAgree'
    BY <1>4 DEF SeatsInv, SeatTables, SeatBooksAgree, InvitationLapses, Invitations
  <2>3. QED
    BY <2>1, <2>2
<1>5. ASSUME NEW p \in Principals, NEW o \in Ops, AcceptInvitation(p, o) PROVE SeatTables' /\ SeatBooksAgree'
  <2>1. SeatTables'
    BY <1>5 DEF SeatsInv, SeatTables, AcceptInvitation, Join, Members, Invitations
  <2>2. ASSUME NEW r \in Principals PROVE alloc'[r] = "ACTIVE" <=> member'[r].status = "ACTIVE"
    BY <1>5, <2>2, SeatsAssumption DEF SeatsInv, SeatTables, SeatBooksAgree, AcceptInvitation, Join, Members
  <2>3. ASSUME NEW i \in Ops PROVE alloc'[i] = "RESERVED" <=> inv'[i].status = "PENDING"
    BY <1>5, <2>3, SeatsAssumption DEF SeatsInv, SeatTables, SeatBooksAgree, AcceptInvitation, Join, Invitations
  <2>4. ASSUME NEW h \in DOMAIN alloc', alloc'[h] = "RESERVED" PROVE h \in Ops
    BY <1>5, <2>4 DEF SeatsInv, SeatTables, SeatBooksAgree, AcceptInvitation, Join
  <2>5. QED
    BY <2>1, <2>2, <2>3, <2>4 DEF SeatBooksAgree
<1>6. ASSUME NEW p \in Principals, NEW o \in Ops, RevokeInvitation(p, o) PROVE SeatTables' /\ SeatBooksAgree'
  BY <1>6, EndInvitationKeepsBooks DEF SeatsInv, RevokeInvitation
<1>7. ASSUME NEW c \in Calls, ReserveInvitation(c) PROVE SeatTables' /\ SeatBooksAgree'
  BY <1>7, ReserveKeepsBooks
<1>8. ASSUME NEW c \in Calls, Compensate(c) PROVE SeatTables' /\ SeatBooksAgree'
  <2>1. CASE IsAdmin(call[c].by)
    <3>1. call[c].op \in Ops /\ EndInvitation(call[c].op, "DELIVERY_FAILED") /\ UNCHANGED member
      BY <1>8, <2>1 DEF SeatsInv, SeatRequests, Compensate
    <3>2. QED
      BY <3>1, EndInvitationKeepsBooks DEF SeatsInv
  <2>2. CASE ~IsAdmin(call[c].by)
    BY <1>1, <1>8, <2>2 DEF Compensate
  <2>3. QED
    BY <2>1, <2>2
<1>9. ASSUME NEW c \in Calls, RevokeMembership(c) PROVE SeatTables' /\ SeatBooksAgree'
  <2>1. call[c].target \in Principals
    BY <1>9 DEF SeatsInv, SeatRequests, RevokeMembership
  <2>2. SeatTables'
    BY <1>9, <2>1 DEF SeatsInv, SeatTables, RevokeMembership, Members, SeatRoles
  <2>3. SeatBooksAgree'
    BY <1>9, <2>1, SeatsAssumption DEF SeatsInv, SeatTables, SeatBooksAgree, RevokeMembership, Members
  <2>4. QED
    BY <2>2, <2>3
<1>10. ASSUME NEW c \in Calls, ChangeMembershipRole(c) PROVE SeatTables' /\ SeatBooksAgree'
  <2>1. call[c].target \in Principals /\ call[c].role \in SeatRoles
    BY <1>10 DEF SeatsInv, SeatRequests, SeatCalls, ChangeMembershipRole
  <2>2. SeatTables'
    BY <1>10, <2>1 DEF SeatsInv, SeatTables, ChangeMembershipRole, Members
  <2>3. SeatBooksAgree'
    BY <1>10, <2>1 DEF SeatsInv, SeatTables, SeatBooksAgree, ChangeMembershipRole, Members
  <2>4. QED
    BY <2>2, <2>3
<1>11. QED
  BY <1>1, <1>2, <1>3, <1>4, <1>5, <1>6, <1>7, <1>8, <1>9, <1>10
  DEF SeatsNext, seatsVars, SyncCount, InviteMember, BeginMemberChange, Deliver, Crash

\* Every active membership holds one active seat and every pending invitation one reserved
\* seat, in whatever order reserve_seat_invitation, accept_seat_invitation, the
\* compensation, the revocations and the plan trigger commit.
THEOREM SeatsBalance == AccountsSpec => []SeatBooksAgree
<1>1. AccountsInit => SeatsInv
  BY SeatsInitially DEF AccountsInit
<1>2. SeatsInv /\ [AccountsNext]_accountsVars => SeatsInv'
  BY RequestsKept, BooksKept DEF AccountsNext, accountsVars, SeatsInv
<1>3. SeatsInv => SeatBooksAgree
  BY DEF SeatsInv
<1>4. QED
  BY <1>1, <1>2, <1>3, PTL DEF AccountsSpec

--------------------------------------------------------------------------------
(* Overselling *)

Holders == {h \in Ops \cup Principals : alloc[h] \in {"RESERVED", "ACTIVE"}}

\* What a count of seats relies on: the plan's capacity, the count the trigger holds, and
\* that nobody is invited to an organisation that never had a member.
SeatCounts ==
  /\ \A o \in Ops : alloc[o] # "ACTIVE"
  /\ seat.state = "ACTIVE" => seat.capacity \in Nat \ {0}
  /\ sync.state = "ACTIVE" => sync.capacity \in Nat \ {0} /\ sync.counted \in Nat /\ sync.counted <= sync.capacity
  /\ (\A p \in Principals : member[p].status = "NONE") => \A o \in Ops : inv[o].status = "NONE"

\* Occupied counts the keys that hold a seat.
LEMMA OccupiedCounts ==
  ASSUME SeatTables
  PROVE  IsFiniteSet(Holders) /\ Occupied = Cardinality(Holders) /\ Occupied \in Nat
<1>1. IsFiniteSet(Ops \cup Principals)
  BY SeatsAssumption, FS_Union
<1>2. IsFiniteSet(Holders)
  BY <1>1, FS_Subset DEF Holders
<1>3. {h \in DOMAIN alloc : alloc[h] \in {"RESERVED", "ACTIVE"}} = Holders
  BY DEF SeatTables, Holders
<1>4. QED
  BY <1>2, <1>3, FS_CardinalityType DEF Occupied

LEMMA OccupiedCountsAfter ==
  ASSUME SeatTables'
  PROVE  IsFiniteSet(Holders') /\ Occupied' = Cardinality(Holders') /\ Occupied' \in Nat
<1>1. IsFiniteSet(Ops \cup Principals)
  BY SeatsAssumption, FS_Union
<1>2. IsFiniteSet(Holders')
  BY <1>1, FS_Subset DEF Holders
<1>3. {h \in DOMAIN alloc' : alloc'[h] \in {"RESERVED", "ACTIVE"}} = Holders'
  BY DEF SeatTables, Holders
<1>4. QED
  BY <1>2, <1>3, FS_CardinalityType DEF Occupied

LEMMA SeatCountsInitially == SeatsInit => SeatCounts
BY DEF SeatsInit, SeatCounts, NoSync, NoInvitation

LEMMA SeatCountsKept ==
  ASSUME SeatsInv, SeatCounts, [SeatsNext]_seatsVars
  PROVE  SeatCounts'
<1> USE DEF SeatCounts
<1>1. ASSUME UNCHANGED <<seat, sync, member, inv, alloc>> PROVE SeatCounts'
  BY <1>1
<1>2. ASSUME NEW ops, NEW status, ops \subseteq Pending, End(ops, status), UNCHANGED member
      PROVE  /\ \A o \in Ops : alloc'[o] # "ACTIVE"
             /\ (\A p \in Principals : member'[p].status = "NONE") => \A o \in Ops : inv'[o].status = "NONE"
  BY <1>2 DEF End, SeatsInv, SeatTables, Pending
<1>3. ASSUME NEW o \in Ops, NEW status, EndInvitation(o, status), UNCHANGED <<seat, sync, member>>
      PROVE  SeatCounts'
  <2>1. CASE inv[o].status = "PENDING"
    <3>1. {o} \subseteq Pending /\ End({o}, status)
      BY <1>3, <2>1 DEF EndInvitation, Pending
    <3>2. QED
      BY <1>2, <1>3, <3>1
  <2>2. CASE inv[o].status # "PENDING"
    BY <1>3, <2>2 DEF EndInvitation
  <2>3. QED
    BY <2>1, <2>2
<1>4. ASSUME NEW capacity \in Capacities, NEW state \in SeatStates, SyncCount(state, capacity) PROVE SeatCounts'
  <2>1. capacity \in Nat \ {0} /\ Occupied \in Nat
    BY SeatsAssumption, OccupiedCounts DEF SeatsInv
  <2>2. sync'.state = "ACTIVE" =>
          sync'.capacity \in Nat \ {0} /\ sync'.counted \in Nat /\ sync'.counted <= sync'.capacity
    BY <1>4, <2>1 DEF SyncCount
  <2>3. QED
    BY <1>4, <2>2 DEF SyncCount
<1>5. CASE SyncWrite
  <2>1. seat'.state = "ACTIVE" => seat'.capacity \in Nat \ {0}
    BY <1>5 DEF SyncWrite
  <2>2. sync'.state = "NONE" /\ UNCHANGED member
    BY <1>5 DEF SyncWrite, NoSync
  <2>3. CASE sync.state = "ACTIVE"
    BY <1>5, <2>1, <2>2, <2>3 DEF SyncWrite
  <2>4. CASE sync.state # "ACTIVE"
    <3>1. Pending \subseteq Pending /\ End(Pending, "REVOKED")
      BY <1>5, <2>4 DEF SyncWrite
    <3>2. QED
      BY <1>2, <2>1, <2>2, <3>1
  <2>5. QED
    BY <2>3, <2>4
<1>6. ASSUME NEW p \in Principals, BootstrapOwner(p) PROVE SeatCounts'
  BY <1>6, SeatsAssumption DEF BootstrapOwner, MakeOwner, SeatsInv, SeatTables
<1>7. ASSUME NEW p \in Principals, NEW o \in Ops, AcceptInvitation(p, o) PROVE SeatCounts'
  BY <1>7, SeatsAssumption DEF AcceptInvitation, Join, SeatsInv, SeatTables
<1>8. ASSUME NEW o \in Ops, InvitationLapses(o) PROVE SeatCounts'
  BY <1>8 DEF InvitationLapses, SeatsInv, SeatTables, Invitations
<1>9. ASSUME NEW p \in Principals, NEW o \in Ops, RevokeInvitation(p, o) PROVE SeatCounts'
  BY <1>3, <1>9 DEF RevokeInvitation
<1>10. ASSUME NEW c \in Calls, Compensate(c) PROVE SeatCounts'
  <2>1. call[c].op \in Ops
    BY <1>10 DEF Compensate, SeatsInv, SeatRequests
  <2>2. QED
    BY <1>1, <1>3, <1>10, <2>1 DEF Compensate
<1>11. ASSUME NEW c \in Calls, RevokeMembership(c) PROVE SeatCounts'
  <2>1. call[c].target \in Principals
    BY <1>11 DEF RevokeMembership, SeatsInv, SeatRequests
  <2>2. \E p \in Principals : member'[p].status # "NONE"
    BY <1>11, <2>1 DEF RevokeMembership, SeatsInv, SeatTables
  <2>3. \A o \in Ops : alloc'[o] # "ACTIVE"
    BY <1>11, <2>1 DEF RevokeMembership, SeatsInv, SeatTables
  <2>4. QED
    BY <1>11, <2>2, <2>3 DEF RevokeMembership
<1>12. ASSUME NEW c \in Calls, ChangeMembershipRole(c) PROVE SeatCounts'
  <2>1. \A p \in Principals : member'[p].status = member[p].status
    BY <1>12 DEF ChangeMembershipRole, SeatsInv, SeatTables, SeatRequests, Members
  <2>2. QED
    BY <1>12, <2>1 DEF ChangeMembershipRole
<1>13. ASSUME NEW c \in Calls, ReserveInvitation(c) PROVE SeatCounts'
  <2>1. CASE inv[call[c].op] # NoInvitation \/ ~Reservable(call[c])
    BY <1>13, <2>1 DEF ReserveInvitation
  <2>2. CASE Reservable(call[c]) /\ inv[call[c].op] = NoInvitation
    <3>1. \E p \in Principals : member'[p].status # "NONE"
      <4>1. IsAdmin(call[c].by) /\ UNCHANGED member
        BY <1>13, <2>2 DEF ReserveInvitation, Reservable
      <4>2. call[c].by \in Principals
        BY <1>13 DEF ReserveInvitation, SeatsInv, SeatRequests
      <4>3. QED
        BY <4>1, <4>2 DEF IsAdmin
    <3>2. \A o \in Ops : alloc'[o] # "ACTIVE"
      BY <1>13, <2>2 DEF ReserveInvitation, SeatsInv, SeatTables, SeatRequests
    <3>3. QED
      BY <1>13, <3>1, <3>2 DEF ReserveInvitation
  <2>3. QED
    BY <2>1, <2>2
<1>14. QED
  BY <1>1, <1>4, <1>5, <1>6, <1>7, <1>8, <1>9, <1>10, <1>11, <1>12, <1>13
  DEF SeatsNext, seatsVars, InviteMember, BeginMemberChange, Deliver, Crash

\* The three ways a plan is oversold, which OversoldOnlyByRaces allows.
StillOversold == seat.state = "ACTIVE" /\ Occupied > seat.capacity /\ Occupied' <= Occupied
CountWasStale == sync # NoSync /\ sync' = NoSync /\ sync.counted < Occupied
OwnersWereGone == Owners = {} /\ Owners' # {} /\ \E p \in Principals : member[p].status = "REVOKED"

Oversells == seat'.state = "ACTIVE" /\ Occupied' > seat'.capacity

\* A step that seats nobody oversells nothing.
LEMMA FewerSeats ==
  ASSUME SeatTables, SeatTables', SeatCounts, UNCHANGED seat, Holders' \subseteq Holders, Oversells
  PROVE  StillOversold
<1>1. Occupied' <= Occupied
  BY OccupiedCounts, OccupiedCountsAfter, FS_Subset
<1>2. Occupied \in Nat /\ Occupied' \in Nat
  BY OccupiedCounts, OccupiedCountsAfter
<1>3. QED
  BY <1>1, <1>2 DEF Oversells, StillOversold, SeatCounts

LEMMA PlanChangeOversells ==
  ASSUME SeatTables, SeatCounts, SyncWrite, Oversells
  PROVE  CountWasStale
<1>1. sync.state = "ACTIVE" /\ seat'.capacity = sync.capacity /\ sync' = NoSync /\ sync # NoSync
  BY DEF SyncWrite, Oversells
<1>2. Occupied' = Occupied
  BY <1>1 DEF SyncWrite, Occupied
<1>3. QED
  BY <1>1, <1>2, OccupiedCounts DEF Oversells, CountWasStale, SeatCounts

\* The first owner of an organisation takes its first seat.
LEMMA NewOwnerOversells ==
  ASSUME SeatsInv, SeatTables', SeatCounts, NEW p \in Principals, BootstrapOwner(p), Oversells
  PROVE  OwnersWereGone
<1>1. Owners = {}
  BY DEF BootstrapOwner, MakeOwner, Owners
<1>2. p \in Owners'
  BY DEF BootstrapOwner, MakeOwner, Owners, SeatsInv, SeatTables, Members
<1>3. \E q \in Principals : member[q].status = "REVOKED"
  <2> SUFFICES ASSUME \A q \in Principals : member[q].status # "REVOKED" PROVE FALSE
    OBVIOUS
  <2>1. \A q \in Principals : member[q].status = "NONE"
    BY DEF BootstrapOwner, MakeOwner, SeatsInv, SeatTables, Members
  <2>2. \A o \in Ops : inv[o].status = "NONE"
    BY <2>1 DEF SeatCounts
  <2>3. Holders = {}
    BY <2>1, <2>2 DEF Holders, SeatsInv, SeatTables, SeatBooksAgree, SeatCounts
  <2>4. Holders' \subseteq {p}
    BY <2>3 DEF BootstrapOwner, MakeOwner, SeatsInv, SeatTables, Holders
  <2>5. Occupied' <= 1
    <3>1. IsFiniteSet({p}) /\ Cardinality({p}) = 1
      BY FS_Singleton
    <3>2. Cardinality(Holders') <= 1
      BY <2>4, <3>1, FS_Subset
    <3>3. QED
      BY <3>2, OccupiedCountsAfter
  <2>6. QED
    BY <2>5, OccupiedCountsAfter DEF BootstrapOwner, MakeOwner, SeatCounts, Oversells
<1>4. QED
  BY <1>1, <1>2, <1>3 DEF OwnersWereGone

\* An acceptance moves one seat.
LEMMA AcceptanceMovesASeat ==
  ASSUME SeatsInv, SeatTables', NEW p \in Principals, NEW o \in Ops, AcceptInvitation(p, o)
  PROVE  Occupied' = Occupied
<1>1. o \in Holders /\ p \notin Holders
  <2>1. alloc[o] = "RESERVED"
    BY DEF AcceptInvitation, Join, SeatsInv, SeatBooksAgree
  <2>2. alloc[p] # "ACTIVE" /\ alloc[p] # "RESERVED"
    BY SeatsAssumption DEF AcceptInvitation, Join, SeatsInv, SeatTables, SeatBooksAgree
  <2>3. QED
    BY <2>1, <2>2 DEF Holders
<1>2. Holders' = (Holders \ {o}) \cup {p}
  BY SeatsAssumption DEF AcceptInvitation, Join, Holders, SeatsInv, SeatTables
<1>3. IsFiniteSet(Holders) /\ IsFiniteSet(Holders \ {o}) /\ p \notin Holders \ {o}
  BY <1>1, OccupiedCounts, FS_Subset DEF SeatsInv
<1>4. Cardinality(Holders \ {o}) = Cardinality(Holders) - 1
  BY <1>1, <1>3, FS_RemoveElement
<1>5. Cardinality((Holders \ {o}) \cup {p}) = Cardinality(Holders \ {o}) + 1
  BY <1>3, FS_AddElement
<1>6. QED
  BY <1>2, <1>4, <1>5, OccupiedCounts, OccupiedCountsAfter DEF SeatsInv

\* A reservation counts the seats under the seat row's lock.
LEMMA ReservationFits ==
  ASSUME SeatsInv, SeatTables', SeatCounts, NEW c \in Calls, ReserveInvitation(c),
         inv[call[c].op] = NoInvitation, Reservable(call[c])
  PROVE  ~Oversells
<1> DEFINE o == call[c].op
           kept == Holders \ Lapsed
<1>1. o \in Ops /\ Lapsed \subseteq Ops
  BY DEF ReserveInvitation, SeatsInv, SeatRequests, Lapsed, Pending
<1>2. Lapsed \subseteq Holders
  BY DEF Lapsed, Pending, Holders, SeatsInv, SeatBooksAgree
<1>3. Holders' \subseteq kept \cup {o}
  BY <1>1 DEF ReserveInvitation, Holders, SeatsInv, SeatTables
<1>4. IsFiniteSet(Holders) /\ IsFiniteSet(Lapsed) /\ IsFiniteSet(kept)
  BY <1>2, OccupiedCounts, FS_Subset DEF SeatsInv
<1>5. Cardinality(kept) = Occupied - Cardinality(Lapsed)
  <2>1. Holders \cap Lapsed = Lapsed
    BY <1>2
  <2>2. Cardinality(kept) = Cardinality(Holders) - Cardinality(Holders \cap Lapsed)
    BY <1>4, FS_Difference
  <2>3. QED
    BY <2>1, <2>2, OccupiedCounts DEF SeatsInv
<1>6. Cardinality(kept) \in Nat
  BY <1>4, FS_CardinalityType
<1>7. IsFiniteSet(kept \cup {o}) /\ Cardinality(kept \cup {o}) <= Cardinality(kept) + 1
  <2>1. CASE o \in kept
    <3>1. kept \cup {o} = kept
      BY <2>1
    <3>2. QED
      BY <1>4, <1>6, <3>1
  <2>2. CASE o \notin kept
    <3>1. IsFiniteSet(kept \cup {o}) /\ Cardinality(kept \cup {o}) = Cardinality(kept) + 1
      BY <1>4, <2>2, FS_AddElement
    <3>2. QED
      BY <1>6, <3>1
  <2>3. QED
    BY <2>1, <2>2
<1>8. Occupied' <= Cardinality(kept) + 1
  <2>1. Occupied' <= Cardinality(kept \cup {o}) /\ Cardinality(kept \cup {o}) \in Nat
    BY <1>3, <1>7, OccupiedCountsAfter, FS_Subset, FS_CardinalityType
  <2>2. QED
    BY <1>6, <1>7, <2>1, OccupiedCountsAfter
<1>9. Cardinality(kept) < seat.capacity /\ seat.state = "ACTIVE" /\ seat' = seat
  BY <1>5 DEF ReserveInvitation, Reservable, SeatAvailable
<1>10. QED
  BY <1>6, <1>8, <1>9, OccupiedCountsAfter DEF Oversells, SeatCounts

LEMMA OversellingIsARace ==
  ASSUME SeatsInv, SeatTables', SeatCounts, [SeatsNext]_seatsVars, Oversells
  PROVE  StillOversold \/ CountWasStale \/ OwnersWereGone
<1>1. ASSUME UNCHANGED seat, Holders' \subseteq Holders PROVE StillOversold
  BY <1>1, FewerSeats DEF SeatsInv
<1>2. ASSUME UNCHANGED <<seat, alloc>> PROVE StillOversold
  BY <1>1, <1>2 DEF Holders
<1>3. ASSUME NEW o \in Ops, NEW status, EndInvitation(o, status), UNCHANGED seat PROVE StillOversold
  <2>1. Holders' \subseteq Holders
    BY <1>3 DEF EndInvitation, End, Holders, SeatsInv, SeatTables
  <2>2. QED
    BY <1>1, <1>3, <2>1
<1>4. CASE SyncWrite
  BY <1>4, PlanChangeOversells DEF SeatsInv
<1>5. ASSUME NEW p \in Principals, BootstrapOwner(p) PROVE OwnersWereGone
  BY <1>5, NewOwnerOversells
<1>6. ASSUME NEW p \in Principals, NEW o \in Ops, AcceptInvitation(p, o) PROVE StillOversold
  <2>1. Occupied' = Occupied /\ seat' = seat /\ Occupied \in Nat
    BY <1>6, AcceptanceMovesASeat, OccupiedCounts DEF AcceptInvitation, SeatsInv
  <2>2. QED
    BY <2>1 DEF Oversells, StillOversold
<1>7. ASSUME NEW p \in Principals, NEW o \in Ops, RevokeInvitation(p, o) PROVE StillOversold
  BY <1>3, <1>7 DEF RevokeInvitation
<1>8. ASSUME NEW c \in Calls, ReserveInvitation(c) PROVE StillOversold
  <2>1. CASE inv[call[c].op] # NoInvitation \/ ~Reservable(call[c])
    BY <1>2, <1>8, <2>1 DEF ReserveInvitation
  <2>2. CASE inv[call[c].op] = NoInvitation /\ Reservable(call[c])
    BY <1>8, <2>2, ReservationFits
  <2>3. QED
    BY <2>1, <2>2
<1>9. ASSUME NEW c \in Calls, Compensate(c) PROVE StillOversold
  <2>1. call[c].op \in Ops
    BY <1>9 DEF Compensate, SeatsInv, SeatRequests
  <2>2. QED
    BY <1>2, <1>3, <1>9, <2>1 DEF Compensate
<1>10. ASSUME NEW c \in Calls, RevokeMembership(c) PROVE StillOversold
  <2>1. Holders' \subseteq Holders
    BY <1>10 DEF RevokeMembership, Holders, SeatsInv, SeatTables
  <2>2. QED
    BY <1>1, <1>10, <2>1 DEF RevokeMembership
<1>11. QED
  BY <1>2, <1>4, <1>5, <1>6, <1>7, <1>8, <1>9, <1>10
  DEF SeatsNext, seatsVars, SyncCount, InviteMember, BeginMemberChange, Deliver, Crash,
      InvitationLapses, ChangeMembershipRole

\* A plan has more seats taken than it allows only after a plan change that counted before
\* a reservation committed, or after an owner was seated in place of owners who revoked
\* each other: no interleaving of reservations, acceptances, compensations and expiries
\* oversells by itself.
THEOREM OversellingNeedsARace == AccountsSpec => OversoldOnlyByRaces
<1> DEFINE CountsInv == SeatsInv /\ SeatCounts
<1>1. AccountsInit => CountsInv
  BY SeatsInitially, SeatCountsInitially DEF AccountsInit
<1>2. CountsInv /\ [AccountsNext]_accountsVars => CountsInv'
  BY RequestsKept, BooksKept, SeatCountsKept DEF AccountsNext, accountsVars, SeatsInv
<1>3. CountsInv /\ CountsInv' /\ [AccountsNext]_accountsVars
        => [Oversells => StillOversold \/ CountWasStale \/ OwnersWereGone]_seatsVars
  BY OversellingIsARace DEF AccountsNext, accountsVars, SeatsInv
<1>4. QED
  BY <1>1, <1>2, <1>3, PTL
  DEF AccountsSpec, OversoldOnlyByRaces, Oversells, StillOversold, CountWasStale, OwnersWereGone

--------------------------------------------------------------------------------
(* Identity *)

Keys == [state : {"ACTIVE", "REVOKED", "COMPROMISED"}, counts : BOOLEAN, device : Nat, count : Nat, born : Nat]
SessionRows == [state : {"ACTIVE", "REVOKED", "LAPSED"}, born : Nat, ch : Nat]
LoginCalls ==
  [pc : {"idle", "signed", "verified", "locked", "created"}, ch : Nat, cr : Nat, count : Nat, s : Nat, gen : Nat]

IdentityTables ==
  /\ epoch \in Nat /\ codes \in [gen : Nat, left : Int]
  /\ cred \in Seq(Keys) /\ session \in Seq(SessionRows) /\ challenge \in Seq({"PENDING", "CONSUMED"})

\* A login carries an assertion of a stored credential over a stored challenge.
Login(r) == request[r].pc \in {"signed", "verified", "locked"}
Locked(r) == request[r].pc = "locked"

LoginRequests ==
  /\ request \in [Requests -> LoginCalls]
  /\ \A r \in Requests : Login(r) => request[r].ch \in DOMAIN challenge /\ request[r].cr \in DOMAIN cred

\* What complete_passkey_authentication read under its locks is still so, and nobody else
\* has them.
LocksHold ==
  \A r \in Requests :
    Locked(r) =>
      /\ challenge[request[r].ch] = "PENDING" /\ cred[request[r].cr].state = "ACTIVE"
      /\ \A q \in Requests :
           Locked(q) /\ (request[q].ch = request[r].ch \/ request[q].cr = request[r].cr) => q = r

\* The challenge of a login session is spent.
ChallengesSpent ==
  \A s \in DOMAIN session :
    session[s].ch > 0 => session[s].ch \in DOMAIN challenge /\ challenge[session[s].ch] = "CONSUMED"

\* An authenticator without a counter signs zero for ever.
UncountedAreZero ==
  /\ \A i \in DOMAIN cred : ~cred[i].counts => cred[i].count = 0
  /\ \A r \in Requests : Login(r) /\ ~cred[request[r].cr].counts => request[r].count = 0

IdentityInv ==
  /\ IdentityTables /\ LoginRequests /\ LocksHold /\ ChallengesSpent /\ UncountedAreZero
  /\ SessionsAreEarned

\* A sequence whose rows are changed in place.
LEMMA ChangedRows ==
  ASSUME NEW S, NEW T, NEW s \in Seq(S), NEW t, t = [i \in DOMAIN s |-> t[i]], \A i \in DOMAIN s : t[i] \in T
  PROVE  t \in Seq(T) /\ Len(t) = Len(s) /\ DOMAIN t = DOMAIN s
<1>1. Len(s) \in Nat /\ DOMAIN s = 1..Len(s)
  BY LenProperties
<1>2. t \in [1..Len(s) -> T]
  BY <1>1
<1>3. t \in Seq(T)
  BY <1>1, <1>2, SeqDef
<1>4. Len(t) \in Nat /\ DOMAIN t = 1..Len(t)
  BY <1>3, LenProperties
<1>5. QED
  BY <1>1, <1>2, <1>3, <1>4

\* A sequence with one more row.
LEMMA AddedRow ==
  ASSUME NEW S, NEW s \in Seq(S), NEW e \in S
  PROVE  /\ Append(s, e) \in Seq(S)
         /\ Len(s) \in Nat /\ DOMAIN s = 1..Len(s) /\ Len(s) + 1 \notin DOMAIN s
         /\ DOMAIN Append(s, e) = DOMAIN s \cup {Len(s) + 1}
         /\ \A i \in DOMAIN s : Append(s, e)[i] = s[i]
         /\ Append(s, e)[Len(s) + 1] = e
<1>1. Len(s) \in Nat /\ DOMAIN s = 1..Len(s)
  BY LenProperties
<1> DEFINE a == Append(s, e)
<1>2. a \in Seq(S) /\ Len(a) = Len(s) + 1 /\ (\A i \in 1..Len(s) : a[i] = s[i]) /\ a[Len(s) + 1] = e
  BY AppendProperties
<1> HIDE DEF a
<1>3. DOMAIN a = 1..Len(a)
  BY <1>2, LenProperties
<1>4. QED
  BY <1>1, <1>2, <1>3 DEF a

\* A row of a sequence, by its number.
LEMMA RowOf ==
  ASSUME NEW S, NEW s \in Seq(S), NEW i \in DOMAIN s
  PROVE  s[i] \in S
BY LenProperties

\* The steps that leave logins and sessions alone.
LEMMA OtherAccountSteps ==
  ASSUME IdentityInv, UNCHANGED <<cred, challenge, session, request, codes, epoch>>
  PROVE  IdentityInv'
BY DEF IdentityInv, IdentityTables, LoginRequests, LocksHold, Login, Locked, ChallengesSpent, UncountedAreZero,
   SessionsAreEarned, Actives

\* Sessions that end.
LEMMA SessionsEnd ==
  ASSUME IdentityInv, UNCHANGED <<cred, challenge, request, epoch>>, codes' \in [gen : Nat, left : Int],
         session' = [s \in DOMAIN session |-> session'[s]],
         \A s \in DOMAIN session : /\ session'[s] \in SessionRows
                                   /\ session'[s].born = session[s].born /\ session'[s].ch = session[s].ch
                                   /\ session'[s].state = "ACTIVE" => session[s].state = "ACTIVE"
  PROVE  IdentityInv'
<1>1. session' \in Seq(SessionRows) /\ DOMAIN session' = DOMAIN session
  BY ChangedRows DEF IdentityInv, IdentityTables
<1>2. IdentityTables'
  BY <1>1 DEF IdentityInv, IdentityTables
<1>3. LoginRequests' /\ LocksHold' /\ UncountedAreZero'
  BY DEF IdentityInv, LoginRequests, LocksHold, Login, Locked, UncountedAreZero
<1>4. ChallengesSpent'
  BY <1>1 DEF IdentityInv, ChallengesSpent
<1>5. SessionsAreEarned'
  BY <1>1 DEF IdentityInv, SessionsAreEarned, Actives
<1>6. QED
  BY <1>2, <1>3, <1>4, <1>5 DEF IdentityInv

\* A request that begins, goes on or ends, without taking locks it must not have.
LEMMA RequestSteps ==
  ASSUME IdentityInv, UNCHANGED <<cred, challenge, session, codes, epoch>>, NEW r \in Requests, NEW q \in LoginCalls,
         request' = [request EXCEPT ![r] = q],
         q.pc \in {"signed", "verified", "locked"} =>
           /\ q.ch \in DOMAIN challenge /\ q.cr \in DOMAIN cred
           /\ ~cred[q.cr].counts => q.count = 0,
         q.pc = "locked" =>
           /\ challenge[q.ch] = "PENDING" /\ cred[q.cr].state = "ACTIVE"
           /\ \A p \in Requests : Locked(p) => request[p].ch # q.ch /\ request[p].cr # q.cr
  PROVE  IdentityInv'
<1>1. \A p \in Requests : request'[p] = IF p = r THEN q ELSE request[p]
  BY DEF IdentityInv, LoginRequests
<1>2. IdentityTables' /\ ChallengesSpent' /\ SessionsAreEarned'
  BY DEF IdentityInv, IdentityTables, ChallengesSpent, SessionsAreEarned, Actives
<1>3. LoginRequests'
  BY <1>1 DEF IdentityInv, LoginRequests, Login
<1>4. LocksHold'
  BY <1>1 DEF IdentityInv, LocksHold, Locked
<1>5. UncountedAreZero'
  BY <1>1 DEF IdentityInv, UncountedAreZero, Login
<1>6. QED
  BY <1>2, <1>3, <1>4, <1>5 DEF IdentityInv

LEMMA RequestStepsKeep ==
  ASSUME IdentityInv, NEW r \in Requests, NEW q \in Requests,
         Resend(r, q) \/ AuthenticationVerify(r) \/ LoginBegin(r) \/ Answer(r) \/ Drop(r)
  PROVE  IdentityInv'
<1>1. /\ Idle \in LoginCalls /\ Idle.pc = "idle"
      /\ \A p \in Requests : request[p] \in LoginCalls
      /\ \A p \in Requests : Login(p) => /\ request[p].ch \in DOMAIN challenge /\ request[p].cr \in DOMAIN cred
                                         /\ ~cred[request[p].cr].counts => request[p].count = 0
  BY DEF Idle, LoginCalls, IdentityInv, LoginRequests, UncountedAreZero
<1>2. UNCHANGED <<cred, challenge, session, codes, epoch>>
  BY DEF Resend, AuthenticationVerify, LoginBegin, Answer, Drop, accountVars
<1>3. ASSUME request' = [request EXCEPT ![r] = Idle] PROVE IdentityInv'
  BY <1>1, <1>2, <1>3, RequestSteps
<1>4. ASSUME NEW p \in Requests, NEW pc \in {"signed", "verified"}, Login(p),
             request' = [request EXCEPT ![r] = [request[p] EXCEPT !.pc = pc]]
      PROVE  IdentityInv'
  <2> DEFINE row == [request[p] EXCEPT !.pc = pc]
  <2>1. /\ row \in LoginCalls /\ row.pc = pc /\ row.ch = request[p].ch /\ row.cr = request[p].cr
        /\ row.count = request[p].count
    BY <1>1 DEF LoginCalls
  <2> HIDE DEF row
  <2>2. row.ch \in DOMAIN challenge /\ row.cr \in DOMAIN cred /\ (~cred[row.cr].counts => row.count = 0)
    BY <1>1, <1>4, <2>1
  <2>3. row.pc # "locked"
    BY <2>1
  <2>4. request' = [request EXCEPT ![r] = row]
    BY <1>4 DEF row
  <2>5. QED
    BY <1>2, <2>1, <2>2, <2>3, <2>4, RequestSteps
<1>5. CASE Answer(r) \/ Drop(r)
  BY <1>3, <1>5 DEF Answer, Drop
<1>6. CASE Resend(r, q)
  BY <1>4, <1>6 DEF Resend, Login
<1>7. CASE AuthenticationVerify(r)
  <2>1. Login(r)
    BY <1>7 DEF AuthenticationVerify, Login
  <2>2. \/ request' = [request EXCEPT ![r] = Idle]
        \/ request' = [request EXCEPT ![r] = [request[r] EXCEPT !.pc = "verified"]]
    BY <1>7 DEF AuthenticationVerify
  <2>3. QED
    BY <1>3, <1>4, <2>1, <2>2
<1>8. CASE LoginBegin(r)
  <2>1. Login(r) /\ Unlocked(request[r].cr)
        /\ \A p \in Requests : request[p].pc # "locked" \/ request[p].ch # request[r].ch
    BY <1>8 DEF LoginBegin, Login
  <2>2. CASE request' = [request EXCEPT ![r] = Idle]
    BY <1>3, <2>2
  <2>3. CASE LoginLocks(request[r]) /\ request' = [request EXCEPT ![r] = [request[r] EXCEPT !.pc = "locked"]]
    <3> DEFINE row == [request[r] EXCEPT !.pc = "locked"]
    <3>1. /\ row \in LoginCalls /\ row.pc = "locked" /\ row.ch = request[r].ch /\ row.cr = request[r].cr
          /\ row.count = request[r].count
      BY <1>1 DEF LoginCalls
    <3> HIDE DEF row
    <3>2. row.ch \in DOMAIN challenge /\ row.cr \in DOMAIN cred /\ (~cred[row.cr].counts => row.count = 0)
      BY <1>1, <2>1, <3>1
    <3>3. challenge[row.ch] = "PENDING" /\ cred[row.cr].state = "ACTIVE"
      BY <2>3, <3>1 DEF LoginLocks
    <3>4. \A p \in Requests : Locked(p) => request[p].ch # row.ch /\ request[p].cr # row.cr
      BY <2>1, <3>1 DEF Locked, Unlocked, Holds
    <3>5. request' = [request EXCEPT ![r] = row]
      BY <2>3 DEF row
    <3>6. QED
      BY <1>2, <3>1, <3>2, <3>3, <3>4, <3>5, RequestSteps
  <2>4. QED
    BY <1>8, <2>2, <2>3 DEF LoginBegin
<1>9. QED
  BY <1>5, <1>6, <1>7, <1>8

LEMMA OptionsKeep ==
  ASSUME IdentityInv, AuthenticationOptions
  PROVE  IdentityInv'
<1> USE DEF IdentityInv
<1>1. UNCHANGED <<cred, session, request, codes, epoch>> /\ challenge' = Append(challenge, "PENDING")
  BY DEF AuthenticationOptions, accountVars
<1>2. /\ challenge' \in Seq({"PENDING", "CONSUMED"})
      /\ DOMAIN challenge \subseteq DOMAIN challenge'
      /\ \A i \in DOMAIN challenge : challenge'[i] = challenge[i]
  BY <1>1, AddedRow DEF IdentityTables
<1>3. IdentityTables' /\ LoginRequests' /\ UncountedAreZero' /\ SessionsAreEarned'
  BY <1>1, <1>2 DEF IdentityTables, LoginRequests, Login, UncountedAreZero, SessionsAreEarned, Actives
<1>4. LocksHold'
  BY <1>1, <1>2 DEF LocksHold, Locked, LoginRequests, Login
<1>5. ChallengesSpent'
  BY <1>1, <1>2 DEF ChallengesSpent
<1>6. QED
  BY <1>3, <1>4, <1>5

LEMMA SignKeeps ==
  ASSUME IdentityInv, NEW r \in Requests, NEW ch \in DOMAIN challenge, NEW i \in DOMAIN cred, Sign(r, ch, i)
  PROVE  IdentityInv'
<1> USE DEF IdentityInv
<1> DEFINE n == IF cred[i].counts THEN cred[i].device + 1 ELSE 0
           row == [Idle EXCEPT !.pc = "signed", !.ch = ch, !.cr = i, !.count = n]
<1>1. /\ cred' = [cred EXCEPT ![i].device = n] /\ request' = [request EXCEPT ![r] = row]
      /\ UNCHANGED <<challenge, session, codes, epoch>>
  BY DEF Sign, accountVars
<1>2. cred \in Seq(Keys) /\ (\A j \in DOMAIN cred : cred[j] \in Keys) /\ ch \in Nat /\ i \in Nat
  BY RowOf, LenProperties DEF IdentityTables
<1>3. n \in Nat /\ (~cred[i].counts => n = 0)
  BY <1>2 DEF Keys
<1> HIDE DEF n
<1>4. row \in LoginCalls /\ row.pc = "signed" /\ row.ch = ch /\ row.cr = i /\ row.count = n
  BY <1>2, <1>3 DEF Idle, LoginCalls
<1> HIDE DEF row
<1>5. \A j \in DOMAIN cred : /\ cred'[j] \in Keys /\ cred'[j].state = cred[j].state /\ cred'[j].counts = cred[j].counts
                             /\ cred'[j].count = cred[j].count /\ cred'[j].born = cred[j].born
  BY <1>1, <1>2, <1>3 DEF Keys
<1>6. cred' \in Seq(Keys) /\ DOMAIN cred' = DOMAIN cred
  <2>1. cred' = [j \in DOMAIN cred |-> cred'[j]]
    BY <1>1
  <2>2. QED
    BY <1>2, <1>5, <2>1, ChangedRows
<1>7. \A p \in Requests : request'[p] = IF p = r THEN row ELSE request[p]
  BY <1>1 DEF LoginRequests
<1>8. IdentityTables'
  BY <1>1, <1>6 DEF IdentityTables
<1>9. LoginRequests'
  BY <1>1, <1>4, <1>6, <1>7 DEF LoginRequests, Login
<1>10. LocksHold'
  BY <1>1, <1>4, <1>5, <1>7 DEF LocksHold, Locked, LoginRequests, Login
<1>11. ChallengesSpent'
  BY <1>1 DEF ChallengesSpent
<1>12. UncountedAreZero'
  BY <1>3, <1>4, <1>5, <1>6, <1>7 DEF UncountedAreZero, Login, LoginRequests
<1>13. SessionsAreEarned'
  BY <1>1, <1>5, <1>6 DEF SessionsAreEarned, Actives
<1>14. QED
  BY <1>8, <1>9, <1>10, <1>11, <1>12, <1>13

LEMMA RegistrationKeeps ==
  ASSUME IdentityInv, NEW r \in Requests, NEW t, NEW counts \in BOOLEAN, RegistrationVerify(r, t, counts)
  PROVE  IdentityInv'
<1> USE DEF IdentityInv
<1> DEFINE recovery == ticket[t].purpose = "RECOVERY"
           keys == IF recovery THEN Revoked(cred, Actives(cred)) ELSE cred
           sessions == IF recovery THEN Revoked(session, Actives(session)) ELSE session
           key == [state |-> "ACTIVE", counts |-> counts, device |-> 0, count |-> 0, born |-> epoch']
           row == [Idle EXCEPT !.pc = "created", !.s = Len(session) + 1, !.gen = codes.gen + 1]
<1>1. /\ cred' = Append(keys, key) /\ session' = Append(sessions, NewSession(epoch', 0))
      /\ codes' = [gen |-> codes.gen + 1, left |-> CodeCount]
      /\ request' = [request EXCEPT ![r] = row]
      /\ IF recovery THEN (\A i \in Actives(cred) : Unlocked(i)) /\ epoch' = epoch + 1 ELSE UNCHANGED epoch
      /\ UNCHANGED challenge
  BY DEF RegistrationVerify, CompleteRegistration, CleanHouse
<1>2. /\ cred \in Seq(Keys) /\ (\A j \in DOMAIN cred : cred[j] \in Keys)
      /\ session \in Seq(SessionRows) /\ (\A j \in DOMAIN session : session[j] \in SessionRows)
      /\ epoch \in Nat /\ epoch' \in Nat /\ Len(session) \in Nat /\ codes' \in [gen : Nat, left : Int] /\ codes.gen + 1 \in Nat
  BY <1>1, IdentityAssumption, RowOf, LenProperties DEF IdentityTables
<1>3. key \in Keys /\ NewSession(epoch', 0) \in SessionRows /\ NewSession(epoch', 0).ch = 0
      /\ NewSession(epoch', 0).born = epoch' /\ key.born = epoch' /\ key.count = 0
  BY <1>2 DEF Keys, SessionRows, NewSession
<1>4. row \in LoginCalls /\ row.pc = "created"
  <2> DEFINE number == Len(session) + 1
             generation == codes.gen + 1
  <2>1. number \in Nat /\ generation \in Nat /\ row = [Idle EXCEPT !.pc = "created", !.s = number, !.gen = generation]
    BY <1>2
  <2> HIDE DEF number, generation, row
  <2>2. QED
    BY <2>1 DEF Idle, LoginCalls
<1> HIDE DEF row, key
<1>5. /\ keys \in Seq(Keys) /\ Len(keys) = Len(cred) /\ DOMAIN keys = DOMAIN cred
      /\ \A j \in DOMAIN cred : /\ keys[j].counts = cred[j].counts /\ keys[j].count = cred[j].count
                                /\ keys[j].born = cred[j].born
                                /\ keys[j].state = "ACTIVE" => cred[j].state = "ACTIVE" /\ ~recovery
                                /\ ~recovery => keys[j] = cred[j]
  <2>1. CASE recovery
    <3>1. keys = [j \in DOMAIN cred |-> IF j \in Actives(cred) THEN [cred[j] EXCEPT !.state = "REVOKED"] ELSE cred[j]]
      BY <2>1 DEF Revoked
    <3> HIDE DEF keys
    <3>2. \A j \in DOMAIN cred : /\ keys[j] \in Keys /\ keys[j].counts = cred[j].counts /\ keys[j].count = cred[j].count
                                 /\ keys[j].born = cred[j].born /\ keys[j].state # "ACTIVE"
      BY <1>2, <3>1 DEF Keys, Actives
    <3>3. keys = [j \in DOMAIN cred |-> keys[j]]
      BY <3>1
    <3>4. keys \in Seq(Keys) /\ Len(keys) = Len(cred) /\ DOMAIN keys = DOMAIN cred
      BY <1>2, <3>2, <3>3, ChangedRows
    <3>5. QED
      BY <2>1, <3>2, <3>4
  <2>2. CASE ~recovery
    BY <1>2, <2>2
  <2>3. QED
    BY <2>1, <2>2
<1>6. /\ sessions \in Seq(SessionRows) /\ DOMAIN sessions = DOMAIN session
      /\ \A j \in DOMAIN session : /\ sessions[j].born = session[j].born /\ sessions[j].ch = session[j].ch
                                   /\ sessions[j].state = "ACTIVE" => session[j].state = "ACTIVE" /\ ~recovery
  <2>1. CASE recovery
    <3>1. sessions = [j \in DOMAIN session |-> IF j \in Actives(session) THEN [session[j] EXCEPT !.state = "REVOKED"] ELSE session[j]]
      BY <2>1 DEF Revoked
    <3> HIDE DEF sessions
    <3>2. \A j \in DOMAIN session : /\ sessions[j] \in SessionRows /\ sessions[j].ch = session[j].ch
                                    /\ sessions[j].born = session[j].born /\ sessions[j].state # "ACTIVE"
      BY <1>2, <3>1 DEF SessionRows, Actives
    <3>3. sessions = [j \in DOMAIN session |-> sessions[j]]
      BY <3>1
    <3>4. sessions \in Seq(SessionRows) /\ DOMAIN sessions = DOMAIN session
      BY <1>2, <3>2, <3>3, ChangedRows
    <3>5. QED
      BY <3>2, <3>4
  <2>2. CASE ~recovery
    BY <1>2, <2>2
  <2>3. QED
    BY <2>1, <2>2
<1> HIDE DEF keys, sessions
<1> DEFINE last == Len(keys) + 1
           end == Len(sessions) + 1
<1>7. /\ cred' \in Seq(Keys) /\ DOMAIN cred' = DOMAIN cred \cup {last} /\ last \notin DOMAIN cred
      /\ (\A j \in DOMAIN cred : cred'[j] = keys[j]) /\ cred'[last] = key
  BY <1>1, <1>3, <1>5, AddedRow
<1>8. /\ session' \in Seq(SessionRows) /\ DOMAIN session' = DOMAIN session \cup {end} /\ end \notin DOMAIN session
      /\ (\A j \in DOMAIN session : session'[j] = sessions[j]) /\ session'[end] = NewSession(epoch', 0)
  BY <1>1, <1>3, <1>6, AddedRow
<1> HIDE DEF last, end
<1>9. \A p \in Requests : request'[p] = IF p = r THEN row ELSE request[p]
  BY <1>1 DEF LoginRequests
<1>10. IdentityTables'
  BY <1>1, <1>2, <1>7, <1>8 DEF IdentityTables
<1>11. LoginRequests'
  BY <1>1, <1>4, <1>7, <1>9 DEF LoginRequests, Login
<1>12. LocksHold'
  <2>1. ASSUME recovery, NEW p \in Requests PROVE ~Locked(p)
    BY <1>1, <2>1 DEF Unlocked, Holds, Actives, LocksHold, LoginRequests, Login, Locked
  <2>2. CASE recovery
    BY <1>4, <1>9, <2>1, <2>2 DEF LocksHold, Locked
  <2>3. CASE ~recovery
    <3>1. \A j \in DOMAIN cred : cred'[j] = cred[j]
      BY <1>5, <1>7, <2>3
    <3>2. QED
      BY ZenonT(40), <1>1, <1>4, <1>9, <3>1 DEF LocksHold, Locked, LoginRequests, Login
  <2>4. QED
    BY <2>2, <2>3
<1>13. ChallengesSpent'
  BY <1>1, <1>3, <1>6, <1>8 DEF ChallengesSpent
<1>14. UncountedAreZero'
  BY <1>3, <1>4, <1>5, <1>7, <1>9 DEF UncountedAreZero, LoginRequests, Login
<1>15. SessionsAreEarned'
  <2>1. ~recovery => epoch' = epoch
    BY <1>1
  <2>2. \A j \in Actives(cred') : cred'[j].born = epoch'
    BY <1>3, <1>5, <1>7, <2>1 DEF SessionsAreEarned, Actives
  <2>3. \A j \in Actives(session') : session'[j].born = epoch'
    BY <1>3, <1>6, <1>8, <2>1 DEF SessionsAreEarned, Actives
  <2>4. \A s1, s2 \in DOMAIN session' : session'[s1].ch > 0 /\ session'[s1].ch = session'[s2].ch => s1 = s2
    BY <1>3, <1>6, <1>8 DEF SessionsAreEarned
  <2>5. QED
    BY <2>2, <2>3, <2>4 DEF SessionsAreEarned, Actives
<1>16. QED
  BY <1>10, <1>11, <1>12, <1>13, <1>14, <1>15

LEMMA LoginCommitKeeps ==
  ASSUME IdentityInv, NEW r \in Requests, LoginCommit(r)
  PROVE  IdentityInv'
<1> USE DEF IdentityInv
<1> DEFINE ch == request[r].ch
           i == request[r].cr
           n == request[r].count
<1>1. /\ Locked(r) /\ ch \in DOMAIN challenge /\ i \in DOMAIN cred /\ n \in Nat /\ ch \in Nat
      /\ challenge[ch] = "PENDING" /\ cred[i].state = "ACTIVE"
      /\ \A q \in Requests : Locked(q) /\ q # r => request[q].ch # ch /\ request[q].cr # i
      /\ ~cred[i].counts => n = 0
  BY DEF LoginCommit, Locked, Login, LoginRequests, LocksHold, UncountedAreZero, LoginCalls
<1>2. /\ challenge' = [challenge EXCEPT ![ch] = "CONSUMED"] /\ UNCHANGED <<codes, epoch>>
      /\ \/ /\ cred' = [cred EXCEPT ![i].state = "COMPROMISED"] /\ session' = AllSessionsRevoked
            /\ request' = [request EXCEPT ![r] = Idle]
         \/ /\ cred' = [cred EXCEPT ![i].count = n]
            /\ session' = Append(session, NewSession(cred[i].born, ch))
            /\ request' = [request EXCEPT ![r] = [Idle EXCEPT !.pc = "created", !.s = Len(session) + 1]]
  BY DEF LoginCommit, accountVars
<1>3. /\ cred \in Seq(Keys) /\ (\A j \in DOMAIN cred : cred[j] \in Keys)
      /\ session \in Seq(SessionRows) /\ (\A j \in DOMAIN session : session[j] \in SessionRows)
      /\ challenge \in Seq({"PENDING", "CONSUMED"}) /\ \A j \in DOMAIN challenge : challenge[j] \in {"PENDING", "CONSUMED"}
  BY RowOf DEF IdentityTables
<1> HIDE DEF ch, i, n
<1>4. /\ challenge' \in Seq({"PENDING", "CONSUMED"}) /\ DOMAIN challenge' = DOMAIN challenge
      /\ \A j \in DOMAIN challenge : challenge'[j] = IF j = ch THEN "CONSUMED" ELSE challenge[j]
  <2>1. \A j \in DOMAIN challenge : challenge'[j] = IF j = ch THEN "CONSUMED" ELSE challenge[j]
    BY <1>1, <1>2
  <2>2. challenge' = [j \in DOMAIN challenge |-> challenge'[j]]
    BY <1>2
  <2>3. \A j \in DOMAIN challenge : challenge'[j] \in {"PENDING", "CONSUMED"}
    BY <1>3, <2>1
  <2>4. QED
    BY <1>3, <2>1, <2>2, <2>3, ChangedRows
<1>5. /\ \A j \in DOMAIN cred : /\ cred'[j] \in Keys /\ cred'[j].counts = cred[j].counts /\ cred'[j].born = cred[j].born
                                /\ cred'[j].count \in {cred[j].count, n} /\ (j # i => cred'[j] = cred[j])
                                /\ cred'[j].state = "ACTIVE" => cred[j].state = "ACTIVE"
      /\ cred'[i].count # cred[i].count => cred'[i].count = n
  <2> DEFINE lost == [cred[i] EXCEPT !.state = "COMPROMISED"]
             used == [cred[i] EXCEPT !.count = n]
  <2>1. /\ lost \in Keys /\ lost.counts = cred[i].counts /\ lost.born = cred[i].born
        /\ lost.count = cred[i].count /\ lost.state = "COMPROMISED"
    BY <1>1, <1>3 DEF Keys
  <2>2. /\ used \in Keys /\ used.counts = cred[i].counts /\ used.born = cred[i].born
        /\ used.count = n /\ used.state = cred[i].state
    BY <1>1, <1>3 DEF Keys
  <2>3. \/ cred' = [cred EXCEPT ![i] = lost]
        \/ cred' = [cred EXCEPT ![i] = used]
    BY <1>2
  <2> HIDE DEF lost, used
  <2>4. \/ \A j \in DOMAIN cred : cred'[j] = IF j = i THEN lost ELSE cred[j]
        \/ \A j \in DOMAIN cred : cred'[j] = IF j = i THEN used ELSE cred[j]
    BY <2>3
  <2>5. QED
    BY <1>1, <1>3, <2>1, <2>2, <2>4
<1>6. cred' \in Seq(Keys) /\ DOMAIN cred' = DOMAIN cred
  <2>1. cred' = [j \in DOMAIN cred |-> cred'[j]]
    BY <1>2
  <2>2. QED
    BY <1>3, <1>5, <2>1, ChangedRows
<1>7. /\ \A q \in Requests : q # r => request'[q] = request[q]
      /\ ~(request'[r].pc \in {"signed", "verified", "locked"})
      /\ request' \in [Requests -> LoginCalls]
  <2>1. Idle \in LoginCalls /\ Idle.pc = "idle"
    BY DEF Idle, LoginCalls
  <2>2. Len(session) + 1 \in Nat
    BY <1>3, LenProperties
  <2> DEFINE number == Len(session) + 1
             row == [Idle EXCEPT !.pc = "created", !.s = number]
  <2> HIDE DEF number
  <2>3. row \in LoginCalls /\ row.pc = "created"
    BY <2>2 DEF Idle, LoginCalls, number
  <2> HIDE DEF row
  <2>4. request' = [request EXCEPT ![r] = Idle] \/ request' = [request EXCEPT ![r] = row]
    BY <1>2 DEF row, number
  <2>5. QED
    BY <2>1, <2>3, <2>4 DEF LoginRequests
<1>8. LoginRequests'
  BY <1>4, <1>6, <1>7 DEF LoginRequests, Login
<1>9. LocksHold'
  BY <1>1, <1>4, <1>5, <1>7 DEF LocksHold, Locked, LoginRequests, Login
<1>10. UncountedAreZero'
  BY <1>1, <1>5, <1>6, <1>7 DEF UncountedAreZero, LoginRequests, Login
<1>11. CASE session' = AllSessionsRevoked
  <2>1. \A s \in DOMAIN session : /\ session'[s] \in SessionRows /\ session'[s].state # "ACTIVE"
                                  /\ session'[s].ch = session[s].ch
    BY <1>3, <1>11 DEF AllSessionsRevoked, SessionRows
  <2>2. session' \in Seq(SessionRows) /\ DOMAIN session' = DOMAIN session
    <3>1. session' = [s \in DOMAIN session |-> session'[s]]
      BY <1>11 DEF AllSessionsRevoked
    <3>2. QED
      BY <1>3, <2>1, <3>1, ChangedRows
  <2>3. IdentityTables'
    BY <1>2, <1>4, <1>6, <2>2 DEF IdentityTables
  <2>4. ChallengesSpent'
    BY <1>4, <2>1, <2>2 DEF ChallengesSpent
  <2>5. SessionsAreEarned'
    BY <1>2, <1>5, <1>6, <2>1, <2>2 DEF SessionsAreEarned, Actives
  <2>6. QED
    BY <1>8, <1>9, <1>10, <2>3, <2>4, <2>5
<1>12. CASE session' = Append(session, NewSession(cred[i].born, ch))
  <2> DEFINE new == NewSession(cred[i].born, ch)
             end == Len(session) + 1
  <2>1. new \in SessionRows /\ new.ch = ch /\ new.born = cred[i].born /\ cred[i].born = epoch
    BY <1>1, <1>3 DEF NewSession, SessionRows, Keys, SessionsAreEarned, Actives
  <2> HIDE DEF new
  <2>2. /\ session' \in Seq(SessionRows) /\ DOMAIN session' = DOMAIN session \cup {end} /\ end \notin DOMAIN session
        /\ (\A j \in DOMAIN session : session'[j] = session[j]) /\ session'[end] = new
    BY <1>3, <1>12, <2>1, AddedRow DEF new
  <2> HIDE DEF end
  <2>3. IdentityTables'
    BY <1>2, <1>4, <1>6, <2>2 DEF IdentityTables
  <2>4. ChallengesSpent'
    BY <1>1, <1>4, <2>1, <2>2 DEF ChallengesSpent
  <2>5. \A s \in DOMAIN session : session[s].ch # ch \/ ch = 0
    BY <1>1, <1>3 DEF ChallengesSpent, SessionRows
  <2>6. SessionsAreEarned'
    <3>1. \A j \in Actives(cred') : cred'[j].born = epoch'
      BY <1>2, <1>5, <1>6 DEF SessionsAreEarned, Actives
    <3>2. \A j \in Actives(session') : session'[j].born = epoch'
      BY <1>2, <2>1, <2>2 DEF SessionsAreEarned, Actives
    <3>3. \A s1, s2 \in DOMAIN session' : session'[s1].ch > 0 /\ session'[s1].ch = session'[s2].ch => s1 = s2
      BY <2>1, <2>2, <2>5 DEF SessionsAreEarned
    <3>4. QED
      BY <3>1, <3>2, <3>3 DEF SessionsAreEarned, Actives
  <2>7. QED
    BY <1>8, <1>9, <1>10, <2>3, <2>4, <2>6
<1>13. QED
  BY <1>2, <1>11, <1>12

LEMMA IdentityInitially == IdentityInit => IdentityInv
<1> SUFFICES ASSUME IdentityInit PROVE IdentityInv
  OBVIOUS
<1>1. cred = <<>> /\ session = <<>> /\ challenge = <<>> /\ epoch = 0 /\ DOMAIN <<>> = {}
  BY EmptySeq DEF IdentityInit
<1>2. IdentityTables
  BY <1>1, IdentityAssumption, EmptySeq DEF IdentityInit, IdentityTables
<1>3. request \in [Requests -> LoginCalls] /\ \A r \in Requests : request[r].pc = "idle"
  BY DEF IdentityInit, Idle, LoginCalls
<1>4. LoginRequests /\ LocksHold /\ ChallengesSpent /\ UncountedAreZero /\ SessionsAreEarned
  BY <1>1, <1>3 DEF LoginRequests, LocksHold, Locked, Login, ChallengesSpent, UncountedAreZero, SessionsAreEarned, Actives
<1>5. QED
  BY <1>2, <1>4 DEF IdentityInv

LEMMA IdentityKept ==
  ASSUME IdentityInv, [IdentityNext]_identityVars
  PROVE  IdentityInv'
<1>1. ASSUME NEW t, SignupStart \/ SignupVerify \/ LinkExpires \/ TicketExpires(t) \/ RegistrationOptions(t)
      PROVE  IdentityInv'
  BY <1>1, OtherAccountSteps DEF SignupStart, SignupVerify, ConsumeSignupChallenge, LinkExpires, TicketExpires, RegistrationOptions
<1>2. ASSUME NEW s, SeatRevoked \/ TrialStart \/ TrialStepUp(s) \/ UNCHANGED identityVars PROVE IdentityInv'
  BY <1>2, OtherAccountSteps DEF SeatRevoked, TrialStart, TrialStepUp, StartPreparedTrial, identityVars, accountVars
<1>3. \A j \in DOMAIN session : session[j] \in SessionRows
  BY RowOf DEF IdentityInv, IdentityTables
<1>4. session = [j \in DOMAIN session |-> session[j]]
  BY LenProperties DEF IdentityInv, IdentityTables
<1>5. ASSUME NEW s \in DOMAIN session, Logout(s) \/ SessionExpires(s) PROVE IdentityInv'
  <2>1. PICK state \in {"REVOKED", "LAPSED"} : session' = [session EXCEPT ![s].state = state]
    BY <1>5 DEF Logout, SessionExpires
  <2>2. UNCHANGED <<cred, challenge, request, epoch, codes>>
    BY <1>5 DEF Logout, SessionExpires, accountVars
  <2>3. \A j \in DOMAIN session : /\ session'[j] \in SessionRows
                                  /\ session'[j].born = session[j].born /\ session'[j].ch = session[j].ch
                                  /\ session'[j].state = "ACTIVE" => session[j].state = "ACTIVE"
    BY <1>3, <2>1 DEF SessionRows
  <2>4. session' = [j \in DOMAIN session |-> session'[j]]
    BY <1>4, <2>1
  <2>5. QED
    BY <2>2, <2>3, <2>4, SessionsEnd DEF IdentityInv, IdentityTables
<1>6. CASE RecoveryStart
  <2>1. /\ session' = AllSessionsRevoked /\ codes' = [codes EXCEPT !.left = @ - 1]
        /\ UNCHANGED <<cred, challenge, request, epoch>>
    BY <1>6 DEF RecoveryStart, BeginRecovery
  <2>2. codes' \in [gen : Nat, left : Int]
    BY <2>1 DEF IdentityInv, IdentityTables
  <2>3. \A j \in DOMAIN session : /\ session'[j] \in SessionRows
                                  /\ session'[j].born = session[j].born /\ session'[j].ch = session[j].ch
                                  /\ session'[j].state = "ACTIVE" => session[j].state = "ACTIVE"
    BY <1>3, <2>1 DEF SessionRows, AllSessionsRevoked
  <2>4. session' = [j \in DOMAIN session |-> session'[j]]
    BY <2>1 DEF AllSessionsRevoked
  <2>5. QED
    BY <2>1, <2>2, <2>3, <2>4, SessionsEnd
<1>7. QED
  BY <1>1, <1>2, <1>5, <1>6, RequestStepsKeep, OptionsKeep, SignKeeps, RegistrationKeeps, LoginCommitKeeps
  DEF IdentityNext

\* No credential and no session of before a completed recovery is in use, although logins,
\* registrations and recoveries overlap, and a challenge opens one session at most, however
\* often its assertion is sent: the locks of complete_passkey_authentication and the wait of
\* complete_passkey_registration are enough.
THEOREM SessionsStayEarned == AccountsSpec => []SessionsAreEarned
<1>1. AccountsInit => IdentityInv
  BY IdentityInitially DEF AccountsInit
<1>2. IdentityInv /\ [AccountsNext]_accountsVars => IdentityInv'
  BY IdentityKept DEF AccountsNext, accountsVars
<1>3. IdentityInv => SessionsAreEarned
  BY DEF IdentityInv
<1>4. QED
  BY <1>1, <1>2, <1>3, PTL DEF AccountsSpec

\* The clone signal: what becomes COMPROMISED was locked by a login whose counter another
\* login had passed in between, and belongs to an authenticator that counts.
LEMMA CompromisedByOverlap ==
  ASSUME IdentityInv, [IdentityNext]_identityVars, NEW i \in DOMAIN cred,
         cred'[i].state = "COMPROMISED", cred[i].state = "ACTIVE"
  PROVE  /\ cred[i].counts
         /\ \E r \in Requests : Holds(r, i) /\ request[r].count < cred[i].count
<1>1. cred \in Seq(Keys) /\ \A j \in DOMAIN cred : cred[j] \in Keys
  BY RowOf DEF IdentityInv, IdentityTables
<1>2. ASSUME NEW r \in Requests, LoginCommit(r)
      PROVE  /\ cred[i].counts
             /\ \E q \in Requests : Holds(q, i) /\ request[q].count < cred[i].count
  <2>1. Locked(r) /\ Login(r) /\ request[r].cr \in DOMAIN cred /\ request[r].count \in Nat
    BY <1>2 DEF LoginCommit, Locked, Login, IdentityInv, LoginRequests, LoginCalls
  <2>2. CASE cred' = [cred EXCEPT ![request[r].cr].count = request[r].count]
    BY <1>1, <2>1, <2>2 DEF Keys
  <2>3. CASE /\ Regressed(request[r].count, cred[request[r].cr].count)
             /\ cred' = [cred EXCEPT ![request[r].cr].state = "COMPROMISED"]
    <3>1. i = request[r].cr
      BY <1>1, <2>1, <2>3 DEF Keys
    <3>2. Holds(r, i) /\ request[r].count < cred[i].count
      BY <2>1, <2>3, <3>1 DEF Holds, Locked, Regressed
    <3>3. ~cred[i].counts => cred[i].count = 0
      BY DEF IdentityInv, UncountedAreZero
    <3>4. cred[i].counts \in BOOLEAN /\ cred[i].count \in Nat
      BY <1>1 DEF Keys
    <3>5. QED
      BY <2>1, <3>2, <3>3, <3>4
  <2>4. QED
    BY <1>2, <2>2, <2>3 DEF LoginCommit
<1>3. ASSUME NEW r \in Requests, NEW t, NEW counts, RegistrationVerify(r, t, counts) PROVE FALSE
  <2> DEFINE keys == IF ticket[t].purpose = "RECOVERY" THEN Revoked(cred, Actives(cred)) ELSE cred
             key == [state |-> "ACTIVE", counts |-> counts, device |-> 0, count |-> 0, born |-> epoch']
  <2>1. cred' = Append(keys, key)
    BY <1>3 DEF RegistrationVerify, CompleteRegistration
  <2>2. Len(cred) \in Nat /\ DOMAIN cred = 1..Len(cred)
    BY <1>1, LenProperties
  <2>3. DOMAIN keys = 1..Len(cred) /\ Len(keys) = Len(cred) /\ keys[i].state # "COMPROMISED"
    <3>1. CASE ticket[t].purpose = "RECOVERY"
      <4>1. keys = [j \in DOMAIN cred |-> IF j \in Actives(cred) THEN [cred[j] EXCEPT !.state = "REVOKED"] ELSE cred[j]]
        BY <3>1 DEF Revoked
      <4> HIDE DEF keys
      <4>2. \A j \in DOMAIN cred : keys[j] \in Keys
        BY <1>1, <4>1 DEF Keys
      <4>3. keys = [j \in DOMAIN cred |-> keys[j]]
        BY <4>1
      <4>4. DOMAIN keys = DOMAIN cred /\ Len(keys) = Len(cred)
        BY <1>1, <4>2, <4>3, ChangedRows
      <4>5. keys[i].state = "REVOKED"
        BY <1>1, <4>1 DEF Actives, Keys
      <4>6. QED
        BY <2>2, <4>4, <4>5
    <3>2. CASE ticket[t].purpose # "RECOVERY"
      BY <2>2, <3>2
    <3>3. QED
      BY <3>1, <3>2
  <2> HIDE DEF keys, key
  <2>4. cred'[i] = keys[i]
    BY <2>1, <2>2, <2>3
  <2>5. QED
    BY <2>3, <2>4
<1>4. ASSUME NEW r \in Requests, NEW ch, NEW j \in DOMAIN cred, Sign(r, ch, j) PROVE FALSE
  <2>1. PICK n : cred' = [cred EXCEPT ![j].device = n]
    BY <1>4 DEF Sign
  <2>2. cred'[i].state = cred[i].state
    BY <1>1, <2>1 DEF Keys
  <2>3. QED
    BY <2>2
<1>5. ASSUME NEW t, \/ SignupStart \/ SignupVerify \/ LinkExpires \/ TicketExpires(t) \/ RegistrationOptions(t)
                    \/ AuthenticationOptions \/ RecoveryStart \/ SeatRevoked \/ TrialStart \/ UNCHANGED identityVars
      PROVE  FALSE
  BY <1>5 DEF SignupStart, SignupVerify, LinkExpires, TicketExpires, RegistrationOptions, AuthenticationOptions,
     RecoveryStart, SeatRevoked, TrialStart, identityVars
<1>6. ASSUME NEW r, NEW q, NEW s, \/ Resend(r, q) \/ AuthenticationVerify(r) \/ LoginBegin(r) \/ Answer(r) \/ Drop(r)
                                  \/ Logout(s) \/ SessionExpires(s) \/ TrialStepUp(s)
      PROVE  FALSE
  BY <1>6 DEF Resend, AuthenticationVerify, LoginBegin, Answer, Drop, Logout, SessionExpires, TrialStepUp
<1>7. QED
  BY <1>2, <1>3, <1>4, <1>5, <1>6 DEF IdentityNext

\* Used one login at a time, or without a counter, a passkey is never lost: the clone signal
\* of complete_passkey_authentication needs two logins that overlap.
THEOREM CloneSignalsNeedOverlaps == AccountsSpec => CloneSignalNeedsOverlap
<1> DEFINE Signal == \A i \in DOMAIN cred :
       cred'[i].state = "COMPROMISED" /\ cred[i].state = "ACTIVE" =>
         /\ cred[i].counts
         /\ \E r \in Requests : Holds(r, i) /\ request[r].count < cred[i].count
<1>1. AccountsInit => IdentityInv
  BY IdentityInitially DEF AccountsInit
<1>2. IdentityInv /\ [AccountsNext]_accountsVars => IdentityInv'
  BY IdentityKept DEF AccountsNext, accountsVars
<1>3. IdentityInv /\ [AccountsNext]_accountsVars => [Signal]_identityVars
  BY CompromisedByOverlap DEF AccountsNext, accountsVars
<1>4. QED
  BY <1>1, <1>2, <1>3, PTL DEF AccountsSpec, CloneSignalNeedsOverlap
===============================================================================
