----------------------------- MODULE OutboxRelay -----------------------------
(***************************************************************************)
(* publish_pending, the loop that moves rows of a transactional outbox to  *)
(* Valkey.  OutboxPublisher, ProposalOutboxPublisher and                   *)
(* AdmissionOutboxPublisher are this loop over three tables.               *)
(*                                                                         *)
(* The select, each send and each mark are separate transactions or calls, *)
(* and the select takes no lock: two publishers may send the same row, and *)
(* one may die between a send and its mark.  What a send puts where is     *)
(* left to the module that uses the relay.  The batch LIMIT and the 30 s   *)
(* back-off of a refused row only delay a row and are left out.            *)
(***************************************************************************)
EXTENDS Naturals

CONSTANTS Events,        \* rows of the outbox, by identity
          NoEvent,
          Publishers,    \* processes and request handlers running the loop
          PublishLimit   \* refused sends after which a row is FAILED (5)

VARIABLES outbox,        \* [Events -> row]
          pub            \* [Publishers -> position, rows still to send, row in hand]

NoRow == [status |-> "ABSENT", attempts |-> 0]
NewRow == [status |-> "PENDING", attempts |-> 0]
Idle == [at |-> "IDLE", batch |-> {}, sending |-> NoEvent]

RelayInit ==
  /\ outbox = [e \in Events |-> NoRow]
  /\ pub = [p \in Publishers |-> Idle]

PendingOutbox == {e \in Events : outbox[e].status = "PENDING"}

SelectPending(p) ==
  /\ pub[p].at = "IDLE"
  /\ PendingOutbox # {}
  /\ pub' = [pub EXCEPT ![p] = [at |-> "SEND", batch |-> PendingOutbox, sending |-> NoEvent]]
  /\ UNCHANGED outbox

Take(p, e, at) ==
  /\ pub[p].at = "SEND"
  /\ e \in pub[p].batch
  /\ pub' = [pub EXCEPT ![p] = [at |-> at, batch |-> @.batch \ {e}, sending |-> e]]
  /\ UNCHANGED outbox

\* Valkey accepts the row, or refuses it (RedisError).
Send(p, e) == Take(p, e, "SENT")
SendRefused(p, e) == Take(p, e, "REFUSED")

\* [mutant] A status the table's CHECK does not know.
PublishedAsSent(row) == [status |-> "SENT", attempts |-> row.attempts + 1]

\* mark_outbox_published
Published(row) == [status |-> "PUBLISHED", attempts |-> row.attempts + 1]

\* [mutant] The give-up comparison one refusal early.
RefusedEarly(row) ==
  [status |-> IF row.attempts + 2 >= PublishLimit THEN "FAILED" ELSE "PENDING",
   attempts |-> row.attempts + 1]

\* mark_outbox_failed: its CASE sees the count before the increment.
Refused(row) ==
  [status |-> IF row.attempts + 1 >= PublishLimit THEN "FAILED" ELSE "PENDING",
   attempts |-> row.attempts + 1]

\* Both marks do nothing to a row that is no longer PENDING.
MarkOutbox(p) ==
  /\ pub[p].at \in {"SENT", "REFUSED"}
  /\ outbox' = [outbox EXCEPT ![pub[p].sending] =
       IF @.status # "PENDING" THEN @
       ELSE IF pub[p].at = "SENT" THEN Published(@) ELSE Refused(@)]
  /\ pub' = [pub EXCEPT ![p] =
       IF @.batch = {} THEN Idle ELSE [at |-> "SEND", batch |-> @.batch, sending |-> NoEvent]]

PublisherDies(p) ==
  /\ pub[p].at # "IDLE"
  /\ pub' = [pub EXCEPT ![p] = Idle]
  /\ UNCHANGED outbox

\* The outbox rows and the publishers have their types; a sent row is a row.
RelayTypeOK ==
  /\ outbox \in [Events -> [status : {"ABSENT", "PENDING", "PUBLISHED", "FAILED"}, attempts : Nat]]
  /\ pub \in [Publishers -> [at : {"IDLE", "SEND", "SENT", "REFUSED"},
                             batch : SUBSET Events,
                             sending : Events \cup {NoEvent}]]
  /\ \A p \in Publishers : pub[p].at \in {"SENT", "REFUSED"} => pub[p].sending \in Events
=============================================================================
