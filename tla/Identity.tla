------------------------------- MODULE Identity -------------------------------
(***************************************************************************)
(* Passwordless identity of one email address: sign-up by a mailed link,   *)
(* passkey registration, passkey login, recovery by a one-time code and    *)
(* the start of the prepared trial (identity_routes.py over 121 to 124).   *)
(*                                                                         *)
(* Each SQL function is one transaction and one step, with one exception:  *)
(* complete_passkey_authentication locks the challenge and the credential  *)
(* but reads the user's row without a lock, so that login is two steps.    *)
(* The branches that mark a row EXPIRED raise in the same transaction and  *)
(* are rolled back: lapsed tickets and sessions only stop being usable.    *)
(***************************************************************************)
EXTENDS Naturals, Sequences

CONSTANTS
  Requests,        \* verify requests in flight
  SignupLimit,     \* mails per address and hour (identity_routes.py:316)
  CodeCount,       \* recovery codes made by a registration
  MaxTickets, MaxCreds, MaxSessions, MaxChallenges,
  MaxSigns         \* bounds of the model

ASSUME IdentityAssumption == CodeCount \in Nat

VARIABLES
  user,            \* users.status, "NONE" before the first verification
  email,           \* the newest sign-up challenge: "NONE", "PENDING", "UNSENT"
  signups,         \* mails counted in the rate limit's window
  ticket,          \* bootstrap_tickets, in order of creation
  cred,            \* webauthn_credentials and the authenticators' counters
  challenge,       \* states of the AUTHENTICATION challenges
  session,         \* identity_sessions
  codes,           \* the stored recovery codes: generation and unused ones
  shown,           \* the generation the person has seen
  grant, ownerSeat, \* trial_grants.state and the person's membership
  epoch,           \* completed recoveries
  request

accountVars == <<user, email, signups, ticket, codes, shown, grant, ownerSeat, epoch>>
identityVars == <<accountVars, cred, challenge, session, request>>

Idle == [pc |-> "idle", ch |-> 0, cr |-> 0, count |-> 0, s |-> 0, gen |-> 0]

IdentityInit ==
  /\ user = "NONE" /\ email = "NONE" /\ signups = 0
  /\ ticket = <<>> /\ cred = <<>> /\ challenge = <<>> /\ session = <<>>
  /\ codes = [gen |-> 0, left |-> 0] /\ shown = 0
  /\ grant = "NONE" /\ ownerSeat = "NONE" /\ epoch = 0
  /\ request = [r \in Requests |-> Idle]

Actives(rows) == {i \in DOMAIN rows : rows[i].state = "ACTIVE"}
Holds(r, i) == request[r].pc = "locked" /\ request[r].cr = i
Unlocked(i) == \A r \in Requests : ~Holds(r, i)

AllSessionsRevoked ==
  [i \in DOMAIN session |->
     IF session[i].state = "ACTIVE" THEN [session[i] EXCEPT !.state = "REVOKED"]
                                    ELSE session[i]]

NewSession(born, ch) == [state |-> "ACTIVE", born |-> born, ch |-> ch]

--------------------------------------------------------------------------------
(* Sign-up *)

\* A newer link replaces the pending one even when its own mail then fails.
SignupStart ==
  /\ signups < SignupLimit
  /\ signups' = signups + 1
  /\ email' \in {"PENDING", "UNSENT"}
  /\ UNCHANGED <<user, ticket, codes, shown, grant, ownerSeat, epoch, cred, challenge,
                 session, request>>

\* A known address keeps its user and its trial, and gets a ticket all the same.
ConsumeSignupChallenge ==
  /\ email = "PENDING"
  /\ Len(ticket) < MaxTickets
  /\ email' = "NONE"
  /\ user' = IF user = "NONE" THEN "ACTIVE" ELSE user
  /\ grant' \in IF grant = "NONE" THEN {"READY", "ELIGIBILITY_PENDING"} ELSE {grant}
  /\ ticket' = Append(ticket, [purpose |-> "PASSKEY_REGISTRATION", state |-> "PENDING"])

SignupVerify ==
  /\ ConsumeSignupChallenge
  /\ UNCHANGED <<signups, codes, shown, ownerSeat, epoch, cred, challenge, session, request>>

LinkExpires ==
  /\ email # "NONE"
  /\ email' = "NONE"
  /\ UNCHANGED <<user, signups, ticket, codes, shown, grant, ownerSeat, epoch, cred,
                 challenge, session, request>>

TicketExpires(t) ==
  /\ ticket[t].state \in {"PENDING", "OPTIONS_ISSUED"}
  /\ ticket' = [ticket EXCEPT ![t].state = "LAPSED"]
  /\ UNCHANGED <<user, email, signups, codes, shown, grant, ownerSeat, epoch, cred,
                 challenge, session, request>>

\* resolve_bootstrap_ticket, for either purpose.
TicketUsable(t) ==
  /\ ticket[t].state \in {"PENDING", "OPTIONS_ISSUED"}
  /\ user \in {"ACTIVE", "RECOVERY_ONLY"}

\* The options bind a fresh challenge to the ticket; asked for again they change nothing.
RegistrationOptions(t) ==
  /\ TicketUsable(t) /\ ticket[t].state = "PENDING"
  /\ ticket' = [ticket EXCEPT ![t].state = "OPTIONS_ISSUED"]
  /\ UNCHANGED <<user, email, signups, codes, shown, grant, ownerSeat, epoch, cred,
                 challenge, session, request>>

--------------------------------------------------------------------------------
(* Registration *)

Revoked(rows, ids) ==
  [i \in DOMAIN rows |-> IF i \in ids THEN [rows[i] EXCEPT !.state = "REVOKED"] ELSE rows[i]]

CleanHouseWithoutWaiting(t) ==
  IF ticket[t].purpose = "RECOVERY"
  THEN user' = "ACTIVE" /\ epoch' = epoch + 1
  ELSE UNCHANGED <<user, epoch>>

\* A recovery revokes what the account had before the new passkey is bound.
\* Its update of the credentials waits for the logins that hold one of them.
CleanHouse(t) ==
  IF ticket[t].purpose = "RECOVERY"
  THEN /\ \A i \in Actives(cred) : Unlocked(i)
       /\ user' = "ACTIVE" /\ epoch' = epoch + 1
  ELSE UNCHANGED <<user, epoch>>

\* complete_passkey_registration: the status of the user is not looked at.
CompleteRegistration(t, counts) ==
  LET recovery == ticket[t].purpose = "RECOVERY"
      cleared(rows) == IF recovery THEN Revoked(rows, Actives(rows)) ELSE rows
  IN
  /\ ticket[t].state = "OPTIONS_ISSUED"
  /\ Len(cred) < MaxCreds /\ Len(session) < MaxSessions
  /\ CleanHouse(t)
  /\ cred' = Append(cleared(cred), [state |-> "ACTIVE", counts |-> counts, device |-> 0,
                                    count |-> 0, born |-> epoch'])
  /\ session' = Append(cleared(session), NewSession(epoch', 0))
  /\ codes' = [gen |-> codes.gen + 1, left |-> CodeCount]
  /\ ticket' = [ticket EXCEPT ![t].state = "CONSUMED"]

RegistrationVerify(r, t, counts) ==
  /\ request[r] = Idle
  /\ CompleteRegistration(t, counts)
  /\ request' = [request EXCEPT ![r] =
       [Idle EXCEPT !.pc = "created", !.s = Len(session) + 1, !.gen = codes.gen + 1]]
  /\ UNCHANGED <<email, signups, shown, grant, ownerSeat, challenge>>

--------------------------------------------------------------------------------
(* Login *)

AuthenticationOptions ==
  /\ Len(challenge) < MaxChallenges
  /\ challenge' = Append(challenge, "PENDING")
  /\ UNCHANGED <<accountVars, cred, session, request>>

\* The authenticator signs; one that does not count signs zero for ever.
Sign(r, ch, i) ==
  /\ request[r] = Idle
  /\ challenge[ch] = "PENDING"
  /\ \A q \in Requests : request[q].ch # ch
  /\ cred[i].device < MaxSigns
  /\ LET n == IF cred[i].counts THEN cred[i].device + 1 ELSE 0 IN
     /\ cred' = [cred EXCEPT ![i].device = n]
     /\ request' = [request EXCEPT ![r] =
          [Idle EXCEPT !.pc = "signed", !.ch = ch, !.cr = i, !.count = n]]
  /\ UNCHANGED <<accountVars, challenge, session>>

\* A client that sends the same assertion twice.
Resend(r, q) ==
  /\ request[r] = Idle
  /\ request[q].pc \in {"signed", "verified"}
  /\ request' = [request EXCEPT ![r] = [request[q] EXCEPT !.pc = "signed"]]
  /\ UNCHANGED <<accountVars, cred, challenge, session>>

\* What verify_authentication_response accepts of the counter.
CounterAdvances(new, stored) == new > stored \/ (new = 0 /\ stored = 0)

\* authentication_verify up to the library's check; a refusal answers 401.
AuthenticationVerify(r) ==
  LET q == request[r]
      accepted == /\ challenge[q.ch] = "PENDING"
                  /\ cred[q.cr].state = "ACTIVE" /\ user = "ACTIVE"
                  /\ CounterAdvances(q.count, cred[q.cr].count)
  IN
  /\ q.pc = "signed"
  /\ request' = [request EXCEPT ![r] = IF accepted THEN [q EXCEPT !.pc = "verified"] ELSE Idle]
  /\ UNCHANGED <<accountVars, cred, challenge, session>>

\* The rows complete_passkey_authentication locks, and the user it reads.
LoginLocks(q) ==
  /\ challenge[q.ch] = "PENDING"
  /\ cred[q.cr].state = "ACTIVE"
  /\ user = "ACTIVE"

LoginBegin(r) ==
  LET q == request[r] IN
  /\ q.pc = "verified"
  /\ Unlocked(q.cr)
  /\ \A p \in Requests : request[p].pc # "locked" \/ request[p].ch # q.ch
  /\ request' = [request EXCEPT ![r] = IF LoginLocks(q) THEN [q EXCEPT !.pc = "locked"] ELSE Idle]
  /\ UNCHANGED <<accountVars, cred, challenge, session>>

NotAdvanced(new, stored) == new <= stored

Regressed(new, stored) == new < stored

\* The rest of the transaction: the clone signal, or the new session.
LoginCommit(r) ==
  LET q == request[r] IN
  /\ q.pc = "locked"
  /\ challenge' = [challenge EXCEPT ![q.ch] = "CONSUMED"]
  /\ \/ /\ Regressed(q.count, cred[q.cr].count)
        /\ cred' = [cred EXCEPT ![q.cr].state = "COMPROMISED"]
        /\ session' = AllSessionsRevoked
        /\ request' = [request EXCEPT ![r] = Idle]
     \/ /\ ~Regressed(q.count, cred[q.cr].count)
        /\ Len(session) < MaxSessions
        /\ cred' = [cred EXCEPT ![q.cr].count = q.count]
        /\ session' = Append(session, NewSession(cred[q.cr].born, q.ch))
        /\ request' = [request EXCEPT ![r] =
             [Idle EXCEPT !.pc = "created", !.s = Len(session) + 1]]
  /\ UNCHANGED accountVars

--------------------------------------------------------------------------------
(* Sessions, recovery and the trial *)

\* resolve_identity_session: an own seat, or a trial that has not begun.
Resolvable(s) ==
  /\ session[s].state = "ACTIVE"
  /\ user = "ACTIVE"
  /\ ownerSeat = "ACTIVE" \/ grant \in {"READY", "ELIGIBILITY_PENDING"}

\* The last call of both verify routes; only its success carries the codes.
Answer(r) ==
  LET q == request[r] IN
  /\ q.pc = "created"
  /\ shown' = IF Resolvable(q.s) /\ q.gen > 0 THEN q.gen ELSE shown
  /\ request' = [request EXCEPT ![r] = Idle]
  /\ UNCHANGED <<user, email, signups, ticket, codes, grant, ownerSeat, epoch, cred,
                 challenge, session>>

\* The process dies, the answer is lost, or the database aborts a deadlock.
Drop(r) ==
  /\ request[r] # Idle
  /\ request' = [request EXCEPT ![r] = Idle]
  /\ UNCHANGED <<accountVars, cred, challenge, session>>

Logout(s) ==
  /\ session[s].state = "ACTIVE"
  /\ session' = [session EXCEPT ![s].state = "REVOKED"]
  /\ UNCHANGED <<accountVars, cred, challenge, request>>

SessionExpires(s) ==
  /\ session[s].state = "ACTIVE"
  /\ session' = [session EXCEPT ![s].state = "LAPSED"]
  /\ UNCHANGED <<accountVars, cred, challenge, request>>

\* begin_recovery revokes the sessions that are committed.
BeginRecovery ==
  /\ user \in {"ACTIVE", "RECOVERY_ONLY"}
  /\ codes.left > 0
  /\ Len(ticket) < MaxTickets
  /\ codes' = [codes EXCEPT !.left = @ - 1]
  /\ user' = "RECOVERY_ONLY"
  /\ session' = AllSessionsRevoked
  /\ ticket' = Append(ticket, [purpose |-> "RECOVERY", state |-> "PENDING"])

\* The person can only offer a code of the generation that was shown last.
RecoveryStart ==
  /\ shown = codes.gen
  /\ BeginRecovery
  /\ UNCHANGED <<email, signups, shown, grant, ownerSeat, epoch, cred, challenge, request>>

TrialStepUp(s) ==
  /\ Resolvable(s)
  /\ grant = "ELIGIBILITY_PENDING"
  /\ grant' = "READY"
  /\ UNCHANGED <<user, email, signups, ticket, codes, shown, ownerSeat, epoch, cred,
                 challenge, session, request>>

\* Trial, owner's seat and grant in one transaction.
StartPreparedTrial ==
  /\ grant = "READY"
  /\ grant' = "ACTIVE" /\ ownerSeat' = "ACTIVE"

\* The first AI request, whose assertion may outlive its session by its lifetime.
TrialStart ==
  /\ session # <<>>
  /\ StartPreparedTrial
  /\ UNCHANGED <<user, email, signups, ticket, codes, shown, epoch, cred, challenge,
                 session, request>>

\* Another administrator revokes the owner's membership (module Seats).
SeatRevoked ==
  /\ ownerSeat = "ACTIVE"
  /\ ownerSeat' = "REVOKED"
  /\ UNCHANGED <<user, email, signups, ticket, codes, shown, grant, epoch, cred, challenge,
                 session, request>>

IdentityNext ==
  \/ SignupStart \/ SignupVerify \/ LinkExpires \/ AuthenticationOptions \/ RecoveryStart
  \/ SeatRevoked \/ TrialStart
  \/ \E t \in DOMAIN ticket : TicketExpires(t) \/ RegistrationOptions(t)
  \/ \E r \in Requests :
       \/ \E t \in DOMAIN ticket, counts \in BOOLEAN : RegistrationVerify(r, t, counts)
       \/ \E ch \in DOMAIN challenge, i \in DOMAIN cred : Sign(r, ch, i)
       \/ \E q \in Requests : Resend(r, q)
       \/ AuthenticationVerify(r) \/ LoginBegin(r) \/ LoginCommit(r) \/ Answer(r) \/ Drop(r)
  \/ \E s \in DOMAIN session :
       Logout(s) \/ SessionExpires(s) \/ TrialStepUp(s)

IdentitySpec == IdentityInit /\ [][IdentityNext]_identityVars

--------------------------------------------------------------------------------
IdentityTypeOK ==
  /\ user \in {"NONE", "ACTIVE", "RECOVERY_ONLY"}
  /\ grant \in {"NONE", "READY", "ELIGIBILITY_PENDING", "ACTIVE"}
  /\ \A i \in DOMAIN cred :
       /\ cred[i].state \in {"ACTIVE", "REVOKED", "COMPROMISED"}
       /\ cred[i].born <= epoch
  /\ \A r \in Requests : request[r].pc \in {"idle", "signed", "verified", "locked", "created"}

(* Sessions are earned.  A completed recovery leaves no credential and no      *)
(* session of before it in use, whatever login or registration overlapped it:  *)
(* complete_passkey_registration revokes what is committed, and waits for the  *)
(* logins that are not.  And a challenge opens at most one session, however    *)
(* often and however concurrently its assertion is sent.                       *)
SessionsAreEarned ==
  /\ \A i \in Actives(cred) : cred[i].born = epoch
  /\ \A s \in Actives(session) : session[s].born = epoch
  /\ \A s, t \in DOMAIN session :
       session[s].ch > 0 /\ session[s].ch = session[t].ch => s = t

(* The clone signal needs an overlap: a credential is COMPROMISED only when a *)
(* later assertion of a counting authenticator was committed before an        *)
(* earlier one that the library had already accepted.  Used one login at a    *)
(* time, or without a counter, a passkey is never lost.                       *)
CloneSignalNeedsOverlap ==
  [][\A i \in DOMAIN cred :
       cred'[i].state = "COMPROMISED" /\ cred[i].state = "ACTIVE" =>
         /\ cred[i].counts
         /\ \E r \in Requests : Holds(r, i) /\ request[r].count < cred[i].count]_identityVars

(* "creates a new opaque AAL2 session only after replacement registration     *)
(* succeeds": no session becomes active while the account is RECOVERY_ONLY.   *)
SessionNeedsReplacement ==
  [][user' = "RECOVERY_ONLY" => Actives(session') \subseteq Actives(session)]_identityVars
================================================================================
