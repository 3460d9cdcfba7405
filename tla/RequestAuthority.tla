---------------------------- MODULE RequestAuthority ----------------------------
(***************************************************************************)
(* What lets a request act: the web application resolves the session and   *)
(* signs a short-lived assertion of it (server-auth.ts, external), the API *)
(* verifies the assertion, asks the seat registry unless the path is       *)
(* exempt, and the handler of an AI route asks for the capability token of *)
(* the very reservation it settles (identity.py, entitlements.py,          *)
(* capability_tokens.py, identity_entitlement_routes.py).                  *)
(*                                                                         *)
(* None of the credentials can be revoked: an assertion or a token ends    *)
(* with its lifetime or with the secret that signed it.  Between the       *)
(* verification and the handler other requests run, the clock moves and    *)
(* the seat may change.  One person, one tenant: a token of another tenant *)
(* names no reservation of this one.  What the ledger does with a          *)
(* reservation is module TokenLedger, how sessions begin module Identity.  *)
(***************************************************************************)
EXTENDS Integers

CONSTANTS
  Configs,            \* deployments: settings the API reads at each request, and how far
                      \* the signer's clock is ahead of the API's
  Reservations,       \* operations of the tenant
  Lifetimes,          \* lifetimes a signer gives its assertions
  MaxAssertionTTL,    \* MAX_ASSERTION_TTL_SECONDS, the 60 s of the web app being shorter
  AssertionSkew,      \* CLOCK_SKEW_SECONDS of identity.py
  GrantTTL,           \* AXIGNAL_CAPABILITY_TOKEN_TTL_SECONDS
  GrantSkew,          \* CLOCK_SKEW_SECONDS of capability_tokens.py
  IdleWindow, TouchInterval, AbsoluteWindow, StepUpUntil,   \* of the session
  MaxClock            \* bound: ticks of the clock

VARIABLES
  config,             \* the deployment
  clock,
  session,            \* identity_sessions: state, last_seen_at, idle_expires_at
  seat, trial,        \* seat entitlement of the person's membership, trial_grants.state
  assertion,          \* the assertion the client holds
  grants,             \* per reservation, its newest capability token
  held,               \* per reservation, its state
  incoming,           \* the route of the request being served
  gone                \* history: ticks since the session last resolved to this tenant

authorityVars == <<config, clock, session, seat, trial, assertion, grants, held,
                   incoming, gone>>

Nothing == [iat |-> 0, exp |-> 0]
NoRequest == "none"

\* A tenant's routes by the checks in front of them: /v1/ai/authorize, /v1/trials and
\* /v1/entitlements are exempt from seat governance, the others differ by their method.
Exempt == {"authorize", "activate", "expire", "usage"}
Reads == {"usage", "read"}
Routes == Exempt \cup Reads \cup {"settle", "write"}

RequestInit ==
  /\ config \in Configs
  /\ clock = 0
  /\ session = [open |-> TRUE, seen |-> 0, idle |-> IdleWindow]
  /\ trial \in {"READY", "STARTED"} \cup IF config.identity THEN {"ELIGIBILITY_PENDING"} ELSE {}
  /\ seat = IF trial = "STARTED" THEN "ACTIVE" ELSE "NONE"
  /\ assertion = Nothing
  /\ grants = [r \in Reservations |-> Nothing]
  /\ held = [r \in Reservations |-> "NONE"]
  /\ incoming = NoRequest /\ gone = 0

--------------------------------------------------------------------------------
(* The session and its assertion *)

\* resolve_identity_session.  Without the identity runtime the session is the web
\* application's own signed cookie, which only time ends.
Resolvable ==
  IF config.web
  THEN /\ session.open /\ clock < session.idle /\ clock < AbsoluteWindow
       /\ seat # "NONE" \/ trial \in {"READY", "ELIGIBILITY_PENDING"}
  ELSE clock < AbsoluteWindow

Earlier(a, b) == IF a < b THEN a ELSE b

\* Resolving slides the idle expiry, at most once in a touch interval.
Touched ==
  IF config.web /\ session.seen + TouchInterval <= clock
  THEN [session EXCEPT !.seen = clock,
          !.idle = Earlier(clock + (session.idle - session.seen), AbsoluteWindow)]
  ELSE session

\* getAuthenticatedIdentity and buildApiIdentityAssertion, as one request of the page.  The
\* session is resolved by the database's clock, which is the API's; the signer has its own.
Assert(life) ==
  /\ Resolvable
  /\ session' = Touched
  /\ assertion' = [iat |-> clock + config.lead, exp |-> clock + config.lead + life]
  /\ UNCHANGED <<config, clock, seat, trial, grants, held, incoming, gone>>

\* Logout, recovery or a clone signal (module Identity).
SessionEnds ==
  /\ session.open
  /\ session' = [session EXCEPT !.open = FALSE]
  /\ UNCHANGED <<config, clock, seat, trial, assertion, grants, held, incoming, gone>>

\* The product entitlement lapses, or an administrator takes the membership (module Seats).
SeatChanges(to) ==
  /\ seat # "NONE"
  /\ to \in CASE seat = "ACTIVE" -> {"READ_ONLY", "NONE"}
              [] seat = "READ_ONLY" -> {"SUSPENDED"}
              [] OTHER -> {}
  /\ seat' = to
  /\ UNCHANGED <<config, clock, session, trial, assertion, grants, held, incoming, gone>>

\* The deployment restarts with new secrets: what the old ones signed verifies no more.
Rotate ==
  /\ assertion' = Nothing
  /\ grants' = [r \in Reservations |-> Nothing]
  /\ incoming' = NoRequest
  /\ UNCHANGED <<config, clock, session, seat, trial, held, gone>>

Tick ==
  /\ clock < MaxClock
  /\ clock' = clock + 1
  /\ UNCHANGED <<config, session, seat, trial, assertion, grants, held, incoming>>
  /\ gone' = IF Resolvable' THEN 0 ELSE gone + 1

--------------------------------------------------------------------------------
(* require_identity *)

\* [mutant] whatever lifetime the signer chose
InTime(a) ==
  /\ a # Nothing
  /\ a.iat <= clock + AssertionSkew
  /\ a.exp > clock - AssertionSkew

\* verify_identity_assertion: an intact signature, the clock, and a lifetime the policy allows.
VerifyIdentityAssertion(a) ==
  /\ a # Nothing
  /\ a.iat <= clock + AssertionSkew
  /\ a.exp > clock - AssertionSkew
  /\ a.exp - a.iat <= MaxAssertionTTL

\* seat_access_decision on a membership that exists.
SeatAllows(write) == seat \in IF write THEN {"ACTIVE"} ELSE {"ACTIVE", "READ_ONLY"}

\* _enforce_seat_governance
SeatGovernanceAdmits(route) ==
  ~config.seats \/ route \in Exempt \/ SeatAllows(route \notin Reads)

\* A request that passes waits for its handler; any other is answered 401, 403 or 503.
RequireIdentity(route) ==
  /\ incoming = NoRequest
  /\ config.secrets
  /\ VerifyIdentityAssertion(assertion)
  /\ SeatGovernanceAdmits(route)
  /\ incoming' = route
  /\ UNCHANGED <<config, clock, session, seat, trial, assertion, grants, held, gone>>

\* require_founder_identity: no tenant's seat is global authority, so none is asked.
RequireFounderIdentity ==
  /\ incoming = NoRequest
  /\ config.secrets
  /\ VerifyIdentityAssertion(assertion)
  /\ incoming' = "founder"
  /\ UNCHANGED <<config, clock, session, seat, trial, assertion, grants, held, gone>>

--------------------------------------------------------------------------------
(* The handlers *)

Serve(route) == incoming = route /\ incoming' = NoRequest

\* The handlers' settings, read anew by each of them: 503 where one is missing.
RequireStore == config.store
RequireTrialActivation == RequireStore /\ config.trials
RequireAIAuthorization == RequireStore /\ config.ai /\ config.secrets

\* A prepared trial starts, with its owner's seat; one that has started stays as it is.
StartPreparedTrial ==
  /\ trial # "ELIGIBILITY_PENDING"
  /\ trial' = "STARTED"
  /\ seat' = IF trial = "READY" THEN "ACTIVE" ELSE seat

\* governed_ai_authorization before the ledger: the identity runtime wants a persistent user.
GovernedAuthorization ==
  IF config.identity THEN config.web /\ StartPreparedTrial
  ELSE UNCHANGED <<seat, trial>>

BuildCapabilityToken == [iat |-> clock, exp |-> clock + GrantTTL]

\* authorize_ai_request: the intent is in scope and the ledger reserves (both are choices
\* here), or it answers the reservation the operation has already; either way a new token.
AuthorizeAI(r) ==
  /\ Serve("authorize")
  /\ GovernedAuthorization
  /\ RequireAIAuthorization
  /\ held' = [held EXCEPT ![r] = IF @ = "NONE" THEN "RESERVED" ELSE @]
  /\ grants' = [grants EXCEPT ![r] = BuildCapabilityToken]
  /\ UNCHANGED <<config, clock, session, assertion, gone>>

\* The trial has started by the time the settings, the scope or the ledger refuse.
AuthorizationRefused ==
  /\ Serve("authorize")
  /\ config.identity
  /\ GovernedAuthorization
  /\ UNCHANGED <<config, clock, session, assertion, grants, held, gone>>

\* Intact and in time; its lifetime is the policy's by the settings.
VerifyCapabilityToken(grant) ==
  /\ grant # Nothing
  /\ grant.iat <= clock + GrantSkew
  /\ grant.exp > clock - GrantSkew

\* _verify_grant of a request that names reservation r and carries the token of another.
VerifyGrant(r, of) ==
  /\ config.secrets
  /\ VerifyCapabilityToken(grants[of])
  /\ of = r

\* reconcile_ai_usage and release_ai_reservation; the trial does not have to live.
SettleAI(r, of) ==
  /\ Serve("settle")
  /\ RequireStore
  /\ VerifyGrant(r, of)
  /\ held[r] = "RESERVED"
  /\ held' = [held EXCEPT ![r] = "SETTLED"]
  /\ UNCHANGED <<config, clock, session, seat, trial, assertion, grants, gone>>

\* governed_trial_activation: with the identity runtime only a request for AI starts a trial.
GovernedTrialActivation == ~config.identity

\* activate_trial
ActivateTrial ==
  /\ Serve("activate")
  /\ GovernedTrialActivation
  /\ RequireTrialActivation
  /\ trial = "READY"
  /\ trial' = "STARTED"
  /\ UNCHANGED <<config, clock, session, seat, assertion, grants, held, gone>>

\* require_recent_aal2 in the founder's handlers: the step-up is read against this clock,
\* with no skew; only a persistent session carries one.
RecentAAL2 == config.web /\ StepUpUntil > clock

FounderActs ==
  /\ Serve("founder")
  /\ RecentAAL2
  /\ UNCHANGED <<config, clock, session, seat, trial, assertion, grants, held, gone>>

\* The tenant's other routes, which act on other modules' state.
OtherActs(route) ==
  /\ route \in {"read", "write", "usage", "expire"}
  /\ Serve(route)
  /\ UNCHANGED <<config, clock, session, seat, trial, assertion, grants, held, gone>>

\* The handler refuses, fails, or the process dies.
Refused ==
  /\ incoming # NoRequest
  /\ incoming' = NoRequest
  /\ UNCHANGED <<config, clock, session, seat, trial, assertion, grants, held, gone>>

RequestNext ==
  \/ \E life \in Lifetimes : Assert(life)
  \/ SessionEnds \/ Rotate \/ Tick \/ RequireFounderIdentity \/ ActivateTrial \/ FounderActs
  \/ AuthorizationRefused \/ Refused
  \/ \E to \in {"READ_ONLY", "SUSPENDED", "NONE"} : SeatChanges(to)
  \/ \E route \in Routes : RequireIdentity(route) \/ OtherActs(route)
  \/ \E r \in Reservations : AuthorizeAI(r) \/ \E of \in Reservations : SettleAI(r, of)

RequestSpec == RequestInit /\ [][RequestNext]_authorityVars

--------------------------------------------------------------------------------
(* Authority ends.  A request is let in only within MaxAssertionTTL,           *)
(* AssertionSkew and the signer's lead of the time its session last resolved   *)
(* to the tenant, though nothing revokes an assertion and not every path asks  *)
(* for the seat; and a reservation is settled only within the life of a token  *)
(* issued for it, not with that of another, however the requests of the two    *)
(* interleave.                                                                 *)
AuthorityIsBounded ==
  [][/\ incoming = NoRequest /\ incoming' # NoRequest =>
          gone < MaxAssertionTTL + AssertionSkew + config.lead
     /\ \A r \in Reservations :
          held'[r] = "SETTLED" /\ held[r] # "SETTLED" =>
            grants[r] # Nothing /\ clock < grants[r].exp + GrantSkew]_authorityVars

--------------------------------------------------------------------------------
(* What a proof of AuthorityIsBounded has to know of the constants.             *)

TimesAreNumbers ==
  /\ Lifetimes \subseteq Int
  /\ {MaxAssertionTTL, AssertionSkew, GrantTTL, GrantSkew} \subseteq Int
  /\ \A c \in Configs : c.lead \in Nat
================================================================================
