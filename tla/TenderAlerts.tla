---------------------------- MODULE TenderAlerts ----------------------------
(***************************************************************************)
(* Public tender alerts: a visitor asks for an alert on a market, the      *)
(* address gets a token, presenting it confirms the alert, presenting it   *)
(* again or later ends it.  A request writes its row, then sends; a failed *)
(* delivery is compensated in a transaction of its own.  The two that end  *)
(* an alert are split where another transaction can slip in: they read the *)
(* contact's other alerts, unlocked, before they write the contact.        *)
(* Tokens are numbered in the order they are drawn; a row stores the       *)
(* digest, here the token itself.                                          *)
(***************************************************************************)
EXTENDS Naturals, FiniteSets

CONSTANTS
    Markets,     \* country, sector and cadence: the key of an alert of the contact
    MaxTokens    \* bound on the requests

VARIABLES
    state,       \* [Markets -> state of the subscription row, "ABSENT" before it exists]
    digest,      \* [Markets -> the token the row was last given, 0 for none]
    consent,     \* consent_status of the contact, "ABSENT" before it exists
    requests,    \* requests between their upsert and the answer: [token, market]
    mailbox,     \* tokens that reached the owner of the address
    leaving,     \* transactions that end an alert, before their commit: the state they
                 \* give the row, and the contact's consent unless they leave it
    drawn,       \* tokens drawn so far
    alertsOpen,  \* public_alerts_enabled
    confirmed,   \* tokens that confirmed a row (history)
    ended        \* tokens whose row ended while they were its digest (history)

alertVars == <<state, digest, consent, requests, mailbox, leaving, drawn, alertsOpen, confirmed, ended>>

Locked(m) == \E l \in leaving : l.market = m

RowOf(token) == {m \in Markets : digest[m] = token /\ token # 0}

AlertsInit ==
    /\ state = [m \in Markets |-> "ABSENT"] /\ digest = [m \in Markets |-> 0]
    /\ consent = "ABSENT"
    /\ requests = {} /\ mailbox = {} /\ leaving = {} /\ drawn = 0
    /\ alertsOpen = TRUE
    /\ confirmed = {} /\ ended = {}

\* [mutant] Asking again for an active alert leaves it active.
UpsertAlertKeepsActive(m, token) ==
    /\ consent' = IF consent = "ABSENT" THEN "PENDING" ELSE consent
    /\ state' = [state EXCEPT ![m] = IF @ \in {"SUPPRESSED", "ACTIVE"} THEN @ ELSE "PENDING_CONFIRMATION"]
    /\ digest' = [digest EXCEPT ![m] = token]

\* The contact is created once; the row is put back to pending, whatever it was,
\* unless it is suppressed, and gets the new token.
UpsertAlert(m, token) ==
    /\ consent' = IF consent = "ABSENT" THEN "PENDING" ELSE consent
    /\ state' = [state EXCEPT ![m] = IF @ = "SUPPRESSED" THEN @ ELSE "PENDING_CONFIRMATION"]
    /\ digest' = [digest EXCEPT ![m] = token]

\* subscribe_tender_alert up to the delivery; the visitor need not own the address.
SubscribeTenderAlert(m) ==
    /\ alertsOpen /\ drawn < MaxTokens /\ ~Locked(m)
    /\ drawn' = drawn + 1
    /\ UpsertAlert(m, drawn + 1)
    /\ requests' = requests \cup {[token |-> drawn + 1, market |-> m]}
    /\ UNCHANGED <<mailbox, leaving, alertsOpen, confirmed, ended>>

DeliverConfirmation(r) ==
    /\ r \in requests
    /\ requests' = requests \ {r}
    /\ mailbox' = mailbox \cup {r.token}
    /\ UNCHANGED <<state, digest, consent, leaving, drawn, alertsOpen, confirmed, ended>>

Others(m, states) == \E o \in Markets \ {m} : state[o] \in states

\* The row is locked and ended; the snapshot of the next statement finds the contact's
\* others.  A transaction that is rolled back never began.
Begin(m, to, found, contact) ==
    leaving' = leaving \cup {[market |-> m, to |-> to, contact |-> IF found THEN "KEPT" ELSE contact]}

\* The row may meanwhile carry another request's token; the compensation is looked
\* up by subscription and by state, and its own failure is suppressed.
FailAlertDelivery(r) ==
    /\ r \in requests /\ ~Locked(r.market)
    /\ requests' = requests \ {r}
    /\ IF state[r.market] = "PENDING_CONFIRMATION"
       THEN Begin(r.market, "SUPPRESSED", Others(r.market, {"ACTIVE", "PENDING_CONFIRMATION"}), "SUPPRESSED")
       ELSE UNCHANGED leaving
    /\ UNCHANGED <<state, digest, consent, mailbox, drawn, alertsOpen, confirmed, ended>>

\* The process dies after the upsert, before or after the message left.
RequestLost(r, sent) ==
    /\ r \in requests
    /\ requests' = requests \ {r}
    /\ mailbox' = IF sent THEN mailbox \cup {r.token} ELSE mailbox
    /\ UNCHANGED <<state, digest, consent, leaving, drawn, alertsOpen, confirmed, ended>>

\* [mutant] Any row but a suppressed one is confirmed.
ConfirmableUnlessSuppressed(m) == state[m] # "SUPPRESSED"

\* PAUSED is never written, so only two states are refused.
Confirmable(m) == state[m] \notin {"SUPPRESSED", "UNSUBSCRIBED", "PAUSED"}

ConfirmTenderAlert(token) ==
    /\ alertsOpen
    /\ \E m \in RowOf(token) :
        /\ ~Locked(m) /\ Confirmable(m)
        /\ state' = [state EXCEPT ![m] = "ACTIVE"]
        /\ consent' = "OPTED_IN"
    /\ confirmed' = confirmed \cup {token}
    /\ UNCHANGED <<digest, requests, mailbox, leaving, drawn, alertsOpen, ended>>

UnsubscribeTenderAlert(token) ==
    /\ alertsOpen
    /\ \E m \in RowOf(token) : ~Locked(m) /\ Begin(m, "UNSUBSCRIBED", Others(m, {"ACTIVE"}), "OPTED_OUT")
    /\ UNCHANGED <<state, digest, consent, requests, mailbox, drawn, alertsOpen, confirmed, ended>>

EndingCommits(l) ==
    /\ l \in leaving
    /\ leaving' = leaving \ {l}
    /\ state' = [state EXCEPT ![l.market] = l.to]
    /\ ended' = ended \cup {digest[l.market]}
    /\ consent' = IF l.contact = "KEPT" THEN consent ELSE l.contact
    /\ UNCHANGED <<digest, requests, mailbox, drawn, alertsOpen, confirmed>>

\* The operator opens or closes public alerts.
SwitchAlerts ==
    /\ alertsOpen' = ~alertsOpen
    /\ UNCHANGED <<state, digest, consent, requests, mailbox, leaving, drawn, confirmed, ended>>

AlertsNext ==
    \/ \E m \in Markets : SubscribeTenderAlert(m)
    \/ \E r \in requests : DeliverConfirmation(r) \/ FailAlertDelivery(r)
    \/ \E r \in requests, sent \in BOOLEAN : RequestLost(r, sent)
    \/ \E token \in mailbox : ConfirmTenderAlert(token) \/ UnsubscribeTenderAlert(token)
    \/ \E l \in leaving : EndingCommits(l)
    \/ SwitchAlerts

AlertsSpec == AlertsInit /\ [][AlertsNext]_alertVars

-----------------------------------------------------------------------------

\* Double opt-in: an alert is active only after the owner of the address presented
\* the token of its latest request, and never again on a token with which it was
\* ended by the owner or given up after a failed delivery, however requests,
\* failures, confirmations and endings overtake each other; and the contact counts
\* as opted in only after such a confirmation.
AlertNeedsItsToken ==
    /\ \A m \in Markets :
        state[m] = "ACTIVE" => digest[m] \in (confirmed \cap mailbox) \ ended
    /\ consent = "OPTED_IN" => confirmed # {}
=============================================================================
