---------------------------- MODULE PlatformProofs ----------------------------
(***************************************************************************)
(* Proofs about the components that stand side by side in MCPlatform.  A   *)
(* step of the platform is a step of the component in focus and leaves the *)
(* others alone, so every component takes only steps of its own and each   *)
(* proof is one about that component: an inductive invariant of its state, *)
(* whichever component is in focus, and the property from it.              *)
(***************************************************************************)
EXTENDS MCPlatform, FiniteSetTheorems, SequenceTheorems, WellFoundedInduction, TLAPS

\* Whatever the platform does, each of its components takes a step of its own or none.
LEMMA ComponentSteps ==
  ASSUME [PlatformNext]_platformVars
  PROVE  /\ [Contacts!ContactNext]_contactVars /\ [Renewal!RenewalNext]_renewalVars
         /\ [Alerts!AlertsNext]_alertVars /\ [Discover!DiscoveryNext]_discoveryVars
         /\ [Study!StudyNext]_studyVars /\ [Dialogue!AxentNext]_axentVars
         /\ [Objects!ObjectNext]_objectVars /\ [Artifacts!ArtifactsNext]_artifactVars
         /\ [Pilot!PilotNext]_pilotVars /\ [Gateway!GatewayNext]_gatewayVars
         /\ [Stripe!BillingRuntimeNext]_stripeVars /\ [Prototype!PrototypeNext]_prototypeVars
         /\ [Requests!RequestNext]_authorityVars
BY DEF PlatformNext, platformVars, Still

--------------------------------------------------------------------------------
(* The object store *)

\* The steps of a put after which it has made sure that the object is there.
Past == {"REPLACED", "OPENED", "STORED"}

PutStates ==
  {"READY", "TEMP", "REPLACED", "OPENED", "ORPHANED", "HEADED", "STORED", "REFUSED", "KILLED", "TORN"}

\* S3 and memory keep the metadata with the blob, and no put of theirs has files under way.
OneFile ==
  IF backend = "local" THEN \A p \in Putters : putting[p] # "HEADED"
  ELSE
    /\ ~unlinking
    /\ meta = IF blob = "ABSENT" THEN "ABSENT" ELSE "WHOLE"
    /\ \A p \in Putters : putting[p] \notin {"TEMP", "REPLACED", "OPENED", "ORPHANED", "TORN"}

\* What a put made sure of stays, until a deletion.  Once a put was answered, those still
\* under way are overtaken, and only one of them takes the metadata away.
PutsLast ==
  \A p \in since :
    /\ putting[p] \notin {"READY", "ORPHANED"}
    /\ putting[p] \in Past => blob # "ABSENT"
    /\ putting[p] = "STORED" =>
         /\ \A q \in Putters : putting[q] \in {"TEMP", "REPLACED", "OPENED"} => q \in overtaken
         /\ meta = "WHOLE" \/ \E q \in overtaken : putting[q] \in {"OPENED", "TORN"}

\* Who is refused is not alone: somebody else wrote the object.
RefusedNextTo ==
  /\ blob # "ABSENT" => \E q \in Putters : putting[q] \notin {"READY", "HEADED", "TEMP", "REFUSED"}
  /\ \A p \in Putters : putting[p] = "REFUSED" => \E q \in Putters \ {p} : putting[q] # "READY"

\* While no two probes met, the file is there for the one that wrote it.
ProbesAgree ==
  \A r \in Probers :
    /\ probing[r] # "NOT_READY"
    /\ probing[r] = "WRITTEN" => probeFile /\ \A o \in Probers : probing[o] = "WRITTEN" => o = r

ObjectType ==
  /\ putting \in [Putters -> PutStates] /\ DOMAIN probing = Probers
  /\ blob \in {"ABSENT", "WHOLE", "CORRUPT"}
  /\ since \subseteq Putters /\ overtaken \subseteq Putters

PutsAgree == OneFile /\ PutsLast /\ RefusedNextTo

ObjectInv == ObjectType /\ PutsAgree /\ (~probesMet => ProbesAgree)

LEMMA ObjectsInitially == Objects!ObjectInit => ObjectInv
BY DEF Objects!ObjectInit, ObjectInv, ObjectType, PutStates, PutsAgree, OneFile, PutsLast, RefusedNextTo, ProbesAgree

\* The steps of a put, one by one.
LEMMA PutsKept ==
  ASSUME ObjectType, PutsAgree, NEW p \in Putters,
         \/ Objects!PutBegins(p) \/ Objects!PutReplaces(p) \/ Objects!PutOpensMetadata(p)
         \/ Objects!PutWritesMetadata(p) \/ Objects!PutIfNoneMatch(p) \/ Objects!Killed(p)
  PROVE  ObjectType' /\ PutsAgree' /\ UNCHANGED <<probeFile, probing, probesMet>>
<1> USE DEF ObjectType, PutStates, PutsAgree, Past
<1>1. ASSUME Objects!PutBegins(p) PROVE ObjectType' /\ PutsAgree' /\ UNCHANGED <<probeFile, probing, probesMet>>
  <2> USE <1>1 DEF Objects!PutBegins, Objects!Same, Objects!Kept, Objects!VerifyHash, Objects!Get, Objects!UnderWay
  <2>1. ObjectType' /\ UNCHANGED <<backend, unlinking, probeFile, probing, probesMet>>
    OBVIOUS
  <2>2. OneFile'
    BY DEF OneFile
  <2>3. PutsLast'
    BY DEF PutsLast, OneFile
  <2>4. RefusedNextTo'
    BY DEF RefusedNextTo
  <2>5. QED
    BY <2>1, <2>2, <2>3, <2>4
<1>2. ASSUME Objects!PutReplaces(p) PROVE ObjectType' /\ PutsAgree' /\ UNCHANGED <<probeFile, probing, probesMet>>
  BY <1>2 DEF Objects!PutReplaces, Objects!Same, OneFile, PutsLast, RefusedNextTo
<1>3. ASSUME Objects!PutOpensMetadata(p) PROVE ObjectType' /\ PutsAgree' /\ UNCHANGED <<probeFile, probing, probesMet>>
  BY <1>3 DEF Objects!PutOpensMetadata, Objects!Same, OneFile, PutsLast, RefusedNextTo
<1>4. ASSUME Objects!PutWritesMetadata(p) PROVE ObjectType' /\ PutsAgree' /\ UNCHANGED <<probeFile, probing, probesMet>>
  <2> USE <1>4 DEF Objects!PutWritesMetadata, Objects!Same, Objects!UnderWay
  <2>1. ObjectType' /\ OneFile' /\ RefusedNextTo' /\ UNCHANGED <<probeFile, probing, probesMet>>
    BY DEF OneFile, RefusedNextTo
  <2>2. PutsLast'
    BY DEF PutsLast
  <2>3. QED
    BY <2>1, <2>2
<1>5. ASSUME Objects!PutIfNoneMatch(p) PROVE ObjectType' /\ PutsAgree' /\ UNCHANGED <<probeFile, probing, probesMet>>
  BY <1>5 DEF Objects!PutIfNoneMatch, Objects!Same, OneFile, PutsLast, RefusedNextTo
<1>6. ASSUME Objects!Killed(p) PROVE ObjectType' /\ PutsAgree' /\ UNCHANGED <<probeFile, probing, probesMet>>
  <2> USE <1>6 DEF Objects!Killed, Objects!Same
  <2>1. ObjectType' /\ OneFile' /\ RefusedNextTo' /\ UNCHANGED <<probeFile, probing, probesMet>>
    BY DEF OneFile, RefusedNextTo
  <2>2. PutsLast'
    BY DEF PutsLast
  <2>3. QED
    BY <2>1, <2>2
<1>7. QED
  BY <1>1, <1>2, <1>3, <1>4, <1>5, <1>6

LEMMA ObjectsKept ==
  ASSUME ObjectInv, [Objects!ObjectNext]_objectVars
  PROVE  ObjectInv'
<1> USE DEF ObjectInv
<1>1. ASSUME NEW p \in Putters,
             \/ Objects!PutBegins(p) \/ Objects!PutReplaces(p) \/ Objects!PutOpensMetadata(p)
             \/ Objects!PutWritesMetadata(p) \/ Objects!PutIfNoneMatch(p) \/ Objects!Killed(p)
      PROVE  ObjectInv'
  BY <1>1, PutsKept DEF ProbesAgree
<1>2. ASSUME Objects!DeleteIfUnreferenced PROVE ObjectInv'
  <2> USE <1>2 DEF Objects!DeleteIfUnreferenced
  <2>1. ObjectType' /\ PutsLast'
    BY DEF ObjectType, PutStates, PutsAgree, PutsLast
  <2>2. RefusedNextTo'
    BY DEF ObjectType, PutsAgree, RefusedNextTo
  <2>3. backend # "local" => meta' = "ABSENT" /\ ~unlinking'
    OBVIOUS
  <2>4. OneFile'
    BY <2>3 DEF ObjectType, PutsAgree, OneFile
  <2>5. (~probesMet => ProbesAgree)'
    BY DEF ProbesAgree
  <2>6. QED
    BY <2>1, <2>2, <2>4, <2>5 DEF PutsAgree
<1>3. ASSUME Objects!Tampered PROVE ObjectInv'
  <2> USE <1>3 DEF Objects!Tampered
  <2>1. ObjectType' /\ PutsAgree'
    BY DEF ObjectType, PutStates, PutsAgree, PutsLast, RefusedNextTo, OneFile
  <2>2. (~probesMet => ProbesAgree)'
    BY DEF ProbesAgree
  <2>3. QED
    BY <2>1, <2>2
<1>4. ASSUME Objects!DeleteMetadata PROVE ObjectInv'
  <2> USE <1>4 DEF Objects!DeleteMetadata
  <2>1. ObjectType' /\ PutsLast'
    BY DEF ObjectType, PutStates, PutsLast
  <2>2. RefusedNextTo'
    BY DEF ObjectType, PutsAgree, RefusedNextTo
  <2>3. OneFile'
    BY DEF ObjectType, PutsAgree, OneFile
  <2>4. (~probesMet => ProbesAgree)'
    BY DEF ProbesAgree
  <2>5. QED
    BY <2>1, <2>2, <2>3, <2>4 DEF PutsAgree
<1>5. ASSUME NEW r \in Probers, Objects!ProbeWrites(r) \/ Objects!ProbeUnlinks(r) PROVE ObjectInv'
  <2>1. UNCHANGED <<backend, blob, meta, putting, unlinking, since, overtaken>> /\ DOMAIN probing' = Probers
    BY <1>5 DEF Objects!ProbeWrites, Objects!ProbeUnlinks, ObjectType
  <2>2. ObjectType' /\ PutsAgree'
    BY <2>1 DEF ObjectType, PutsAgree, OneFile, PutsLast, RefusedNextTo
  <2>3. (~probesMet => ProbesAgree)'
    BY <1>5 DEF Objects!ProbeWrites, Objects!ProbeUnlinks, ProbesAgree, ObjectType
  <2>4. QED
    BY <2>2, <2>3
<1>6. CASE UNCHANGED objectVars
  BY <1>6 DEF objectVars, ObjectType, PutsAgree, OneFile, PutsLast, RefusedNextTo, ProbesAgree
<1>7. QED
  BY <1>1, <1>2, <1>3, <1>4, <1>5, <1>6 DEF Objects!ObjectNext

LEMMA StoredIsReadable == ASSUME ObjectInv PROVE Objects!StoredObjectsCanBeRead
<1>1. Objects!Get # "CORRUPT"
  BY DEF Objects!Get
<1>2. ASSUME NEW p \in since, putting[p] = "STORED"
      PROVE  Objects!Get = "WHOLE" \/ Objects!Truncated \/ blob = "CORRUPT"
  BY <1>2 DEF ObjectInv, ObjectType, PutsAgree, PutsLast, Past, Objects!Get, Objects!Truncated
<1>3. \A p \in Putters : putting[p] = "REFUSED" => \E q \in Putters \ {p} : putting[q] # "READY"
  BY DEF ObjectInv, PutsAgree, RefusedNextTo
<1>4. ASSUME NEW r \in Probers, probing[r] = "NOT_READY" PROVE probesMet
  BY <1>4 DEF ObjectInv, ProbesAgree
<1>5. QED
  BY <1>1, <1>2, <1>3, <1>4 DEF Objects!StoredObjectsCanBeRead

\* An object whose put was answered can be read back until it is deleted or damaged, unless a
\* put it overtook has truncated its metadata file; who is refused was not alone; and the
\* store is called not ready only when two probes met: put of the three backends keeps this
\* for any number of processes, each stopped anywhere.
THEOREM StoredObjectsStay == PlatformSpec => []StoredObjectsCanBeRead
<1>1. PlatformInit => ObjectInv
  BY ObjectsInitially DEF PlatformInit
<1>2. ObjectInv /\ [PlatformNext]_platformVars => ObjectInv'
  BY ComponentSteps, ObjectsKept
<1>3. ObjectInv => StoredObjectsCanBeRead
  BY StoredIsReadable DEF StoredObjectsCanBeRead
<1>4. QED
  BY <1>1, <1>2, <1>3, PTL DEF PlatformSpec

--------------------------------------------------------------------------------
(* Tender alerts and discovery pages *)

AlertStates == {"ABSENT", "PENDING_CONFIRMATION", "ACTIVE", "SUPPRESSED", "UNSUBSCRIBED"}

\* A token names one row at most, and a row that may still be confirmed, or is, carries a
\* token nothing was ended with.
AlertsInv ==
  /\ state \in [Markets -> AlertStates] /\ digest \in [Markets -> Nat] /\ drawn \in Nat
  /\ \A r \in requests : r.market \in Markets
  /\ \A l \in leaving : /\ l.market \in Markets /\ l.to \in {"SUPPRESSED", "UNSUBSCRIBED"}
                       /\ l.contact \in {"KEPT", "SUPPRESSED", "OPTED_OUT"}
  /\ \A e \in ended : e \in Nat /\ e <= drawn
  /\ \A m \in Markets : digest[m] <= drawn /\ (state[m] = "ABSENT" => digest[m] = 0)
  /\ \A m, o \in Markets : digest[m] # 0 /\ digest[m] = digest[o] => m = o
  /\ \A m \in Markets :
       state[m] \in {"PENDING_CONFIRMATION", "ACTIVE"} => digest[m] # 0 /\ digest[m] \notin ended
  /\ \A m \in Markets : state[m] = "ACTIVE" => digest[m] \in confirmed \cap mailbox
  /\ consent = "OPTED_IN" => confirmed # {}

LEMMA AlertsInitially == Alerts!AlertsInit => AlertsInv
BY DEF Alerts!AlertsInit, AlertsInv, AlertStates

LEMMA AlertsKept ==
  ASSUME AlertsInv, [Alerts!AlertsNext]_alertVars
  PROVE  AlertsInv'
<1> USE DEF AlertsInv, AlertStates
<1>1. ASSUME NEW m \in Markets, Alerts!SubscribeTenderAlert(m) PROVE AlertsInv'
  <2> DEFINE tok == drawn + 1
  <2>1. tok \in Nat /\ tok > drawn
    OBVIOUS
  <2>2. /\ drawn' = tok
        /\ \A o \in Markets : digest'[o] = IF o = m THEN tok ELSE digest[o]
        /\ \A o \in Markets : state'[o] = IF o # m \/ state[o] = "SUPPRESSED" THEN state[o] ELSE "PENDING_CONFIRMATION"
        /\ state' \in [Markets -> AlertStates] /\ digest' \in [Markets -> Nat]
        /\ \A r \in requests' : r.market \in Markets
        /\ UNCHANGED <<mailbox, leaving, confirmed, ended>> /\ (consent' = "OPTED_IN" => consent = "OPTED_IN")
    BY <1>1 DEF Alerts!SubscribeTenderAlert, Alerts!UpsertAlert
  <2> HIDE DEF tok
  <2>3. \A e \in ended' : e \in Nat /\ e <= drawn'
    BY <2>1, <2>2
  <2>4. \A o \in Markets : digest'[o] <= drawn'
    BY <2>1, <2>2
  <2>5. \A n, o \in Markets : digest'[n] # 0 /\ digest'[n] = digest'[o] => n = o
    BY <2>1, <2>2
  <2>6. tok \notin ended /\ tok # 0
    BY <2>1
  <2>7. QED
    BY <2>1, <2>2, <2>3, <2>4, <2>5, <2>6
<1>2. ASSUME NEW r \in requests, Alerts!DeliverConfirmation(r) PROVE AlertsInv'
  BY <1>2 DEF Alerts!DeliverConfirmation
<1>3. ASSUME NEW r \in requests, Alerts!FailAlertDelivery(r) PROVE AlertsInv'
  <2>1. r.market \in Markets
    OBVIOUS
  <2>2. CASE state[r.market] = "PENDING_CONFIRMATION"
    BY <1>3, <2>1, <2>2 DEF Alerts!FailAlertDelivery, Alerts!Begin
  <2>3. CASE state[r.market] # "PENDING_CONFIRMATION"
    BY <1>3, <2>3 DEF Alerts!FailAlertDelivery
  <2>4. QED
    BY <2>2, <2>3
<1>4. ASSUME NEW r \in requests, NEW sent, Alerts!RequestLost(r, sent) PROVE AlertsInv'
  BY <1>4 DEF Alerts!RequestLost
<1>5. ASSUME NEW tok \in mailbox, Alerts!ConfirmTenderAlert(tok) PROVE AlertsInv'
  <2>1. PICK m \in Markets : /\ digest[m] = tok /\ Alerts!Confirmable(m)
                             /\ state' = [state EXCEPT ![m] = "ACTIVE"] /\ consent' = "OPTED_IN"
    BY <1>5 DEF Alerts!ConfirmTenderAlert, Alerts!RowOf
  <2>2. /\ confirmed' = confirmed \cup {tok}
        /\ UNCHANGED <<digest, requests, mailbox, leaving, drawn, ended>> /\ tok # 0
    BY <1>5 DEF Alerts!ConfirmTenderAlert, Alerts!RowOf
  <2>3. state[m] \in {"PENDING_CONFIRMATION", "ACTIVE"}
    BY <2>1, <2>2 DEF Alerts!Confirmable
  <2>4. QED
    BY <2>1, <2>2, <2>3
<1>6. ASSUME NEW tok \in mailbox, Alerts!UnsubscribeTenderAlert(tok) PROVE AlertsInv'
  BY <1>6 DEF Alerts!UnsubscribeTenderAlert, Alerts!RowOf, Alerts!Begin
<1>7. ASSUME NEW l \in leaving, Alerts!EndingCommits(l) PROVE AlertsInv'
  BY <1>7 DEF Alerts!EndingCommits
<1>8. CASE Alerts!SwitchAlerts \/ UNCHANGED alertVars
  BY <1>8 DEF Alerts!SwitchAlerts, alertVars
<1>9. QED
  BY <1>1, <1>2, <1>3, <1>4, <1>5, <1>6, <1>7, <1>8 DEF Alerts!AlertsNext

\* A page may be published, or is, only on a decision to index it, which also put it into
\* the sitemap; and the database decides as the policy does.
DiscoveryInv ==
  /\ pageState \in {"INDEXABLE", "PUBLISHED"} => decision.of = "INDEX" /\ entry = "INCLUDED"
  /\ decision.of # Discover!None => decision.of = Discover!PolicyDecision(decision.reasons)

\* organic_policy.evaluate_indexability and the database's gate decide alike.
LEMMA GatesAgree == ASSUME NEW reasons PROVE Discover!StoreDecision(reasons) = Discover!PolicyDecision(reasons)
BY DEF Discover!StoreDecision, Discover!PolicyDecision

LEMMA DiscoveryInitially == Discover!DiscoveryInit => DiscoveryInv
BY DEF Discover!DiscoveryInit, DiscoveryInv

LEMMA DiscoveryKept ==
  ASSUME DiscoveryInv, [Discover!DiscoveryNext]_discoveryVars
  PROVE  DiscoveryInv'
<1>1. CASE Discover!EvaluatePage
  <2>1. PICK reasons, d : /\ d = Discover!PolicyDecision(reasons) /\ decision' = [of |-> d, reasons |-> reasons]
                          /\ pageState' = IF d = "INDEX" THEN "INDEXABLE" ELSE IF d = "HOLD" THEN "CANDIDATE" ELSE "NOINDEX"
                          /\ entry' = IF d = "INDEX" THEN "INCLUDED" ELSE "EXCLUDED"
    BY <1>1, GatesAgree DEF Discover!EvaluatePage
  <2>2. QED
    BY <2>1 DEF DiscoveryInv, Discover!PolicyDecision
<1>2. ASSUME NEW days, Discover!PublishPage(days) PROVE DiscoveryInv'
  BY <1>2 DEF DiscoveryInv, Discover!PublishPage, Discover!MayPublish, Discover!PolicyDecision
<1>3. CASE UNCHANGED <<pageState, decision, entry>>
  BY <1>3 DEF DiscoveryInv, Discover!PolicyDecision
<1>4. QED
  BY <1>1, <1>2, <1>3 DEF Discover!DiscoveryNext, discoveryVars, Discover!RecordAiCitation, Discover!TestBootstrapFounder,
     Discover!RevokeFounder, Discover!SwitchIndexing, Discover!DataChanges, Discover!DayPasses

\* An alert is active only by the confirmation of the token its row holds, which was never
\* used to end it, and a page is served only on a decision to index it: for any number of
\* markets, requests and candidates, in every order of mails, failures and endings.
THEOREM OrganicSurfaceStaysEarned == PlatformSpec => []OrganicSurfaceIsEarned
<1>1. PlatformInit => AlertsInv /\ DiscoveryInv
  BY AlertsInitially, DiscoveryInitially DEF PlatformInit
<1>2. AlertsInv /\ DiscoveryInv /\ [PlatformNext]_platformVars => AlertsInv' /\ DiscoveryInv'
  BY ComponentSteps, AlertsKept, DiscoveryKept
<1>3. AlertsInv => Alerts!AlertNeedsItsToken
  BY DEF AlertsInv, Alerts!AlertNeedsItsToken
<1>4. DiscoveryInv => Discover!ServedPagesPassedTheGate
  BY DEF DiscoveryInv, Discover!ServedPagesPassedTheGate, Discover!PublicDiscoveryPage, Discover!PublicDiscoverySitemap
<1>5. AlertsInv /\ DiscoveryInv => OrganicSurfaceIsEarned
  BY <1>3, <1>4 DEF OrganicSurfaceIsEarned
<1>6. QED
  BY <1>1, <1>2, <1>5, PTL DEF PlatformSpec

--------------------------------------------------------------------------------
(* The paid plan and the settings in force *)

AnyPrice == Prices \cup {Stripe!NoPrice}

Selections ==
  [state : {"NONE", "SELECTED", "CHECKOUT_CREATED", "CHECKOUT_COMPLETED", "ACTIVE", "UPGRADE_PENDING"},
   plan : Stripe!Plans, pending : {"TEAM", Stripe!NoMapping},
   session : {"none", "test"} \cup {d.key : d \in Deployments}, price : AnyPrice, last : Nat]

Sides == [session : {"none", "open", "complete"}, price : AnyPrice, active : BOOLEAN]

StripeType ==
  /\ deployed \in Deployments /\ clockAtStripe \in Nat /\ chosen \in Selections
  /\ stripeSide \in [Stripe!Modes -> Sides] /\ DOMAIN soldUnder = Stripe!Modes
  /\ \A e \in stripeEvents :
       /\ e.at \in Nat /\ e.at <= clockAtStripe /\ e.price \in AnyPrice
       /\ e.mode \in Stripe!Modes /\ e.type \in {"completed", "updated"}
  /\ \A e \in processed : e.mode \in Stripe!Modes => e \in stripeEvents

\* Who checks out has a row, and both plans have a price while it does.
CheckoutAgrees ==
  /\ checkingOut = "session" => Stripe!PriceMappings
  /\ checkingOut # "no" => chosen.state # "NONE"
  /\ chosen.state = "NONE" => soldUnder["sandbox"] = {} /\ activated = {} /\ chosen.pending = Stripe!NoMapping
  /\ stripeSide["sandbox"].active => stripeSide["sandbox"].session # "none"

\* An upgrade is of an active plan, and is the last thing that is activated.
RowAgrees ==
  /\ chosen.state \in {"ACTIVE", "UPGRADE_PENDING"} \/ chosen.pending = "TEAM" => chosen.plan \in activated
  /\ chosen.state = "UPGRADE_PENDING" => chosen.pending = "TEAM"
  /\ "TEAM" \in activated => chosen.plan = "TEAM" /\ chosen.pending = Stripe!NoMapping

\* The row is ahead of Stripe's clock by the one event the test route can make before an
\* upgrade.
NotAhead ==
  \/ chosen.last <= clockAtStripe
  \/ chosen.last <= clockAtStripe + 1 /\ Stripe!AlreadySent("COMPLETE_CHECKOUT")
  \/ "TEAM" \in activated

Bought(s) == Stripe!PlanUnder(s, stripeSide["sandbox"].price)

\* Neither the row nor a completed checkout is later than this event.
Waits(e) ==
  /\ e.type = "updated" /\ e.mode = "sandbox" /\ e.price = stripeSide["sandbox"].price
  /\ chosen.last <= e.at
  /\ \A c \in stripeEvents : c.type = "completed" /\ c.mode = "sandbox" => c.at <= e.at

WithinReach ==
  \A s \in soldUnder["sandbox"] : s.professional # s.team =>
    \/ Bought(s) \in activated
    \/ /\ Bought(s) = Stripe!Confirmed
       /\ stripeSide["sandbox"].active => \E e \in stripeEvents \ processed : Waits(e)

StripeInv == StripeType /\ CheckoutAgrees /\ RowAgrees /\ NotAhead /\ WithinReach

LEMMA UpgradesHaveAPlan == Stripe!NoMapping # "TEAM"
BY DEF Stripe!NoMapping

LEMMA StripeInitially == Stripe!BillingRuntimeInit => StripeInv
<1> SUFFICES ASSUME Stripe!BillingRuntimeInit PROVE StripeInv
  OBVIOUS
<1> USE DEF Stripe!BillingRuntimeInit, Stripe!Modes
<1>1. Stripe!Unchosen \in Selections
  BY DEF Stripe!Unchosen, Selections, Stripe!Plans, AnyPrice
<1>2. Stripe!NoSession \in Sides
  BY DEF Stripe!NoSession, Sides, AnyPrice
<1>3. StripeType
  BY <1>1, <1>2 DEF StripeType
<1>4. /\ chosen.state = "NONE" /\ chosen.pending = Stripe!NoMapping /\ chosen.last = 0
      /\ ~stripeSide["sandbox"].active /\ soldUnder["sandbox"] = {} /\ activated = {} /\ checkingOut = "no"
  BY DEF Stripe!Unchosen, Stripe!NoSession
<1>5. CheckoutAgrees /\ RowAgrees
  BY <1>4, UpgradesHaveAPlan DEF CheckoutAgrees, RowAgrees
<1>6. NotAhead /\ WithinReach
  BY <1>4 DEF NotAhead, WithinReach
<1> HIDE DEF Stripe!BillingRuntimeInit, Stripe!Modes
<1>7. QED
  BY <1>3, <1>5, <1>6 DEF StripeInv

\* Nothing but the deployment and the checkout under way has changed.
LEMMA SameRow ==
  ASSUME RowAgrees, NotAhead, WithinReach,
         UNCHANGED <<chosen, stripeSide, stripeEvents, processed, clockAtStripe, activated, soldUnder>>
  PROVE  RowAgrees' /\ NotAhead' /\ WithinReach'
BY DEF RowAgrees, NotAhead, WithinReach, Bought, Waits, Stripe!AlreadySent, Stripe!Confirmed, Stripe!PlanUnder

LEMMA SelectionFields ==
  ASSUME chosen \in Selections
  PROVE  /\ chosen.last \in Nat /\ chosen.plan \in {"PROFESSIONAL", "TEAM"}
         /\ chosen.pending \in {"TEAM", Stripe!NoMapping} /\ Stripe!NoMapping # "TEAM"
         /\ Stripe!Confirmed = IF chosen.pending = "TEAM" THEN "TEAM" ELSE chosen.plan
         /\ Stripe!Confirmed \in Stripe!Plans
<1>1. /\ chosen.last \in Nat /\ chosen.plan \in {"PROFESSIONAL", "TEAM"}
      /\ chosen.pending \in {"TEAM", Stripe!NoMapping}
  BY DEF Selections, Stripe!Plans
<1>2. QED
  BY <1>1, UpgradesHaveAPlan DEF Stripe!Confirmed, Stripe!Plans

\* What an event that is taken makes of the row: nothing, a completed checkout, or the plan
\* it waited for.
Unmoved(e) == e.at < chosen.last /\ chosen' = chosen /\ activated' = activated

Completed(e) ==
  /\ e.type = "completed" /\ chosen.last <= e.at /\ activated' = activated
  /\ chosen'.state = "CHECKOUT_COMPLETED" /\ chosen'.last = e.at
  /\ chosen'.plan = chosen.plan /\ chosen'.pending = chosen.pending

Activated(e) ==
  /\ e.type = "updated" /\ chosen.last <= e.at /\ activated' = activated \cup {Stripe!Confirmed}
  /\ chosen'.state = "ACTIVE" /\ chosen'.last = e.at
  /\ chosen'.plan = Stripe!Confirmed /\ chosen'.pending = Stripe!NoMapping

LEMMA AppliedTyped ==
  ASSUME chosen \in Selections, NEW e, e.at \in Nat, e.price \in AnyPrice, Stripe!Apply(e),
         e.type \in {"completed", "updated"}
  PROVE  chosen' \in Selections /\ (Unmoved(e) \/ Completed(e) \/ Activated(e))
<1> USE DEF Stripe!Apply, Stripe!Applied, Stripe!Refuses, Stripe!Activates, Stripe!Stale
<1>0. chosen.last \in Nat /\ Stripe!Confirmed \in Stripe!Plans
  BY SelectionFields
<1>1. CASE e.at < chosen.last
  BY <1>1 DEF Unmoved
<1>2. CASE ~(e.at < chosen.last) /\ e.type = "completed"
  <2>1. /\ chosen' = [chosen EXCEPT !.state = "CHECKOUT_COMPLETED", !.last = e.at]
        /\ activated' = activated /\ chosen.last <= e.at
    BY <1>0, <1>2
  <2>2. chosen' \in Selections
    BY <2>1 DEF Selections
  <2>3. Completed(e)
    BY <1>2, <2>1 DEF Completed, Selections
  <2>4. QED
    BY <2>2, <2>3
<1>3. CASE ~(e.at < chosen.last) /\ e.type = "updated"
  <2>1. Stripe!PlanForPrice(e.price) = Stripe!Confirmed
    BY <1>3 DEF Stripe!PlanAgrees
  <2>2. chosen' = [chosen EXCEPT !.state = "ACTIVE", !.plan = Stripe!Confirmed,
                               !.pending = Stripe!NoMapping, !.price = e.price, !.last = e.at]
    BY <1>3, <2>1
  <2> HIDE DEF Stripe!Apply, Stripe!Applied
  <2>3. /\ chosen' \in Selections /\ chosen'.plan = Stripe!Confirmed /\ chosen'.pending = Stripe!NoMapping
        /\ chosen'.state = "ACTIVE" /\ chosen'.last = e.at /\ chosen.last <= e.at
    <3>1. [chosen EXCEPT !.state = "ACTIVE", !.plan = Stripe!Confirmed] \in Selections
      BY <1>0 DEF Selections
    <3>2. PICK row \in Selections : row = [chosen EXCEPT !.state = "ACTIVE", !.plan = Stripe!Confirmed]
      BY <3>1
    <3>3. row.plan = Stripe!Confirmed /\ row.state = "ACTIVE"
      BY <3>2 DEF Selections
    <3>4. chosen' = [row EXCEPT !.pending = Stripe!NoMapping, !.price = e.price, !.last = e.at]
      BY <2>2, <3>2
    <3>5. /\ chosen' \in Selections /\ chosen'.pending = Stripe!NoMapping /\ chosen'.last = e.at
          /\ chosen'.plan = row.plan /\ chosen'.state = row.state
      BY <3>4 DEF Selections
    <3>6. QED
      BY <1>0, <1>3, <3>3, <3>5
  <2>4. activated' = activated \cup {Stripe!Confirmed}
    BY <1>3, <2>3 DEF Stripe!Apply
  <2>5. Activated(e)
    BY <1>3, <2>3, <2>4 DEF Activated
  <2>6. QED
    BY <2>3, <2>5
<1>4. QED
  BY <1>1, <1>2, <1>3

\* The type of every step.
LEMMA StripeTyped ==
  ASSUME StripeType, [Stripe!BillingRuntimeNext]_stripeVars
  PROVE  StripeType'
<1> USE DEF StripeType, Stripe!Modes
<1>0. \A plan : Stripe!PriceForPlan(plan) \in AnyPrice
  BY DeploymentsAssumption DEF Stripe!PriceForPlan, AnyPrice
<1>1. ASSUME NEW s \in Deployments, Stripe!Deploy(s) PROVE StripeType'
  BY <1>1 DEF Stripe!Deploy
<1>2. ASSUME NEW plan \in Stripe!Plans, Stripe!BeginCheckout(plan) PROVE StripeType'
  <2>1. chosen' \in Selections
    BY <1>2 DEF Stripe!BeginCheckout, Selections
  <2>2. QED
    BY <1>2, <2>1 DEF Stripe!BeginCheckout
<1>3. CASE Stripe!CreateSessionAtStripe
  <2>1. \A m \in Stripe!Modes : stripeSide'[m] \in Sides
    BY <1>0, <1>3 DEF Stripe!CreateSessionAtStripe, Stripe!SessionAtStripe, Sides
  <2>2. stripeSide' \in [Stripe!Modes -> Sides] /\ DOMAIN soldUnder' = Stripe!Modes
    BY <1>3, <2>1 DEF Stripe!CreateSessionAtStripe, Stripe!SessionAtStripe
  <2>3. QED
    BY <1>3, <2>2 DEF Stripe!CreateSessionAtStripe
<1>4. CASE Stripe!CreateTestSession
  BY <1>4 DEF Stripe!CreateTestSession
<1>5. CASE Stripe!MarkCheckoutCreated
  <2>1. Stripe!SessionName \in {"none", "test"} \cup {d.key : d \in Deployments}
    BY DEF Stripe!SessionName
  <2>2. chosen' \in Selections
    BY <1>0, <1>5, <2>1 DEF Stripe!MarkCheckoutCreated, Selections
  <2>3. QED
    BY <1>5, <2>2 DEF Stripe!MarkCheckoutCreated
<1>6. CASE Stripe!RequestUpgrade
  <2>1. deployed.team \in AnyPrice
    BY DeploymentsAssumption DEF AnyPrice
  <2>2. chosen' \in Selections
    BY <1>6 DEF Stripe!RequestUpgrade, Selections
  <2>3. \A m \in Stripe!Modes : stripeSide'[m] \in Sides
    BY <1>6, <2>1 DEF Stripe!RequestUpgrade, Sides
  <2>4. stripeSide' \in [Stripe!Modes -> Sides] /\ DOMAIN soldUnder' = Stripe!Modes
    BY <1>6, <2>3 DEF Stripe!RequestUpgrade
  <2>5. CASE UNCHANGED <<stripeSide, stripeEvents, clockAtStripe, soldUnder>>
    BY <1>6, <2>2, <2>5 DEF Stripe!RequestUpgrade
  <2>6. CASE /\ chosen.session = deployed.key /\ stripeSide[deployed.key].active
             /\ clockAtStripe' = clockAtStripe + 1
             /\ stripeEvents' = stripeEvents \cup {[type |-> "updated", mode |-> deployed.key,
                                  price |-> deployed.team, at |-> clockAtStripe + 1]}
             /\ deployed.key \in Stripe!Modes
    BY <1>6, <2>1, <2>2, <2>4, <2>6 DEF Stripe!RequestUpgrade
  <2>7. deployed.provider = "stripe" => deployed.key \in Stripe!Modes
    BY <1>6, DeploymentsAssumption
    DEF Stripe!RequestUpgrade, Stripe!RequireLifecycle, Stripe!RequireCheckout, Stripe!SandboxSecret
  <2>8. QED
    BY <1>6, <2>5, <2>6, <2>7 DEF Stripe!RequestUpgrade
<1>7. ASSUME NEW mode \in Stripe!Modes, Stripe!Pays(mode) PROVE StripeType'
  <2>0. stripeSide' = [stripeSide EXCEPT ![mode].session = "complete", ![mode].active = TRUE]
    BY <1>7 DEF Stripe!Pays
  <2>1. \A m \in Stripe!Modes : stripeSide'[m] \in Sides
    <3>1. \A m \in Stripe!Modes : m # mode => stripeSide'[m] = stripeSide[m]
      BY <2>0
    <3>2. stripeSide'[mode] = [stripeSide[mode] EXCEPT !.session = "complete", !.active = TRUE]
      BY <2>0
    <3>3. stripeSide'[mode] \in Sides
      <4>1. stripeSide[mode] \in Sides
        OBVIOUS
      <4> HIDE DEF StripeType
      <4>2. QED
        BY <3>2, <4>1 DEF Sides
    <3>4. QED
      BY <3>1, <3>3
  <2>2. stripeSide' \in [Stripe!Modes -> Sides] /\ stripeSide[mode].price \in AnyPrice
    BY <1>7, <2>1 DEF Stripe!Pays, Sides
  <2>3. \A e \in stripeEvents' : e \in stripeEvents \/
          (/\ e.at = clockAtStripe + 1 /\ e.price \in AnyPrice /\ e.mode = mode
           /\ e.type \in {"completed", "updated"})
    BY <1>7, <2>2 DEF Stripe!Pays, AnyPrice
  <2>4. QED
    BY <1>7, <2>2, <2>3 DEF Stripe!Pays
<1>8. ASSUME NEW mode \in Stripe!Modes, NEW price \in AnyPrice, Stripe!MovedAtStripe(mode, price) PROVE StripeType'
  <2>1. \A m \in Stripe!Modes : stripeSide'[m] \in Sides
    BY <1>8 DEF Stripe!MovedAtStripe, Sides
  <2>2. stripeSide' \in [Stripe!Modes -> Sides]
    BY <1>8, <2>1 DEF Stripe!MovedAtStripe
  <2>3. QED
    BY <1>8, <2>2 DEF Stripe!MovedAtStripe
<1>9. ASSUME NEW e \in stripeEvents, Stripe!DeliverEvent(e) PROVE StripeType'
  <2>1. /\ e.at \in Nat /\ e.price \in AnyPrice /\ e.type \in {"completed", "updated"} /\ Stripe!Apply(e)
        /\ chosen \in Selections
    BY <1>9 DEF Stripe!DeliverEvent
  <2> HIDE DEF StripeType
  <2>2. chosen' \in Selections
    BY <2>1, AppliedTyped
  <2>3. QED
    BY <1>9, <2>2 DEF StripeType, Stripe!DeliverEvent
<1>10. ASSUME NEW action \in {"COMPLETE_CHECKOUT", "CONFIRM_UPGRADE"}, Stripe!ProviderEvent(action) PROVE StripeType'
  <2> DEFINE e == Stripe!TestEvent(action)
  <2>1. e.at \in Nat /\ e.price \in AnyPrice /\ e.mode = action /\ e.type = "updated" /\ chosen \in Selections
    BY <1>0, SelectionFields DEF Stripe!TestEvent, Stripe!NextEventTime
  <2>2. Stripe!Apply(e) /\ processed' = processed \cup {e}
    BY <1>10 DEF Stripe!ProviderEvent
  <2> HIDE DEF e, StripeType
  <2>3. chosen' \in Selections
    BY <2>1, <2>2, AppliedTyped
  <2>4. QED
    BY <1>10, <2>1, <2>2, <2>3 DEF StripeType, Stripe!ProviderEvent
<1>11. CASE UNCHANGED stripeVars
  BY <1>11 DEF stripeVars
<1>12. QED
  BY <1>1, <1>2, <1>3, <1>4, <1>5, <1>6, <1>7, <1>8, <1>9, <1>10, <1>11 DEF Stripe!BillingRuntimeNext, AnyPrice

\* An event that is taken, of Stripe or of the test route, keeps the rest: it activates what
\* the row waits for, or is not later than the event that will.
LEMMA TakenKeeps ==
  ASSUME StripeInv, NEW e, Stripe!Apply(e), e.at \in Nat, e.price \in AnyPrice,
         e.type \in {"completed", "updated"}, processed' = processed \cup {e},
         UNCHANGED <<checkingOut, deployed, stripeSide, stripeEvents, clockAtStripe, soldUnder>>,
         chosen.state # "NONE",
         e.type = "completed" => e \in stripeEvents /\ e.mode = "sandbox"
  PROVE  CheckoutAgrees' /\ RowAgrees' /\ WithinReach'
<1> USE DEF StripeInv, StripeType
<1>0. /\ chosen.last \in Nat /\ chosen.plan \in {"PROFESSIONAL", "TEAM"}
      /\ chosen.pending \in {"TEAM", Stripe!NoMapping} /\ Stripe!NoMapping # "TEAM"
      /\ Stripe!Confirmed = IF chosen.pending = "TEAM" THEN "TEAM" ELSE chosen.plan
      /\ chosen \in Selections
  BY SelectionFields
<1>1. CASE Unmoved(e)
  <2> USE <1>1 DEF Unmoved
  <2>1. CheckoutAgrees' /\ RowAgrees'
    BY DEF CheckoutAgrees, RowAgrees, Stripe!PriceMappings
  <2>2. ~Waits(e)
    BY <1>0 DEF Waits
  <2>3. \A x \in stripeEvents \ processed : Waits(x) => x \in stripeEvents' \ processed' /\ Waits(x)'
    BY <2>2 DEF Waits
  <2>4. WithinReach'
    BY <2>3 DEF WithinReach, Bought, Stripe!PlanUnder, Stripe!Confirmed
  <2>5. QED
    BY <2>1, <2>4
<1>2. CASE Completed(e)
  <2> USE <1>2 DEF Completed
  <2>1. CheckoutAgrees' /\ RowAgrees'
    BY DEF CheckoutAgrees, RowAgrees, Stripe!PriceMappings
  <2>2. \A x \in stripeEvents \ processed : Waits(x) => x \in stripeEvents' \ processed' /\ Waits(x)'
    BY DEF Waits
  <2>3. Stripe!Confirmed' = Stripe!Confirmed
    BY DEF Stripe!Confirmed
  <2>4. WithinReach'
    BY <2>2, <2>3 DEF WithinReach, Bought, Stripe!PlanUnder
  <2>5. QED
    BY <2>1, <2>4
<1>3. CASE Activated(e)
  <2> USE <1>3 DEF Activated
  <2>1. CheckoutAgrees' /\ RowAgrees'
    BY <1>0 DEF CheckoutAgrees, RowAgrees, Stripe!PriceMappings
  <2>2. WithinReach'
    BY DEF WithinReach, Bought, Stripe!PlanUnder
  <2>3. QED
    BY <2>1, <2>2
<1> HIDE DEF StripeInv, StripeType
<1>4. QED
  BY <1>0, <1>1, <1>2, <1>3, AppliedTyped

\* Another mode, an event that is not the sandbox's: what waits goes on waiting.
LEMMA StillWaiting ==
  ASSUME StripeInv, UNCHANGED <<chosen, processed, activated>>,
         soldUnder'["sandbox"] = soldUnder["sandbox"], stripeSide'["sandbox"] = stripeSide["sandbox"],
         stripeEvents \subseteq stripeEvents',
         \A c \in stripeEvents' : c.type = "completed" /\ c.mode = "sandbox" => c \in stripeEvents
  PROVE  WithinReach'
<1>1. \A x \in stripeEvents \ processed : Waits(x) => x \in stripeEvents' \ processed' /\ Waits(x)'
  BY DEF Waits
<1>2. QED
  BY <1>1 DEF StripeInv, WithinReach, Bought, Stripe!PlanUnder, Stripe!Confirmed

LEMMA StripeKept ==
  ASSUME StripeInv, [Stripe!BillingRuntimeNext]_stripeVars
  PROVE  StripeInv'
<1>0. StripeType' /\ StripeType /\ CheckoutAgrees /\ RowAgrees /\ NotAhead /\ WithinReach
  BY StripeTyped DEF StripeInv
<1>s. /\ chosen.last \in Nat /\ clockAtStripe \in Nat /\ chosen.plan \in {"PROFESSIONAL", "TEAM"}
      /\ chosen.pending \in {"TEAM", Stripe!NoMapping} /\ Stripe!NoMapping # "TEAM"
      /\ Stripe!Confirmed = IF chosen.pending = "TEAM" THEN "TEAM" ELSE chosen.plan
      /\ Stripe!Modes = {"sandbox", "live"} /\ chosen \in Selections
  <2>1. chosen \in Selections /\ clockAtStripe \in Nat
    BY <1>0 DEF StripeType
  <2>2. QED
    BY <2>1, SelectionFields DEF Stripe!Modes
<1>1. ASSUME NEW s \in Deployments, Stripe!Deploy(s) PROVE StripeInv'
  <2>1. CheckoutAgrees'
    BY <1>0, <1>1 DEF CheckoutAgrees, Stripe!Deploy
  <2>2. QED
    BY <1>0, <1>1, <2>1, SameRow DEF StripeInv, Stripe!Deploy
<1>2. ASSUME NEW plan \in Stripe!Plans, Stripe!BeginCheckout(plan) PROVE StripeInv'
  <2> USE DEF Stripe!BeginCheckout
  <2>1. CASE chosen.state = "NONE"
    <3>1. /\ chosen'.state = "SELECTED" /\ chosen'.plan = plan /\ chosen'.pending = chosen.pending
          /\ chosen'.last = chosen.last
      BY <1>0, <1>2, <2>1 DEF StripeType, Selections
    <3>2. soldUnder["sandbox"] = {} /\ activated = {} /\ chosen.pending = Stripe!NoMapping
      BY <1>0, <2>1 DEF CheckoutAgrees
    <3>3. CheckoutAgrees'
      BY <1>0, <1>2, <3>1 DEF CheckoutAgrees, Stripe!RequireCheckout, Stripe!PriceMappings
    <3>4. RowAgrees' /\ WithinReach'
      BY <1>s, <1>2, <3>1, <3>2 DEF RowAgrees, WithinReach
    <3>5. NotAhead'
      BY <1>0, <1>2, <3>1 DEF NotAhead, Stripe!AlreadySent
    <3>6. QED
      BY <1>0, <3>3, <3>4, <3>5 DEF StripeInv
  <2>2. CASE chosen.state # "NONE"
    <3>1. CheckoutAgrees'
      BY <1>0, <1>2, <2>2 DEF CheckoutAgrees, Stripe!RequireCheckout, Stripe!PriceMappings
    <3>2. QED
      BY <1>0, <1>2, <2>2, <3>1, SameRow DEF StripeInv
  <2>3. QED
    BY <2>1, <2>2
<1>3. CASE Stripe!CreateSessionAtStripe
  <2> USE DEF Stripe!CreateSessionAtStripe, Stripe!SessionAtStripe
  <2>1. CheckoutAgrees' /\ RowAgrees' /\ NotAhead'
    <3>1. stripeSide'["sandbox"].active => stripeSide'["sandbox"].session # "none"
      BY <1>0, <1>s, <1>3 DEF CheckoutAgrees, StripeType, Sides
    <3>2. QED
      BY <1>0, <1>3, <3>1 DEF CheckoutAgrees, RowAgrees, NotAhead, Stripe!AlreadySent
  <2>2. CASE soldUnder'["sandbox"] = soldUnder["sandbox"] /\ stripeSide'["sandbox"] = stripeSide["sandbox"]
    BY <1>0, <1>3, <2>1, <2>2, StillWaiting DEF StripeInv
  <2>3. CASE /\ deployed.key = "sandbox" /\ stripeSide["sandbox"].session = "none"
             /\ stripeSide' = [stripeSide EXCEPT !["sandbox"].session = "open",
                                  !["sandbox"].price = Stripe!PriceForPlan(chosen.plan)]
             /\ soldUnder' = [soldUnder EXCEPT !["sandbox"] = {deployed}]
    <3>1. /\ ~stripeSide'["sandbox"].active /\ soldUnder'["sandbox"] = {deployed}
          /\ stripeSide'["sandbox"].price = Stripe!PriceForPlan(chosen.plan)
      BY <1>0, <1>s, <2>3 DEF CheckoutAgrees, StripeType, Sides
    <3>2. deployed.professional # deployed.team => Stripe!PlanUnder(deployed, Stripe!PriceForPlan(chosen.plan)) = chosen.plan
      BY <1>s DEF Stripe!PlanUnder, Stripe!PriceForPlan
    <3>3. chosen.plan = Stripe!Confirmed \/ chosen.plan \in activated
      BY <1>0, <1>s DEF RowAgrees
    <3>4. Stripe!Confirmed' = Stripe!Confirmed /\ activated' = activated
      BY <1>3 DEF Stripe!Confirmed
    <3>5. \A s : Bought(s)' = Stripe!PlanUnder(s, Stripe!PriceForPlan(chosen.plan))
      BY <3>1 DEF Bought, Stripe!PlanUnder
    <3>6. WithinReach'
      BY <3>1, <3>2, <3>3, <3>4, <3>5 DEF WithinReach
    <3>7. QED
      BY <1>0, <2>1, <3>6 DEF StripeInv
  <2>4. QED
    BY <1>0, <1>s, <1>3, <2>2, <2>3 DEF StripeType
<1>4. CASE Stripe!CreateTestSession
  <2>1. CheckoutAgrees'
    BY <1>0, <1>4 DEF CheckoutAgrees, Stripe!CreateTestSession
  <2>2. QED
    BY <1>0, <1>4, <2>1, SameRow DEF StripeInv, Stripe!CreateTestSession
<1>5. CASE Stripe!MarkCheckoutCreated
  <2> USE DEF Stripe!MarkCheckoutCreated
  <2>1. /\ chosen'.plan = chosen.plan /\ chosen'.pending = chosen.pending /\ chosen'.last = chosen.last
        /\ chosen'.state = chosen.state \/ chosen'.state = "CHECKOUT_CREATED"
    BY <1>0, <1>5 DEF StripeType, Selections
  <2>2. chosen.state # "NONE" /\ Stripe!Confirmed' = Stripe!Confirmed
    BY <1>0, <1>5, <2>1 DEF CheckoutAgrees, Stripe!Confirmed
  <2>3. CheckoutAgrees' /\ RowAgrees' /\ NotAhead'
    BY <1>0, <1>5, <2>1, <2>2 DEF CheckoutAgrees, RowAgrees, NotAhead, Stripe!AlreadySent
  <2>4. \A x : Waits(x) => Waits(x)'
    BY <1>5, <2>1 DEF Waits
  <2>5. WithinReach'
    BY <1>0, <1>5, <2>2, <2>4 DEF WithinReach, Bought, Stripe!PlanUnder
  <2>6. QED
    BY <1>0, <2>3, <2>5 DEF StripeInv
<1>6. CASE Stripe!RequestUpgrade
  <2> USE DEF Stripe!RequestUpgrade
  <2>1. /\ chosen'.plan = chosen.plan /\ chosen'.pending = "TEAM" /\ chosen'.last = chosen.last
        /\ chosen'.state = "UPGRADE_PENDING"
    BY <1>0, <1>6 DEF StripeType, Selections
  <2>2. chosen.plan \in activated /\ "TEAM" \notin activated /\ chosen.plan = "PROFESSIONAL"
    BY <1>0, <1>s, <1>6 DEF RowAgrees
  <2>3. Stripe!Confirmed' = "TEAM" /\ clockAtStripe' \in Nat /\ clockAtStripe <= clockAtStripe'
    BY <1>0, <1>s, <1>6, <2>1 DEF Stripe!Confirmed, StripeType
  <2>4. CheckoutAgrees' /\ RowAgrees'
    <3>1. stripeSide'["sandbox"].active => stripeSide'["sandbox"].session # "none"
      BY <1>0, <1>s, <1>6 DEF CheckoutAgrees, StripeType, Sides
    <3>2. QED
      BY <1>0, <1>s, <1>6, <2>1, <2>2, <3>1 DEF CheckoutAgrees, RowAgrees, Stripe!PriceMappings
  <2>5. NotAhead'
    BY <1>0, <1>s, <1>6, <2>1, <2>3 DEF NotAhead, Stripe!AlreadySent
  <2>6. \A s : Bought(s) \in activated \/ Bought(s) = Stripe!Confirmed =>
              Bought(s) \in activated \/ (Bought(s) = "TEAM" /\ Stripe!Confirmed = "TEAM")
    BY <1>s, <2>2
  <2>7. CASE UNCHANGED <<stripeSide, stripeEvents, clockAtStripe, soldUnder>>
    <3>1. \A x : Waits(x) => Waits(x)'
      BY <2>1, <2>7 DEF Waits
    <3>2. \A s : Bought(s)' = Bought(s)
      BY <2>7 DEF Bought, Stripe!PlanUnder
    <3>3. WithinReach'
      BY <1>0, <1>6, <2>3, <2>6, <2>7, <3>1, <3>2 DEF WithinReach
    <3>4. QED
      BY <1>0, <2>4, <2>5, <3>3 DEF StripeInv
  <2>8. ASSUME deployed.key = "sandbox",
               stripeSide' = [stripeSide EXCEPT !["sandbox"].price = deployed.team],
               soldUnder' = [soldUnder EXCEPT !["sandbox"] = {deployed}],
               clockAtStripe' = clockAtStripe + 1,
               stripeEvents' = stripeEvents \cup {[type |-> "updated", mode |-> "sandbox",
                                  price |-> deployed.team, at |-> clockAtStripe + 1]}
        PROVE  WithinReach'
    <3>0. PICK new : new = [type |-> "updated", mode |-> "sandbox", price |-> deployed.team, at |-> clockAtStripe + 1]
      OBVIOUS
    <3>1. soldUnder'["sandbox"] = {deployed} /\ stripeSide'["sandbox"].price = deployed.team
      BY <1>0, <1>s, <2>8 DEF StripeType, Sides
    <3>2. new \notin processed
      BY <1>0, <1>s, <3>0 DEF StripeType
    <3>3. chosen.last <= clockAtStripe + 1
      BY <1>0, <1>s, <2>2 DEF NotAhead
    <3>4. \A c \in stripeEvents' : c.type = "completed" => c.at <= clockAtStripe + 1
      BY <1>0, <1>s, <2>8 DEF StripeType
    <3>5. Waits(new)'
      BY <2>1, <3>0, <3>1, <3>3, <3>4 DEF Waits
    <3>6. \A s \in soldUnder'["sandbox"] : s.professional # s.team => Bought(s)' = "TEAM"
      BY <3>1 DEF Bought, Stripe!PlanUnder
    <3>7. new \in stripeEvents' \ processed'
      BY <1>6, <2>8, <3>0, <3>2
    <3>8. QED
      BY <2>3, <3>5, <3>6, <3>7 DEF WithinReach
  <2>9. ASSUME deployed.key = "live",
               stripeSide' = [stripeSide EXCEPT !["live"].price = deployed.team],
               soldUnder' = [soldUnder EXCEPT !["live"] = {deployed}],
               stripeEvents' = stripeEvents \cup {[type |-> "updated", mode |-> "live",
                                  price |-> deployed.team, at |-> clockAtStripe + 1]}
        PROVE  WithinReach'
    <3>1. soldUnder'["sandbox"] = soldUnder["sandbox"] /\ stripeSide'["sandbox"] = stripeSide["sandbox"]
      BY <1>0, <1>s, <2>9 DEF StripeType
    <3>2. \A x : Waits(x) => Waits(x)'
      BY <2>1, <2>9, <3>1 DEF Waits
    <3>3. \A s : Bought(s)' = Bought(s)
      BY <3>1 DEF Bought, Stripe!PlanUnder
    <3>4. stripeEvents \ processed \subseteq stripeEvents' \ processed'
      BY <1>6, <2>9
    <3>5. QED
      BY <1>0, <1>6, <2>3, <2>6, <3>1, <3>2, <3>3, <3>4 DEF WithinReach
  <2>10. QED
    <3>1. ASSUME ~UNCHANGED <<stripeSide, stripeEvents, clockAtStripe, soldUnder>>
          PROVE  deployed.key \in {"sandbox", "live"}
      BY <1>0, <1>s, <1>6, <3>1, DeploymentsAssumption
      DEF StripeType, Stripe!RequireLifecycle, Stripe!RequireCheckout, Stripe!SandboxSecret
    <3>2. QED
      BY <1>0, <1>6, <2>4, <2>5, <2>7, <2>8, <2>9, <3>1 DEF StripeInv
<1>7. ASSUME NEW mode \in Stripe!Modes, Stripe!Pays(mode) PROVE StripeInv'
  <2> USE DEF Stripe!Pays
  <2>1. \A e \in stripeEvents' : e \in stripeEvents \/ (e.at = clockAtStripe + 1 /\ e.mode = mode)
    BY <1>7
  <2>2. CheckoutAgrees' /\ RowAgrees' /\ NotAhead'
    <3>1. stripeSide'["sandbox"].active => stripeSide'["sandbox"].session # "none"
      BY <1>0, <1>s, <1>7 DEF CheckoutAgrees, StripeType, Sides
    <3>2. clockAtStripe' = clockAtStripe + 1
      BY <1>7
    <3>3. NotAhead'
      BY <1>s, <1>0, <1>7, <3>2 DEF NotAhead, Stripe!AlreadySent
    <3>4. QED
      BY <1>0, <1>7, <3>1, <3>3 DEF CheckoutAgrees, RowAgrees, Stripe!PriceMappings
  <2>3. CASE mode = "live"
    <3>1. stripeSide'["sandbox"] = stripeSide["sandbox"]
      BY <1>0, <1>s, <1>7, <2>3 DEF StripeType
    <3>2. WithinReach'
      BY <1>7, <2>1, <2>3, <3>1, StillWaiting
    <3>3. QED
      BY <1>0, <2>2, <3>2 DEF StripeInv
  <2>4. CASE mode = "sandbox"
    <3>0. PICK new : new = [type |-> "updated", mode |-> "sandbox", price |-> stripeSide["sandbox"].price,
                            at |-> clockAtStripe + 1]
      OBVIOUS
    <3>1. stripeSide'["sandbox"].price = stripeSide["sandbox"].price
      BY <1>0, <1>s, <1>7, <2>4 DEF StripeType, Sides
    <3>2. new \in stripeEvents' /\ UNCHANGED <<chosen, processed, activated, soldUnder>>
      BY <1>7, <2>4, <3>0
    <3>3. new \notin processed
      BY <1>0, <1>s, <3>0 DEF StripeType
    <3>4. "TEAM" \notin activated => chosen.last <= clockAtStripe + 1
      BY <1>0, <1>s DEF NotAhead
    <3>5. \A c \in stripeEvents' : c.at <= clockAtStripe + 1
      BY <1>0, <1>s, <2>1 DEF StripeType
    <3>6. "TEAM" \notin activated => Waits(new)'
      BY <3>0, <3>1, <3>2, <3>4, <3>5 DEF Waits
    <3>7. \A s : Bought(s)' = Bought(s)
      BY <3>1 DEF Bought, Stripe!PlanUnder
    <3>8. "TEAM" \in activated => Stripe!Confirmed = "TEAM"
      BY <1>0, <1>s DEF RowAgrees
    <3>9. Stripe!Confirmed' = Stripe!Confirmed
      BY <3>2 DEF Stripe!Confirmed
    <3>10. WithinReach'
      BY <1>0, <3>2, <3>3, <3>6, <3>7, <3>8, <3>9 DEF WithinReach
    <3>11. QED
      BY <1>0, <2>2, <3>10 DEF StripeInv
  <2>5. QED
    BY <1>s, <2>3, <2>4
<1>8. ASSUME NEW mode \in Stripe!Modes, NEW price \in AnyPrice, Stripe!MovedAtStripe(mode, price) PROVE StripeInv'
  <2> USE DEF Stripe!MovedAtStripe
  <2>1. CheckoutAgrees' /\ RowAgrees' /\ NotAhead'
    <3>1. stripeSide'["sandbox"].active => stripeSide'["sandbox"].session # "none"
      BY <1>0, <1>s, <1>8 DEF CheckoutAgrees, StripeType, Sides
    <3>2. soldUnder["sandbox"] = {} => soldUnder'["sandbox"] = {}
      BY <1>0, <1>s, <1>8 DEF StripeType
    <3>3. NotAhead'
      BY <1>s, <1>0, <1>8 DEF NotAhead, Stripe!AlreadySent
    <3>4. QED
      BY <1>0, <1>8, <3>1, <3>2, <3>3 DEF CheckoutAgrees, RowAgrees, Stripe!PriceMappings
  <2>2. CASE mode = "sandbox"
    <3>1. soldUnder'["sandbox"] = {}
      BY <1>0, <1>s, <1>8, <2>2 DEF StripeType
    <3>2. QED
      BY <1>0, <2>1, <3>1 DEF StripeInv, WithinReach
  <2>3. CASE mode = "live"
    <3>1. stripeSide'["sandbox"] = stripeSide["sandbox"] /\ soldUnder'["sandbox"] = soldUnder["sandbox"]
      BY <1>0, <1>s, <1>8, <2>3 DEF StripeType
    <3>2. WithinReach'
      BY <1>8, <2>3, <3>1, StillWaiting
    <3>3. QED
      BY <1>0, <2>1, <3>2 DEF StripeInv
  <2>4. QED
    BY <1>s, <2>2, <2>3
<1>9. ASSUME NEW e \in stripeEvents, Stripe!DeliverEvent(e) PROVE StripeInv'
  <2> USE DEF Stripe!DeliverEvent
  <2>1. e.at \in Nat /\ e.at <= clockAtStripe /\ e.price \in AnyPrice /\ e.type \in {"completed", "updated"} /\ e.mode = "sandbox"
    BY <1>0, <1>s, <1>9 DEF StripeType, Stripe!ModeTaken
  <2>2. CheckoutAgrees' /\ RowAgrees' /\ WithinReach'
    BY <1>9, <2>1, TakenKeeps
  <2>3. chosen'.last = chosen.last \/ chosen'.last = e.at
    BY <1>s, <1>9, <2>1, AppliedTyped DEF Unmoved, Completed, Activated
  <2>4. activated \subseteq activated'
    BY <1>9 DEF Stripe!Apply
  <2>5. NotAhead'
    BY <1>0, <1>s, <1>9, <2>1, <2>3, <2>4 DEF NotAhead, Stripe!AlreadySent
  <2>6. QED
    BY <1>0, <2>2, <2>5 DEF StripeInv
<1>10. ASSUME NEW action \in {"COMPLETE_CHECKOUT", "CONFIRM_UPGRADE"}, Stripe!ProviderEvent(action) PROVE StripeInv'
  <2> DEFINE e == Stripe!TestEvent(action)
  <2>1. e.at = chosen.last + 1 /\ e.at \in Nat /\ e.price \in AnyPrice /\ e.mode = action /\ e.type = "updated"
    <3>1. \A plan : Stripe!PriceForPlan(plan) \in AnyPrice
      BY <1>0, DeploymentsAssumption DEF Stripe!PriceForPlan, AnyPrice, StripeType
    <3>2. QED
      BY <1>s, <3>1 DEF Stripe!TestEvent, Stripe!NextEventTime
  <2>2. /\ Stripe!Apply(e) /\ processed' = processed \cup {e} /\ Stripe!Pending(action) /\ ~Stripe!AlreadySent(action)
        /\ UNCHANGED <<deployed, checkingOut, stripeSide, stripeEvents, clockAtStripe, soldUnder>>
    BY <1>10 DEF Stripe!ProviderEvent
  <2> HIDE DEF e
  <2>3. chosen.state # "NONE" /\ (action = "CONFIRM_UPGRADE" => chosen.state = "UPGRADE_PENDING")
    BY <2>2 DEF Stripe!Pending
  <2>4. CheckoutAgrees' /\ RowAgrees' /\ WithinReach'
    BY <2>1, <2>2, <2>3, TakenKeeps
  <2>5. activated' = activated \cup {Stripe!Confirmed} /\ chosen'.last = chosen.last + 1
    BY <1>s, <2>1, <2>2, AppliedTyped DEF Unmoved, Completed, Activated
  <2>6. CASE action = "COMPLETE_CHECKOUT"
    <3>1. Stripe!AlreadySent("COMPLETE_CHECKOUT")'
      BY <2>1, <2>2, <2>6 DEF Stripe!AlreadySent
    <3>2. chosen.last <= clockAtStripe \/ "TEAM" \in activated
      BY <1>0, <2>2, <2>6 DEF NotAhead
    <3>3. QED
      BY <1>0, <1>s, <2>2, <2>4, <2>5, <3>1, <3>2 DEF StripeInv, NotAhead
  <2>7. CASE action = "CONFIRM_UPGRADE"
    <3>1. Stripe!Confirmed = "TEAM"
      BY <1>0, <1>s, <2>3, <2>7 DEF RowAgrees
    <3>2. QED
      BY <1>0, <2>4, <2>5, <3>1 DEF StripeInv, NotAhead
  <2>8. QED
    BY <2>6, <2>7
<1>11. CASE UNCHANGED stripeVars
  <2>1. CheckoutAgrees'
    BY <1>0, <1>11 DEF CheckoutAgrees, stripeVars, Stripe!PriceMappings
  <2>2. QED
    BY <1>0, <1>11, <2>1, SameRow DEF StripeInv, stripeVars
<1>12. QED
  BY <1>1, <1>2, <1>3, <1>4, <1>5, <1>6, <1>7, <1>8, <1>9, <1>10, <1>11 DEF Stripe!BillingRuntimeNext, AnyPrice

\* What a customer has paid for was activated, or an event that activates it is still to be
\* taken, whatever settings were deployed meanwhile and in whatever order its events come:
\* the webhook keeps this for all prices, deployments and any number of events.
THEOREM PaidPlanStays == PlatformSpec => []PaidPlanStaysWithinReach
<1>1. PlatformInit => StripeInv
  BY StripeInitially DEF PlatformInit
<1>2. StripeInv /\ [PlatformNext]_platformVars => StripeInv'
  BY ComponentSteps, StripeKept
<1>3. ASSUME StripeInv PROVE Stripe!PaidPlanStaysWithinReach
  <2>1. \A e \in stripeEvents : Waits(e) =>
          /\ e.type = "updated" /\ e.mode = "sandbox" /\ e.price = stripeSide["sandbox"].price
          /\ ~Stripe!Stale(e)
    BY <1>3, SelectionFields DEF Waits, Stripe!Stale, StripeInv, StripeType
  <2>2. QED
    BY <1>3, <2>1 DEF StripeInv, WithinReach, Bought, Stripe!PaidPlanStaysWithinReach
<1>4. QED
  BY <1>1, <1>2, <1>3, PTL DEF PlatformSpec, PaidPlanStaysWithinReach

--------------------------------------------------------------------------------
(* The controlled study *)

\* A session is scored once, with the answer its participant was told is stored.
StudyInv ==
  /\ opened \subseteq Study!Sessions
  /\ DOMAIN response = Study!Sessions /\ DOMAIN eventKeys = Study!Sessions
  /\ \A s \in Study!Sessions : response[s] # Study!NoAnswer =>
       /\ s \in opened /\ Study!ClosingKeys \subseteq eventKeys[s]
       /\ [session |-> s, answer |-> response[s]] \in accepted
  /\ \A a \in accepted :
       /\ a.session \in Study!Sessions /\ a = [session |-> a.session, answer |-> response[a.session]]
       /\ response[a.session] # Study!NoAnswer

LEMMA StudyInitially == Study!StudyInit => StudyInv
BY DEF Study!StudyInit, StudyInv

LEMMA StudyKept ==
  ASSUME StudyInv, [Study!StudyNext]_studyVars
  PROVE  StudyInv'
<1>1. ASSUME NEW s \in Study!Sessions, Study!StartValidationSession(s) PROVE StudyInv'
  BY <1>1 DEF StudyInv, Study!StartValidationSession
<1>2. ASSUME NEW s \in Study!Sessions, NEW key, Study!AppendReadsSession(s, key) PROVE StudyInv'
  BY <1>2 DEF StudyInv, Study!AppendReadsSession
<1>3. ASSUME NEW a, Study!AppendValidationEvent(a) PROVE StudyInv'
  BY <1>3 DEF StudyInv, Study!AppendValidationEvent
<1>4. ASSUME NEW s \in Study!Sessions, NEW said, said # Study!NoAnswer, Study!CompleteValidationSession(s, said)
      PROVE  StudyInv'
  <2>1. CASE Study!Accepts(s, said) /\ accepted' = accepted \cup {[session |-> s, answer |-> said]}
              /\ UNCHANGED <<opened, response, eventKeys>>
    BY <1>4, <2>1 DEF StudyInv, Study!Accepts
  <2>2. CASE Study!State(s) = "STARTED" /\ response' = [response EXCEPT ![s] = said]
              /\ eventKeys' = [eventKeys EXCEPT ![s] = @ \cup Study!ClosingKeys]
              /\ accepted' = accepted \cup {[session |-> s, answer |-> said]} /\ UNCHANGED opened
    <3>1. s \in opened /\ response[s] = Study!NoAnswer
      BY <2>2 DEF Study!State
    <3>2. \A a \in accepted : a.session # s
      BY <3>1 DEF StudyInv
    <3>3. \A o \in Study!Sessions : response'[o] = IF o = s THEN said ELSE response[o]
      BY <2>2 DEF StudyInv
    <3>4. \A o \in Study!Sessions : eventKeys'[o] = IF o = s THEN eventKeys[s] \cup Study!ClosingKeys ELSE eventKeys[o]
      BY <2>2 DEF StudyInv
    <3>5. DOMAIN response' = Study!Sessions /\ DOMAIN eventKeys' = Study!Sessions
      BY <2>2 DEF StudyInv
    <3>6. QED
      BY <1>4, <2>2, <3>1, <3>2, <3>3, <3>4, <3>5 DEF StudyInv
  <2>3. QED
    BY <1>4, <2>1, <2>2 DEF Study!CompleteValidationSession
<1>5. CASE UNCHANGED studyVars
  BY <1>5 DEF StudyInv, studyVars
<1>6. \A said \in {Study!Perfect, [Study!Perfect EXCEPT !.evidence = FALSE], [Study!Perfect EXCEPT !.layer = "CRITICAL"]} :
        said # Study!NoAnswer
  <2>1. /\ Study!Perfect.layer = "RIGHT" /\ [Study!Perfect EXCEPT !.evidence = FALSE].layer = "RIGHT"
        /\ [Study!Perfect EXCEPT !.layer = "CRITICAL"].layer = "CRITICAL" /\ Study!NoAnswer.layer = "NONE"
    BY DEF Study!Perfect, Study!NoAnswer
  <2>2. QED
    BY <2>1
<1>7. QED
  BY <1>1, <1>2, <1>3, <1>4, <1>5, <1>6 DEF Study!StudyNext

\* A function that takes every value once and reaches them all keeps the size.
LEMMA Matched ==
  ASSUME NEW S, IsFiniteSet(S), NEW T, NEW f \in [S -> T],
         \A x, y \in S : f[x] = f[y] => x = y, \A t \in T : \E x \in S : f[x] = t
  PROVE  IsFiniteSet(T) /\ Cardinality(T) = Cardinality(S)
<1>1. f \in Surjection(S, T) /\ f \in Injection(S, T)
  BY DEF Surjection, Injection, IsInjective
<1>2. QED
  BY <1>1, FS_Surjection

\* Who passes the analysis: the rows under a condition are the sessions assigned to it, and
\* those that completed the task have an accepted answer each.
LEMMA PassIsEarned ==
  ASSUME StudyInv, Study!Evaluate(Study!ExportValidationStudy, 0) = "PASS_CANDIDATE"
  PROVE  LET treated == {s \in opened : Assigned[s] = "AXIGNAL"}
         IN  5 * Cardinality({a \in accepted : a.session \in treated /\ a.answer = Study!Perfect}) >= 4 * Cardinality(treated)
<1> DEFINE row(s) == [participant |-> s[1], task |-> s[2], condition |-> Assigned[s], technical |-> FALSE,
                      answer |-> response[s]]
           treated == {s \in opened : Assigned[s] = "AXIGNAL"}
           done == {s \in treated : response[s] = Study!Perfect}
           rows == Study!EligibleSessions(Study!ExportValidationStudy)
           ax == {r \in rows : r.condition = "AXIGNAL"}
           won == {r \in ax : r.answer = Study!Perfect}
           told == {a \in accepted : a.session \in treated /\ a.answer = Study!Perfect}
<1>1. rows = {row(s) : s \in opened}
  BY DEF Study!EligibleSessions, Study!ExportValidationStudy
<1>2. \A s, o \in opened : row(s) = row(o) => s = o
  <2>1. TAKE s, o \in opened
  <2>2. HAVE row(s) = row(o)
  <2>3. s[1] = o[1] /\ s[2] = o[2]
    BY <2>2
  <2>4. QED
    BY <2>3 DEF StudyInv, Study!Sessions
<1>3. \A s \in opened : /\ row(s).condition = Assigned[s] /\ row(s).answer = response[s]
  OBVIOUS
<1> HIDE DEF row, rows
<1>4. /\ \A r \in ax : \E s \in treated : row(s) = r
      /\ \A s \in treated : row(s) \in ax
  BY <1>1, <1>3
<1>5. /\ \A r \in won : \E s \in done : row(s) = r
      /\ \A s \in done : row(s) \in won
  BY <1>3, <1>4
<1>6. IsFiniteSet(opened)
  BY CohortAssumption, FS_Product, FS_Subset DEF StudyInv, Study!Sessions
<1>7. IsFiniteSet(treated) /\ IsFiniteSet(done)
  BY <1>6, FS_Subset
<1>8. IsFiniteSet(ax) /\ Cardinality(ax) = Cardinality(treated)
  <2> DEFINE f == [s \in treated |-> row(s)]
  <2>1. f \in [treated -> ax] /\ (\A x, y \in treated : f[x] = f[y] => x = y) /\ \A r \in ax : \E s \in treated : f[s] = r
    BY <1>2, <1>4
  <2> HIDE DEF f, ax, treated
  <2>2. QED
    BY <1>7, <2>1, Matched
<1>9. IsFiniteSet(won) /\ Cardinality(won) = Cardinality(done)
  <2> DEFINE f == [s \in done |-> row(s)]
  <2>1. f \in [done -> won] /\ (\A x, y \in done : f[x] = f[y] => x = y) /\ \A r \in won : \E s \in done : f[s] = r
    BY <1>2, <1>5
  <2> HIDE DEF f, won, done
  <2>2. QED
    BY <1>7, <2>1, Matched
<1>10. Cardinality(told) = Cardinality(done)
  <2> DEFINE f == [s \in done |-> [session |-> s, answer |-> Study!Perfect]]
  <2>1. Study!Perfect # Study!NoAnswer
    <3>1. Study!Perfect.layer = "RIGHT" /\ Study!NoAnswer.layer = "NONE"
      BY DEF Study!Perfect, Study!NoAnswer
    <3>2. QED
      BY <3>1
  <2>2. f \in [done -> told]
    BY <2>1 DEF StudyInv
  <2>3. \A x, y \in done : f[x] = f[y] => x = y
    OBVIOUS
  <2>4. \A a \in told : a.session \in done /\ f[a.session] = a
    BY DEF StudyInv
  <2>5. \A a \in told : \E s \in done : f[s] = a
    BY <2>4
  <2> HIDE DEF f, told, done
  <2>6. QED
    BY <1>7, <2>2, <2>3, <2>5, Matched
<1>11. 100 * Cardinality(won) >= 80 * Cardinality(ax)
  <2>1. Study!RateAtLeast(ax, "task_completed", 80)
    BY DEF Study!Evaluate, Study!Absolute, rows, Study!Conditions
  <2>2. \A S : Study!Cardinality(S) = Cardinality(S)
    BY Zenon DEF Study!Cardinality, Cardinality
  <2>3. Study!Successes(ax, "task_completed") = Cardinality(won)
    BY <2>2 DEF Study!Successes, Study!Outcome
  <2>4. QED
    BY <2>1, <2>2, <2>3 DEF Study!RateAtLeast
<1>12. Cardinality(done) \in Nat /\ Cardinality(treated) \in Nat
  BY <1>7, FS_CardinalityType
<1>13. 5 * Cardinality(told) >= 4 * Cardinality(treated)
  BY <1>8, <1>9, <1>10, <1>11, <1>12
<1>14. QED
  BY <1>13

\* The study counts what its participants were told: a pass needs four in five of the sessions
\* started under AXIGNAL completed by an accepted answer, for every cohort, assignment and
\* minimum of the manifest.
THEOREM StudyStaysHonest == PlatformSpec => []StudyIsHonest
<1>1. PlatformInit => StudyInv
  BY StudyInitially DEF PlatformInit
<1>2. StudyInv /\ [PlatformNext]_platformVars => StudyInv'
  BY ComponentSteps, StudyKept
<1>3. StudyInv => StudyIsHonest
  <2> SUFFICES ASSUME StudyInv PROVE Study!StudyIsHonest
    BY DEF StudyIsHonest
  <2>1. \A a \in accepted : response[a.session] = a.answer
    BY DEF StudyInv
  <2>2. \A s \in opened : response[s] # Study!NoAnswer => Study!ClosingKeys \subseteq eventKeys[s]
    BY DEF StudyInv
  <2>3. \A S : Study!Cardinality(S) = Cardinality(S)
    BY Zenon DEF Study!Cardinality, Cardinality
  <2>4. QED
    BY <2>1, <2>2, <2>3, PassIsEarned DEF Study!StudyIsHonest
<1>4. QED
  BY <1>1, <1>2, <1>3, PTL DEF PlatformSpec

--------------------------------------------------------------------------------
(* The remote pilot's host *)

\* The writes a command has still to make, by its name and the one it is at.
Todo(name, step) ==
  CASE name = "CREATE" ->
         (CASE step = "ENVIRONMENT" -> Pilot!CreateOrder
            [] step = "PASSWORD" -> <<"PASSWORD", "METADATA">>
            [] OTHER -> <<"METADATA">>)
    [] name = "ROTATE" ->
         (CASE step = "PASSWORD" -> Pilot!RotateOrder
            [] step = "READ" -> <<"READ", "ENVIRONMENT", "UNLINK", "METADATA", "SOURCE", "RECREATE", "VERIFY">>
            [] step = "ENVIRONMENT" -> <<"ENVIRONMENT", "UNLINK", "METADATA", "SOURCE", "RECREATE", "VERIFY">>
            [] step = "UNLINK" -> <<"UNLINK", "METADATA", "SOURCE", "RECREATE", "VERIFY">>
            [] step = "METADATA" -> <<"METADATA", "SOURCE", "RECREATE", "VERIFY">>
            [] step = "SOURCE" -> <<"SOURCE", "RECREATE", "VERIFY">>
            [] step = "RECREATE" -> <<"RECREATE", "VERIFY">>
            [] OTHER -> <<"VERIFY">>)
    [] OTHER -> IF step = "UNLINK" THEN Pilot!RetireOrder ELSE <<"METADATA">>

After(name, step) ==
  CASE name = "CREATE" -> (CASE step = "ENVIRONMENT" -> "PASSWORD" [] OTHER -> "METADATA")
    [] name = "ROTATE" ->
         (CASE step = "PASSWORD" -> "READ" [] step = "READ" -> "ENVIRONMENT" [] step = "ENVIRONMENT" -> "UNLINK"
            [] step = "UNLINK" -> "METADATA" [] step = "METADATA" -> "SOURCE" [] step = "SOURCE" -> "RECREATE"
            [] OTHER -> "VERIFY")
    [] OTHER -> "METADATA"

StepsOf(name) ==
  CASE name = "CREATE" -> {"ENVIRONMENT", "PASSWORD", "METADATA"}
    [] name = "ROTATE" -> {"PASSWORD", "READ", "ENVIRONMENT", "UNLINK", "METADATA", "SOURCE", "RECREATE", "VERIFY"}
    [] OTHER -> {"UNLINK", "METADATA"}

LastOf(name, step) == IF name = "ROTATE" THEN step = "VERIFY" ELSE step = "METADATA"

LEMMA TodoGoesOn ==
  ASSUME NEW name \in {"CREATE", "ROTATE", "RETIRE"}, NEW step \in StepsOf(name)
  PROVE  /\ Len(Todo(name, step)) = 1 <=> LastOf(name, step)
         /\ ~LastOf(name, step) => /\ Tail(Todo(name, step)) = Todo(name, After(name, step))
                                   /\ Head(Tail(Todo(name, step))) = After(name, step)
                                   /\ After(name, step) \in StepsOf(name)
<1>1. CASE name = "CREATE"
  BY <1>1 DEF Todo, After, StepsOf, LastOf, Pilot!CreateOrder
<1>2. CASE name = "RETIRE"
  BY <1>2 DEF Todo, After, StepsOf, LastOf, Pilot!RetireOrder
<1>3. CASE name = "ROTATE"
  BY <1>3 DEF Todo, After, StepsOf, LastOf, Pilot!RotateOrder
<1>4. QED
  BY <1>1, <1>2, <1>3

CommandShaped ==
  \/ command = Pilot!NoCommand
  \/ /\ command.name \in {"CREATE", "ROTATE", "RETIRE"} /\ command.step \in StepsOf(command.name)
     /\ command.old \in Files /\ command.new \in Files
     /\ command = [step |-> command.step, name |-> command.name, todo |-> Todo(command.name, command.step),
                   old |-> command.old, new |-> command.new, password |-> command.password, sha |-> command.sha]

At(name, steps) == command # Pilot!NoCommand /\ command.name = name /\ command.step \in steps

DeploySteps ==
  {"READ_SHA", "READ_BACK", "WRITE_SHA", "WRITE_BACK", "SOURCE", "SOURCE_BACK", "CANDIDATE", "UP", "UP_BACK", "LINK", "RECORD"}

DeploymentShaped ==
  \/ deployment = Pilot!NoCommand
  \/ /\ deployment.step \in DeploySteps
     /\ deployment = [step |-> deployment.step, target |-> deployment.target, previous |-> deployment.previous,
                      password |-> deployment.password, sha |-> deployment.sha]

\* The password the environment accepts is in a file or was handed over.
PasswordKept == environment.password \in given \cup {passwordIn[f] : f \in Files}

\* Nothing was created yet, or its creation was stopped before a file held the password.
Unhanded == metadata = "NONE" /\ \A f \in Files : passwordIn[f] = Pilot!Nothing

\* By the write a credential command is at: what it has put where.
CredentialsAgree ==
  /\ PasswordKept \/ Unhanded
  /\ environment.password = Pilot!Nothing =>
       /\ Unhanded /\ deployment = Pilot!NoCommand /\ lastDeploy = "NONE" /\ deployState.current = Pilot!Nothing
       /\ command # Pilot!NoCommand => At("CREATE", {"ENVIRONMENT"})
  /\ At("CREATE", {"ENVIRONMENT"}) => environment.password = Pilot!Nothing /\ command.password # Pilot!Nothing
  /\ At("CREATE", {"PASSWORD", "METADATA"}) => environment.password = command.password
  /\ At("CREATE", {"METADATA"}) => passwordIn[command.new] = environment.password
  /\ At("ROTATE", StepsOf("ROTATE")) => command.old # command.new /\ command.password # Pilot!Nothing
  /\ At("ROTATE", {"PASSWORD"}) => passwordIn[command.new] = Pilot!Nothing /\ passwordIn[command.old] # Pilot!Nothing
  /\ At("ROTATE", StepsOf("ROTATE") \ {"PASSWORD"}) => passwordIn[command.new] = command.password
  /\ At("ROTATE", {"ENVIRONMENT"}) => command.sha = environment.sha
  /\ At("ROTATE", {"UNLINK", "METADATA", "SOURCE", "RECREATE", "VERIFY"}) => environment.password = command.password
  /\ At("RETIRE", {"UNLINK", "METADATA"}) => metadata # "NONE"

\* By the step a deployment is at: which places name its release already.
DeploymentAgrees ==
  /\ deployment # Pilot!NoCommand => lastDeploy = "UNDER_WAY"
  /\ deployment.step \in {"WRITE_SHA", "WRITE_BACK"} => deployment.password = environment.password
  /\ deployment.step \in {"SOURCE", "CANDIDATE", "UP", "LINK", "RECORD"} => environment.sha = deployment.target
  /\ deployment.step \in {"CANDIDATE", "UP"} => deployment.sha = deployment.target
  /\ deployment.step \in {"LINK", "RECORD"} => running.sha = deployment.target \/ running.late
  /\ deployment.step = "RECORD" => currentLink = deployment.target
  /\ deployment = Pilot!NoCommand /\ lastDeploy = "DONE" =>
       /\ environment.sha = deployState.current /\ currentLink = deployState.current
       /\ running.sha = deployState.current \/ running.late

PilotInv ==
  /\ issued \in Nat /\ DOMAIN passwordIn = Files
  /\ CommandShaped /\ DeploymentShaped
  /\ ~torn => CredentialsAgree /\ DeploymentAgrees

LEMMA PilotInitially == Pilot!PilotInit => PilotInv
BY DEF Pilot!PilotInit, PilotInv, CommandShaped, DeploymentShaped, CredentialsAgree, DeploymentAgrees, Unhanded, At,
   Pilot!NoCommand

\* The beginning of a command, of each kind.
LEMMA CommandsBegin ==
  ASSUME PilotInv, NEW file \in Files, NEW other \in Files, NEW sha,
         Pilot!BeginCreate(file, sha) \/ Pilot!BeginRotate(file, other) \/ Pilot!BeginRetire(file)
  PROVE  PilotInv'
<1>1. CASE Pilot!BeginCreate(file, sha)
  <2> DEFINE number == issued + 1
  <2>0. number \in Nat /\ number # Pilot!Nothing
    BY DEF PilotInv, Pilot!Nothing
  <2>1. /\ command' = [step |-> "ENVIRONMENT", name |-> "CREATE", todo |-> Todo("CREATE", "ENVIRONMENT"), old |-> file, new |-> file,
                       password |-> number, sha |-> sha]
        /\ issued' = number /\ environment.password = Pilot!Nothing
        /\ UNCHANGED <<environment, passwordIn, metadata, deployment, deployState, currentLink, running,
                       lastDeploy, given, torn>>
    BY <1>1 DEF Pilot!BeginCreate, Pilot!Begin, Todo, Pilot!CreateOrder
  <2> HIDE DEF number
  <2>2. CommandShaped'
    BY <2>1 DEF CommandShaped, StepsOf
  <2>3. DeploymentShaped' /\ (~torn => DeploymentAgrees')
    BY <2>1 DEF PilotInv, DeploymentShaped, DeploymentAgrees
  <2>4. ~torn => CredentialsAgree'
    BY <2>0, <2>1 DEF PilotInv, CredentialsAgree, At, PasswordKept, Unhanded
  <2>5. QED
    BY <2>0, <2>1, <2>2, <2>3, <2>4 DEF PilotInv
<1>2. CASE Pilot!BeginRotate(file, other)
  <2> DEFINE number == issued + 1
  <2>0. number \in Nat /\ number # Pilot!Nothing
    BY DEF PilotInv, Pilot!Nothing
  <2>1. /\ command' = [step |-> "PASSWORD", name |-> "ROTATE", todo |-> Todo("ROTATE", "PASSWORD"), old |-> file, new |-> other,
                       password |-> number, sha |-> Pilot!Nothing]
        /\ issued' = number /\ environment.password # Pilot!Nothing
        /\ passwordIn[file] # Pilot!Nothing /\ passwordIn[other] = Pilot!Nothing
        /\ UNCHANGED <<environment, passwordIn, metadata, deployment, deployState, currentLink, running,
                       lastDeploy, given, torn>>
    BY <1>2 DEF Pilot!BeginRotate, Pilot!Begin, Todo, Pilot!RotateOrder
  <2> HIDE DEF number
  <2>2. CommandShaped'
    BY <2>1 DEF CommandShaped, StepsOf
  <2>3. DeploymentShaped' /\ (~torn => DeploymentAgrees')
    BY <2>1 DEF PilotInv, DeploymentShaped, DeploymentAgrees
  <2>4. ~torn => CredentialsAgree'
    BY <2>0, <2>1 DEF PilotInv, CredentialsAgree, At, PasswordKept, Unhanded
  <2>5. QED
    BY <2>0, <2>1, <2>2, <2>3, <2>4 DEF PilotInv
<1>3. CASE Pilot!BeginRetire(file)
  <2>1. /\ command' = [step |-> "UNLINK", name |-> "RETIRE", todo |-> Todo("RETIRE", "UNLINK"), old |-> file, new |-> file,
                       password |-> passwordIn[file], sha |-> Pilot!Nothing]
        /\ passwordIn[file] # Pilot!Nothing /\ metadata # "NONE"
        /\ UNCHANGED <<environment, passwordIn, metadata, deployment, deployState, currentLink, running,
                       lastDeploy, issued, given, torn>>
    BY <1>3 DEF Pilot!BeginRetire, Pilot!Begin, Todo, Pilot!RetireOrder
  <2>2. CommandShaped'
    BY <2>1 DEF CommandShaped, StepsOf
  <2>3. DeploymentShaped' /\ (~torn => DeploymentAgrees')
    BY <2>1 DEF PilotInv, DeploymentShaped, DeploymentAgrees
  <2>4. ~torn => CredentialsAgree'
    BY <2>1 DEF PilotInv, CredentialsAgree, At, PasswordKept, Unhanded
  <2>5. QED
    BY <2>1, <2>2, <2>3, <2>4 DEF PilotInv
<1>4. QED
  BY <1>1, <1>2, <1>3

\* What the steps change of the two records.
LEMMA CommandRecord ==
  ASSUME NEW c, NEW c2, NEW step, NEW todo, NEW sha,
         c = [step |-> c.step, name |-> c.name, todo |-> c.todo, old |-> c.old, new |-> c.new,
              password |-> c.password, sha |-> c.sha],
         c2 = [c EXCEPT !.todo = todo, !.step = step, !.sha = sha]
  PROVE  c2 = [step |-> step, name |-> c.name, todo |-> todo, old |-> c.old, new |-> c.new,
               password |-> c.password, sha |-> sha]
<1>1. DOMAIN c = {"step", "name", "todo", "old", "new", "password", "sha"}
  OBVIOUS
<1>2. /\ c2.step = step /\ c2.todo = todo /\ c2.sha = sha /\ c2.name = c.name /\ c2.old = c.old
      /\ c2.new = c.new /\ c2.password = c.password
  BY <1>1
<1>3. DOMAIN c2 = {"step", "name", "todo", "old", "new", "password", "sha"}
  BY <1>1
<1>4. c2 = [f \in DOMAIN c2 |-> c2[f]]
  OBVIOUS
<1>5. QED
  BY <1>2, <1>3, <1>4

LEMMA DeploymentRecord ==
  ASSUME NEW d, NEW d2, NEW step, NEW password, NEW sha,
         d = [step |-> d.step, target |-> d.target, previous |-> d.previous, password |-> d.password, sha |-> d.sha],
         \/ d2 = [d EXCEPT !.step = step, !.password = password] /\ sha = d.sha
         \/ d2 = [d EXCEPT !.step = step, !.sha = sha] /\ password = d.password
  PROVE  d2 = [step |-> step, target |-> d.target, previous |-> d.previous, password |-> password, sha |-> sha]
<1>1. DOMAIN d = {"step", "target", "previous", "password", "sha"}
  OBVIOUS
<1>2. d2.step = step /\ d2.password = password /\ d2.target = d.target /\ d2.previous = d.previous /\ d2.sha = sha
  BY <1>1
<1>3. DOMAIN d2 = {"step", "target", "previous", "password", "sha"}
  BY <1>1
<1>4. d2 = [f \in DOMAIN d2 |-> d2[f]]
  OBVIOUS
<1>5. QED
  BY <1>2, <1>3, <1>4

\* A step of a command makes the write it is at and goes on to the next, or ends.
LEMMA CommandGoesOn ==
  ASSUME PilotInv, Pilot!StepCommand
  PROVE  /\ CommandShaped'
         /\ \/ LastOf(command.name, command.step) /\ command' = Pilot!NoCommand
            \/ /\ ~LastOf(command.name, command.step) /\ command' # Pilot!NoCommand
               /\ command'.name = command.name /\ command'.step = After(command.name, command.step)
               /\ command'.old = command.old /\ command'.new = command.new /\ command'.password = command.password
               /\ command'.sha = IF command.step \in {"READ", "SOURCE"} THEN environment.sha ELSE command.sha
<1> DEFINE name == command.name
           step == command.step
           next == After(name, step)
           sha == IF step \in {"READ", "SOURCE"} THEN environment.sha ELSE command.sha
<1>1. /\ name \in {"CREATE", "ROTATE", "RETIRE"} /\ step \in StepsOf(name)
      /\ command.old \in Files /\ command.new \in Files
      /\ command = [step |-> step, name |-> name, todo |-> Todo(name, step),
                    old |-> command.old, new |-> command.new, password |-> command.password, sha |-> command.sha]
  BY DEF PilotInv, CommandShaped, Pilot!StepCommand
<1>2. /\ command.todo = Todo(name, step)
      /\ command = [step |-> command.step, name |-> command.name, todo |-> command.todo, old |-> command.old,
                    new |-> command.new, password |-> command.password, sha |-> command.sha]
  BY <1>1
<1>3. CASE LastOf(name, step)
  <2>1. command' = Pilot!NoCommand
    BY <1>1, <1>2, <1>3, TodoGoesOn DEF Pilot!StepCommand
  <2>2. QED
    BY <1>3, <2>1 DEF CommandShaped
<1>4. CASE ~LastOf(name, step)
  <2>1. /\ Len(Todo(name, step)) # 1 /\ Tail(Todo(name, step)) = Todo(name, next)
        /\ Head(Tail(Todo(name, step))) = next /\ next \in StepsOf(name)
    BY <1>1, <1>4, TodoGoesOn
  <2>2. command' = [command EXCEPT !.todo = Todo(name, next), !.step = next, !.sha = sha]
    BY <1>2, <2>1 DEF Pilot!StepCommand
  <2> HIDE DEF name, step, next, sha
  <2>3. command' = [step |-> next, name |-> name, todo |-> Todo(name, next),
                    old |-> command.old, new |-> command.new, password |-> command.password, sha |-> sha]
    <3>1. command' = [step |-> next, name |-> command.name, todo |-> Todo(name, next),
                      old |-> command.old, new |-> command.new, password |-> command.password, sha |-> sha]
      BY <1>2, <2>2, CommandRecord
    <3>2. QED
      BY <3>1 DEF name
  <2>4. next # "NONE"
    BY <1>1, <2>1 DEF StepsOf
  <2>5. command' # Pilot!NoCommand
    BY <2>3, <2>4 DEF Pilot!NoCommand
  <2>6. CommandShaped'
    BY <1>1, <2>1, <2>3 DEF CommandShaped
  <2>7. ~LastOf(command.name, command.step) /\ next = After(command.name, command.step)
        /\ sha = IF command.step \in {"READ", "SOURCE"} THEN environment.sha ELSE command.sha
    BY <1>4 DEF name, step, next, sha
  <2>8. QED
    BY <2>3, <2>5, <2>6, <2>7 DEF name
<1>5. QED
  BY <1>3, <1>4

\* Where a command may be, and where it is next.
LEMMA WhereItIs ==
  ASSUME PilotInv, Pilot!StepCommand
  PROVE  \/ At("CREATE", {"ENVIRONMENT"}) \/ At("CREATE", {"PASSWORD"}) \/ At("CREATE", {"METADATA"})
         \/ At("ROTATE", {"PASSWORD"}) \/ At("ROTATE", {"READ"}) \/ At("ROTATE", {"ENVIRONMENT"})
         \/ At("ROTATE", {"UNLINK"}) \/ At("ROTATE", {"METADATA"}) \/ At("ROTATE", {"SOURCE"})
         \/ At("ROTATE", {"RECREATE"}) \/ At("ROTATE", {"VERIFY"})
         \/ At("RETIRE", {"UNLINK"}) \/ At("RETIRE", {"METADATA"})
BY DEF PilotInv, CommandShaped, At, StepsOf, Pilot!StepCommand

\* The service runs what it was started with; late is what differs from the environment.
LEMMA WhatIsStarted ==
  ASSUME NEW sha
  PROVE  /\ Pilot!Web(sha).sha = sha
         /\ sha = environment.sha \/ Pilot!Web(sha).late
<1>1. Pilot!Web(sha).sha = sha
  BY DEF Pilot!Web
<1>2. CASE sha # environment.sha
  <2>1. (sha # environment.sha) = TRUE
    BY <1>2
  <2>2. Pilot!Web(sha) = [sha |-> sha, late |-> TRUE]
    BY <2>1 DEF Pilot!Web
  <2>3. QED
    BY <1>1, <2>2
<1>3. QED
  BY <1>1, <1>2

LEMMA CommandsStep ==
  ASSUME PilotInv, Pilot!StepCommand
  PROVE  PilotInv'
<1>1. CommandShaped' /\ DeploymentShaped' /\ issued' \in Nat /\ DOMAIN passwordIn' = Files
  BY CommandGoesOn DEF PilotInv, DeploymentShaped, Pilot!StepCommand, Pilot!WriteEnvironment, Pilot!AtomicWritePassword,
     Pilot!Unlink, Pilot!WriteMetadata, Pilot!RecreateWeb, Pilot!Look
<1>2. torn => torn'
  BY DEF Pilot!StepCommand, Pilot!WriteEnvironment, Pilot!AtomicWritePassword, Pilot!Unlink, Pilot!WriteMetadata,
     Pilot!RecreateWeb, Pilot!Look, Pilot!Overwrites
<1> SUFFICES ASSUME ~torn' PROVE CredentialsAgree' /\ DeploymentAgrees'
  BY <1>1 DEF PilotInv
<1>3. ~torn /\ CredentialsAgree /\ DeploymentAgrees /\ DOMAIN passwordIn = Files
  BY <1>2 DEF PilotInv
<1>4. UNCHANGED <<deployment, deployState, currentLink, lastDeploy, issued>> /\ command # Pilot!NoCommand
  BY DEF Pilot!StepCommand
<1>5. ASSUME command.step = "ENVIRONMENT"
      PROVE  /\ environment' = [sha |-> command.sha, password |-> command.password]
             /\ deployment.step \notin {"WRITE_SHA", "WRITE_BACK"} /\ UNCHANGED <<passwordIn, metadata, running, given>>
  BY <1>5 DEF Pilot!StepCommand, Pilot!WriteEnvironment, Pilot!BuildEnvironment, Pilot!Overwrites
<1>6. ASSUME command.step = "PASSWORD"
      PROVE  /\ \A f \in Files : passwordIn'[f] = IF f = command.new THEN command.password ELSE passwordIn[f]
             /\ UNCHANGED <<environment, metadata, running, given>> /\ command.new \in Files
  BY <1>3, <1>6 DEF Pilot!StepCommand, Pilot!AtomicWritePassword, PilotInv, CommandShaped
<1>7. ASSUME command.step = "UNLINK"
      PROVE  /\ \A f \in Files : passwordIn'[f] = IF f = command.old THEN Pilot!Nothing ELSE passwordIn[f]
             /\ given' = IF command.name = "RETIRE" THEN given \cup {passwordIn[command.old]} ELSE given
             /\ UNCHANGED <<environment, metadata, running>> /\ command.old \in Files /\ command.new \in Files
  BY <1>3, <1>7 DEF Pilot!StepCommand, Pilot!Unlink, PilotInv, CommandShaped
<1>8. ASSUME command.step = "METADATA"
      PROVE  /\ metadata' \in {"TEMPORARY_CREDENTIAL_PENDING_ROTATION", "ROTATED_CREDENTIAL_PENDING_HANDOFF",
                               "PLAINTEXT_CREDENTIAL_RETIRED"}
             /\ UNCHANGED <<environment, passwordIn, running, given>> /\ command.new \in Files
  BY <1>8 DEF Pilot!StepCommand, Pilot!WriteMetadata, Pilot!Status, PilotInv, CommandShaped
<1>9. ASSUME command.step \in {"READ", "SOURCE", "RECREATE", "VERIFY"}
      PROVE  /\ UNCHANGED <<environment, passwordIn, metadata, given>>
             /\ UNCHANGED running \/ running'.sha = environment.sha \/ running'.late
  <2>1. CASE command.step = "RECREATE"
    <3>1. UNCHANGED <<environment, passwordIn, metadata, given>> /\ running' = Pilot!Web(command.sha)
      BY <2>1 DEF Pilot!StepCommand, Pilot!RecreateWeb
    <3>2. QED
      BY <3>1, WhatIsStarted
  <2>2. CASE command.step # "RECREATE"
    BY <1>9, <2>2 DEF Pilot!StepCommand, Pilot!Look
  <2>3. QED
    BY <2>1, <2>2
<1> DEFINE GoesOn == \/ LastOf(command.name, command.step) /\ command' = Pilot!NoCommand
                     \/ /\ ~LastOf(command.name, command.step) /\ command' # Pilot!NoCommand
                        /\ command'.name = command.name /\ command'.step = After(command.name, command.step)
                        /\ command'.old = command.old /\ command'.new = command.new /\ command'.password = command.password
                        /\ command'.sha = IF command.step \in {"READ", "SOURCE"} THEN environment.sha ELSE command.sha
<1>10. GoesOn
  BY CommandGoesOn
<1> USE DEF At, LastOf, After, StepsOf, PasswordKept, Unhanded
<1>11. CASE At("CREATE", {"ENVIRONMENT"})
  <2>1. CredentialsAgree'
    BY <1>3, <1>4, <1>5, <1>10, <1>11 DEF CredentialsAgree
  <2>2. DeploymentAgrees'
    BY <1>3, <1>4, <1>5, <1>11 DEF CredentialsAgree, DeploymentAgrees, Pilot!NoCommand
  <2>3. QED
    BY <2>1, <2>2
<1>12. CASE At("CREATE", {"PASSWORD"})
  BY <1>3, <1>4, <1>6, <1>10, <1>12 DEF CredentialsAgree, DeploymentAgrees
<1>13. CASE At("CREATE", {"METADATA"})
  BY <1>3, <1>4, <1>8, <1>10, <1>13 DEF CredentialsAgree, DeploymentAgrees
<1>14. CASE At("ROTATE", {"PASSWORD"})
  <2>1. command.step = "PASSWORD" /\ command.name = "ROTATE"
    BY <1>14
  <2>2. /\ \A f \in Files : passwordIn'[f] = IF f = command.new THEN command.password ELSE passwordIn[f]
        /\ UNCHANGED <<environment, metadata, running, given>> /\ command.new \in Files /\ command.old \in Files
    BY <1>6, <2>1 DEF PilotInv, CommandShaped, Pilot!StepCommand
  <2>3. /\ command' # Pilot!NoCommand /\ command'.name = "ROTATE" /\ command'.step = "READ"
        /\ command'.old = command.old /\ command'.new = command.new /\ command'.password = command.password
    BY <1>10, <2>1
  <2>4. /\ PasswordKept /\ environment.password # Pilot!Nothing /\ passwordIn[command.new] = Pilot!Nothing
        /\ command.old # command.new /\ command.password # Pilot!Nothing
    BY <1>3, <2>1, <2>2, <1>4 DEF CredentialsAgree
  <2>5. PasswordKept'
    BY <2>2, <2>4
  <2>6. CredentialsAgree'
    BY <1>4, <2>2, <2>3, <2>4, <2>5 DEF CredentialsAgree
  <2>7. DeploymentAgrees'
    BY <1>3, <1>4, <2>2 DEF DeploymentAgrees
  <2>8. QED
    BY <2>6, <2>7
<1>15. CASE At("ROTATE", {"READ"})
  BY <1>3, <1>4, <1>9, <1>10, <1>15 DEF CredentialsAgree, DeploymentAgrees
<1>16. CASE At("ROTATE", {"ENVIRONMENT"})
  BY <1>3, <1>4, <1>5, <1>10, <1>16 DEF CredentialsAgree, DeploymentAgrees, PilotInv, CommandShaped
<1>17. CASE At("ROTATE", {"UNLINK"})
  BY <1>3, <1>4, <1>7, <1>10, <1>17 DEF CredentialsAgree, DeploymentAgrees
<1>18. CASE At("ROTATE", {"METADATA"})
  BY <1>3, <1>4, <1>8, <1>10, <1>18 DEF CredentialsAgree, DeploymentAgrees
<1>19. CASE At("ROTATE", {"RECREATE"})
  BY <1>3, <1>4, <1>9, <1>10, <1>19 DEF CredentialsAgree, DeploymentAgrees
<1>20. CASE At("ROTATE", {"VERIFY"})
  BY <1>3, <1>4, <1>9, <1>10, <1>20 DEF CredentialsAgree, DeploymentAgrees
<1>21. CASE At("RETIRE", {"UNLINK"})
  BY <1>3, <1>4, <1>7, <1>10, <1>21 DEF CredentialsAgree, DeploymentAgrees
<1>22. CASE At("RETIRE", {"METADATA"})
  BY <1>3, <1>4, <1>8, <1>10, <1>22 DEF CredentialsAgree, DeploymentAgrees
<1>23. CASE At("ROTATE", {"SOURCE"})
  BY <1>3, <1>4, <1>9, <1>10, <1>23 DEF CredentialsAgree, DeploymentAgrees
<1>24. QED
  BY <1>11, <1>12, <1>13, <1>14, <1>15, <1>16, <1>17, <1>18, <1>19, <1>20, <1>21, <1>22, <1>23, WhereItIs

\* The same for a deployment, and what ends either of the two.
LEMMA DeploymentsStep ==
  ASSUME PilotInv, NEW r, NEW ok \in BOOLEAN,
         \/ Pilot!BeginDeploy(r) \/ Pilot!GetBuildSha \/ Pilot!SetBuildSha \/ Pilot!SourceEnvironment
         \/ Pilot!CheckCandidate(ok) \/ Pilot!Up(ok) \/ Pilot!UpBack(ok) \/ Pilot!LinkRelease(ok)
         \/ Pilot!WriteDeployment(ok) \/ Pilot!DeployKilled \/ Pilot!CommandKilled
  PROVE  PilotInv'
<1> DEFINE Goes(step, password, sha) ==
             /\ deployment' # Pilot!NoCommand /\ deployment'.step = step
             /\ deployment'.target = deployment.target /\ deployment'.previous = deployment.previous
             /\ deployment'.password = password /\ deployment'.sha = sha /\ DeploymentShaped'
<1>1. ASSUME NEW step \in DeploySteps, NEW password, NEW sha,
              deployment' = [step |-> step, target |-> deployment.target, previous |-> deployment.previous,
                             password |-> password, sha |-> sha]
       PROVE  Goes(step, password, sha)
  <2>1. step # "NONE"
    BY DEF DeploySteps
  <2>2. QED
    BY <1>1, <2>1 DEF DeploymentShaped, Pilot!NoCommand
<1>2. deployment # Pilot!NoCommand =>
         deployment = [step |-> deployment.step, target |-> deployment.target, previous |-> deployment.previous,
                       password |-> deployment.password, sha |-> deployment.sha]
  BY DEF PilotInv, DeploymentShaped
<1> HIDE DEF Goes
<1>3. ASSUME NEW step \in DeploySteps, NEW password, deployment # Pilot!NoCommand,
             deployment' = [deployment EXCEPT !.step = step, !.password = password]
      PROVE  Goes(step, password, deployment.sha)
  BY <1>3, <1>1, <1>2, DeploymentRecord
<1>4. ASSUME NEW step \in DeploySteps, NEW sha, deployment # Pilot!NoCommand,
              deployment' = [deployment EXCEPT !.step = step, !.sha = sha]
       PROVE  Goes(step, deployment.password, sha)
  BY <1>1, <1>2, <1>4, DeploymentRecord
<1>5. DeploymentShaped /\ issued \in Nat /\ DOMAIN passwordIn = Files /\ CommandShaped
  BY DEF PilotInv
<1>6. ASSUME Pilot!UnchangedCredentials
      PROVE  CommandShaped' /\ issued' \in Nat /\ DOMAIN passwordIn' = Files
  BY <1>5, <1>6 DEF Pilot!UnchangedCredentials, CommandShaped
<1>7. ASSUME Pilot!UnchangedCredentials, UNCHANGED environment, CredentialsAgree, deployment # Pilot!NoCommand,
             \/ UNCHANGED deployState \/ environment.password # Pilot!Nothing
      PROVE  CredentialsAgree'
  BY <1>7 DEF Pilot!UnchangedCredentials, CredentialsAgree, At, PasswordKept, Unhanded
<1>8. CASE Pilot!BeginDeploy(r)
  <2>1. /\ deployment' = [step |-> "READ_SHA", target |-> r, previous |-> deployState.current,
                          password |-> Pilot!Nothing, sha |-> Pilot!Nothing]
        /\ deployment' # Pilot!NoCommand /\ environment.password # Pilot!Nothing /\ lastDeploy' = "UNDER_WAY"
        /\ Pilot!UnchangedCredentials /\ UNCHANGED <<environment, deployState, currentLink, running, torn>>
    BY <1>8 DEF Pilot!BeginDeploy, Pilot!NoCommand
  <2>2. DeploymentShaped'
    BY <2>1 DEF DeploymentShaped, DeploySteps
  <2>3. CredentialsAgree => CredentialsAgree'
    BY <2>1 DEF Pilot!UnchangedCredentials, CredentialsAgree, At, PasswordKept, Unhanded
  <2>4. DeploymentAgrees'
    BY <2>1 DEF DeploymentAgrees
  <2>5. QED
    BY <1>6, <2>1, <2>2, <2>3, <2>4 DEF PilotInv
<1>9. CASE Pilot!GetBuildSha
  <2> DEFINE step == IF deployment.step = "READ_SHA" THEN "WRITE_SHA" ELSE "WRITE_BACK"
  <2>1. /\ deployment' = [deployment EXCEPT !.step = step, !.password = environment.password]
        /\ Pilot!UnchangedCredentials /\ UNCHANGED <<environment, deployState, currentLink, running, lastDeploy, torn>>
        /\ deployment # Pilot!NoCommand /\ step \in {"WRITE_SHA", "WRITE_BACK"}
    BY <1>9 DEF Pilot!GetBuildSha, Pilot!NoCommand
  <2> HIDE DEF step
  <2>2. Goes(step, environment.password, deployment.sha)
    BY <1>3, <2>1 DEF DeploySteps
  <2>3. CredentialsAgree => CredentialsAgree'
    BY <1>7, <2>1
  <2>4. DeploymentAgrees => DeploymentAgrees'
    BY <2>1, <2>2 DEF Goes, DeploymentAgrees
  <2>5. QED
    BY <1>6, <2>1, <2>2, <2>3, <2>4 DEF Goes, PilotInv
<1>10. CASE Pilot!SetBuildSha
  <2> DEFINE step == IF deployment.step = "WRITE_SHA" THEN "SOURCE" ELSE "SOURCE_BACK"
  <2>1. /\ deployment' = [deployment EXCEPT !.step = step, !.password = Pilot!Nothing]
        /\ Pilot!UnchangedCredentials /\ UNCHANGED <<deployState, currentLink, running, lastDeploy>>
        /\ deployment # Pilot!NoCommand /\ step \in {"SOURCE", "SOURCE_BACK"}
        /\ deployment.step \in {"WRITE_SHA", "WRITE_BACK"}
        /\ ~torn' => ~torn /\ command.step \notin {"ENVIRONMENT", "WRITE_SHA", "WRITE_BACK"}
    <3>1. deployment' = [deployment EXCEPT !.step = step, !.password = Pilot!Nothing]
      BY <1>10, Zenon DEF Pilot!SetBuildSha, Pilot!DeployTo
    <3>2. step \in {"SOURCE", "SOURCE_BACK"}
      OBVIOUS
    <3> HIDE DEF step
    <3>3. deployment.step \in {"WRITE_SHA", "WRITE_BACK"} /\ torn' = Pilot!Overwrites(command)
          /\ Pilot!UnchangedCredentials /\ UNCHANGED <<deployState, currentLink, running, lastDeploy>>
      BY <1>10 DEF Pilot!SetBuildSha
    <3>4. ~torn' => ~torn /\ command.step \notin {"ENVIRONMENT", "WRITE_SHA", "WRITE_BACK"}
      BY <3>3, Zenon DEF Pilot!Overwrites
    <3>5. deployment # Pilot!NoCommand
      BY <3>3 DEF Pilot!NoCommand
    <3>6. QED
      BY <3>1, <3>2, <3>3, <3>4, <3>5
  <2>7. environment'.password = deployment.password /\ (step = "SOURCE" => environment'.sha = deployment.target)
    BY <1>10 DEF Pilot!SetBuildSha
  <2> HIDE DEF step
  <2>2. Goes(step, Pilot!Nothing, deployment.sha)
    BY <1>3, <2>1 DEF DeploySteps
  <2>3. ~torn' /\ DeploymentAgrees => environment'.password = environment.password
    BY <2>1, <2>7 DEF DeploymentAgrees
  <2>4. ~torn' /\ CredentialsAgree /\ DeploymentAgrees => CredentialsAgree'
    BY <2>1, <2>3 DEF Pilot!UnchangedCredentials, CredentialsAgree, At, PasswordKept, Unhanded, StepsOf
  <2>5. DeploymentAgrees => DeploymentAgrees'
    BY <2>1, <2>2, <2>7 DEF Goes, DeploymentAgrees
  <2>6. QED
    BY <1>6, <2>1, <2>2, <2>4, <2>5 DEF Goes, PilotInv
<1>11. ASSUME NEW step, deployment.step \in DeploySteps, step \in DeploySteps, Pilot!DeployTo(step), Pilot!UnchangedCredentials,
             UNCHANGED <<environment, deployState, lastDeploy, torn>>,
             DeploymentAgrees /\ Goes(step, Pilot!Nothing, deployment.sha) => DeploymentAgrees'
      PROVE  PilotInv'
  <2>1. deployment # Pilot!NoCommand
    BY <1>11 DEF Pilot!NoCommand, DeploySteps
  <2>2. Goes(step, Pilot!Nothing, deployment.sha)
    BY <1>3, <1>11, <2>1 DEF Pilot!DeployTo
  <2>3. CredentialsAgree => CredentialsAgree'
    BY <1>7, <1>11, <2>1
  <2>4. QED
    BY <1>6, <1>11, <2>2, <2>3 DEF Goes, PilotInv
<1>12. ASSUME NEW how \in {"REFUSED", "FAILED", "ROLLED_BACK", "KILLED", "DONE"}, Pilot!EndDeploy(how),
             deployment # Pilot!NoCommand, Pilot!UnchangedCredentials, UNCHANGED <<environment, torn>>,
             how = "DONE" \/ UNCHANGED deployState,
             how = "DONE" /\ DeploymentAgrees => environment.sha = deployState'.current /\ currentLink' = deployState'.current
                                                 /\ (running'.sha = deployState'.current \/ running'.late)
      PROVE  PilotInv'
  <2>1. deployment' = Pilot!NoCommand /\ lastDeploy' = how
    BY <1>12 DEF Pilot!EndDeploy
  <2>2. DeploymentShaped'
    BY <2>1 DEF DeploymentShaped
  <2>3. CredentialsAgree => CredentialsAgree'
    BY <1>7, <1>12 DEF CredentialsAgree
  <2>4. DeploymentAgrees => DeploymentAgrees'
    BY <1>12, <2>1 DEF DeploymentAgrees, Pilot!NoCommand
  <2>5. QED
    BY <1>6, <1>12, <2>2, <2>3, <2>4 DEF PilotInv
<1>13. ASSUME deployment.step \in {"UP", "LINK", "RECORD"}, Pilot!RollBackPrevious, Pilot!UnchangedCredentials,
              UNCHANGED <<environment, deployState, torn>>
       PROVE  PilotInv'
  <2>1. CASE deployment.previous = Pilot!Nothing
    BY <1>12, <1>13, <2>1 DEF Pilot!RollBackPrevious, Pilot!NoCommand
  <2>2. CASE deployment.previous # Pilot!Nothing
    <3>1. Pilot!DeployTo("READ_BACK") /\ UNCHANGED lastDeploy
      BY <1>13, <2>2 DEF Pilot!RollBackPrevious
    <3>2. DeploymentAgrees /\ Goes("READ_BACK", Pilot!Nothing, deployment.sha) => DeploymentAgrees'
      BY <1>13, <3>1 DEF Goes, DeploymentAgrees, Pilot!NoCommand
    <3>3. QED
      BY <1>11, <1>13, <3>1, <3>2 DEF DeploySteps
  <2>3. QED
    BY <2>1, <2>2
<1>14. CASE Pilot!SourceEnvironment
  <2> DEFINE step == IF deployment.step = "SOURCE" THEN "CANDIDATE" ELSE "UP_BACK"
  <2>1. /\ deployment' = [deployment EXCEPT !.step = step, !.sha = environment.sha]
        /\ Pilot!UnchangedCredentials /\ UNCHANGED <<environment, deployState, currentLink, running, lastDeploy, torn>>
        /\ deployment # Pilot!NoCommand /\ step \in {"CANDIDATE", "UP_BACK"}
        /\ step = "CANDIDATE" => deployment.step = "SOURCE"
    BY <1>14 DEF Pilot!SourceEnvironment, Pilot!NoCommand
  <2> HIDE DEF step
  <2>2. Goes(step, deployment.password, environment.sha)
    BY <1>4, <2>1 DEF DeploySteps
  <2>3. CredentialsAgree => CredentialsAgree'
    BY <1>7, <2>1
  <2>4. DeploymentAgrees => DeploymentAgrees'
    BY <2>1, <2>2 DEF Goes, DeploymentAgrees
  <2>5. QED
    BY <1>6, <2>1, <2>2, <2>3, <2>4 DEF Goes, PilotInv
<1>15. CASE Pilot!CheckCandidate(ok)
  <2>1. CASE ok
    <3>1. /\ deployment.step = "CANDIDATE" /\ Pilot!DeployTo("UP") /\ Pilot!UnchangedCredentials
          /\ UNCHANGED <<environment, deployState, currentLink, running, lastDeploy, torn>>
      BY <1>15, <2>1 DEF Pilot!CheckCandidate
    <3>2. DeploymentAgrees /\ Goes("UP", Pilot!Nothing, deployment.sha) => DeploymentAgrees'
      BY <3>1 DEF Goes, DeploymentAgrees, Pilot!NoCommand
    <3>3. QED
      BY <1>11, <3>1, <3>2 DEF DeploySteps
  <2>2. CASE ~ok
    BY <1>12, <1>15, <2>2 DEF Pilot!CheckCandidate, Pilot!NoCommand
  <2>3. QED
    BY <2>1, <2>2
<1>16. CASE Pilot!Up(ok)
  <2>1. CASE ok
    <3>1. /\ deployment.step = "UP" /\ running'.sha = deployment.sha /\ Pilot!DeployTo("LINK")
          /\ Pilot!UnchangedCredentials /\ UNCHANGED <<environment, deployState, currentLink, lastDeploy, torn>>
      BY <1>16, <2>1 DEF Pilot!Up, Pilot!Web
    <3>2. DeploymentAgrees /\ Goes("LINK", Pilot!Nothing, deployment.sha) => DeploymentAgrees'
      BY <3>1 DEF Goes, DeploymentAgrees, Pilot!NoCommand
    <3>3. QED
      BY <1>11, <3>1, <3>2 DEF DeploySteps
  <2>2. CASE ~ok
    BY <1>16, <1>13, <2>2 DEF Pilot!Up
  <2>3. QED
    BY <2>1, <2>2
<1>17. CASE Pilot!UpBack(ok)
  <2>1. /\ Pilot!EndDeploy(IF ok THEN "ROLLED_BACK" ELSE "FAILED") /\ deployment # Pilot!NoCommand
        /\ Pilot!UnchangedCredentials /\ UNCHANGED <<environment, deployState, torn>>
    BY <1>17 DEF Pilot!UpBack, Pilot!NoCommand
  <2>2. QED
    BY <1>12, <2>1
<1>18. CASE Pilot!LinkRelease(ok)
  <2>1. CASE ok
    <3>1. /\ deployment.step = "LINK" /\ Pilot!DeployTo("RECORD") /\ currentLink' = deployment.target
          /\ Pilot!UnchangedCredentials /\ UNCHANGED <<environment, deployState, running, lastDeploy, torn>>
      BY <1>18, <2>1 DEF Pilot!LinkRelease
    <3>2. DeploymentAgrees /\ Goes("RECORD", Pilot!Nothing, deployment.sha) => DeploymentAgrees'
      BY <3>1 DEF Goes, DeploymentAgrees, Pilot!NoCommand
    <3>3. QED
      BY <1>11, <3>1, <3>2 DEF DeploySteps
  <2>2. CASE ~ok
    BY <1>18, <1>13, <2>2 DEF Pilot!LinkRelease
  <2>3. QED
    BY <2>1, <2>2
<1>19. CASE Pilot!WriteDeployment(ok)
  <2>1. CASE ok
    <3>1. /\ deployment.step = "RECORD" /\ Pilot!EndDeploy("DONE") /\ deployState'.current = deployment.target
          /\ deployment # Pilot!NoCommand /\ Pilot!UnchangedCredentials
          /\ UNCHANGED <<environment, currentLink, running, torn>>
      BY <1>19, <2>1 DEF Pilot!WriteDeployment, Pilot!NoCommand
    <3>2. DeploymentAgrees => /\ environment.sha = deployState'.current /\ currentLink' = deployState'.current
                              /\ running'.sha = deployState'.current \/ running'.late
      BY <3>1 DEF DeploymentAgrees
    <3>3. QED
      BY <1>12, <3>1, <3>2
  <2>2. CASE ~ok
    BY <1>19, <1>13, <2>2 DEF Pilot!WriteDeployment
  <2>3. QED
    BY <2>1, <2>2
<1>20. CASE Pilot!DeployKilled
  BY <1>12, <1>20 DEF Pilot!DeployKilled
<1>21. CASE Pilot!CommandKilled
  <2>1. /\ command' = Pilot!NoCommand
        /\ UNCHANGED <<environment, passwordIn, metadata, deployment, deployState, currentLink, running,
                       lastDeploy, issued, given, torn>>
    BY <1>21 DEF Pilot!CommandKilled
  <2>2. CommandShaped' /\ DeploymentShaped'
    BY <1>5, <2>1 DEF CommandShaped, DeploymentShaped
  <2>3. CredentialsAgree => CredentialsAgree'
    BY <2>1 DEF CredentialsAgree, At, PasswordKept, Unhanded
  <2>4. DeploymentAgrees => DeploymentAgrees'
    BY <2>1 DEF DeploymentAgrees
  <2>5. QED
    BY <1>5, <2>1, <2>2, <2>3, <2>4 DEF PilotInv
<1>22. QED
  BY <1>8, <1>9, <1>10, <1>15, <1>16, <1>17, <1>18, <1>19, <1>20, <1>21, <1>14

\* Wherever a rotation, a retirement or a deployment is stopped, and however the two overlap
\* without tearing the environment file: the password it accepts is in a file or handed
\* over, and a recorded deployment is the one that is linked and configured, and running
\* unless a rotation restarted the service with an environment read before it.
THEOREM PilotStateStaysAgreed == PlatformSpec => []PilotStateAgrees
<1>1. PlatformInit => PilotInv
  BY PilotInitially DEF PlatformInit
<1>2. ASSUME PilotInv, [Pilot!PilotNext]_pilotVars PROVE PilotInv'
  <2>1. CASE UNCHANGED pilotVars
    BY <1>2, <2>1 DEF PilotInv, CommandShaped, DeploymentShaped, CredentialsAgree, DeploymentAgrees, At, PasswordKept,
       Unhanded, pilotVars
  <2>2. QED
    BY <1>2, <2>1, CommandsBegin, CommandsStep, DeploymentsStep DEF Pilot!PilotNext, Pilot!BeginRollback
<1>3. PilotInv => PilotStateAgrees
  BY DEF PilotInv, CredentialsAgree, DeploymentAgrees, PasswordKept, Unhanded, PilotStateAgrees, Pilot!PilotStateAgrees
<1>4. PilotInv /\ [PlatformNext]_platformVars => PilotInv'
  BY <1>2, ComponentSteps
<1>5. QED
  BY <1>1, <1>3, <1>4, PTL DEF PlatformSpec

--------------------------------------------------------------------------------
(* Contact objects and the renewal of their policy's approval *)

\* The validators are all that is needed: an object is whole when it is built.
LEMMA ContactsKept ==
  ASSUME Contacts!ContactIsContained, [Contacts!ContactNext]_contactVars
  PROVE  Contacts!ContactIsContained'
<1> USE DEF Contacts!ContactIsContained
<1>1. ASSUME NEW c \in Contacts!Channels, Contacts!BuildChannel(c) PROVE Contacts!ContactIsContained'
  <2>1. /\ built' = [class |-> "ContactChannel", fields |-> c] /\ UNCHANGED auditKeys
        /\ Contacts!ValidateChannelPolicy(c) /\ Contacts!ValidateO01ContactChannel(c)
    BY <1>1 DEF Contacts!BuildChannel
  <2>2. c.type \in Contacts!ChannelTypes /\ c.data_class \in Contacts!DataClasses
    BY DEF Contacts!Channels
  <2>3. /\ c.data_class # "BLOCKED" /\ ~c.reused /\ c.procedural
        /\ c.data_class = "AMBIGUOUS_PERSONAL" => c.policy_decision = "LINK_ONLY" /\ c.type = "SOURCE_LINK_ONLY"
        /\ c.data_class = "INSTITUTIONAL" => c.type \in {"PROCUREMENT_PLATFORM", "BUYER_PROFILE", "OFFICIAL_FORM"}
        /\ c.data_class = "FUNCTIONAL_NON_PERSONAL" => c.type \in {"FUNCTIONAL_EMAIL", "OFFICIAL_PHONE"}
        /\ c.data_class = "PROFESSIONAL_PERSONAL" => c.policy_decision = "CONTEXTUAL"
    BY <2>1, <2>2 DEF Contacts!ValidateO01ContactChannel, Contacts!EvaluateO01ContactPolicy, Contacts!O01Policy,
       Contacts!DataClasses
  <2>4. c.policy_decision # "BLOCK"
    BY <2>1, <2>2 DEF Contacts!ValidateO01ContactChannel, Contacts!EvaluateO01ContactPolicy, Contacts!O01Policy,
       Contacts!DataClasses
  <2>5. c.endpoint = Contacts!ExpectedScheme(c.type) /\ (c.policy_decision = "LINK_ONLY" => c.actions = {"OPEN"})
    BY <2>1, <2>3, <2>4 DEF Contacts!ValidateChannelPolicy
  <2>6. QED
    BY <2>1, <2>2, <2>3, <2>5 DEF Contacts!ExpectedScheme, Contacts!DataClasses
<1>2. ASSUME NEW w \in Contacts!Workspaces, NEW facts, Contacts!OpenWorkspace(w, facts) PROVE Contacts!ContactIsContained'
  BY <1>2 DEF Contacts!OpenWorkspace, Contacts!ValidateOrigin, Contacts!ValidateWorkspaceState
<1>3. ASSUME NEW q \in Contacts!Clarifications, Contacts!ReviseClarification(q) PROVE Contacts!ContactIsContained'
  BY <1>3 DEF Contacts!ReviseClarification, Contacts!ValidateHumanControl
<1>4. ASSUME NEW keys \in Contacts!AuditDetails, Contacts!RecordAudit(keys) PROVE Contacts!ContactIsContained'
  BY <1>4 DEF Contacts!RecordAudit, Contacts!AuditDetails, Contacts!RejectContactReplication, Contacts!ProhibitedDetails
<1>5. CASE UNCHANGED contactVars
  BY <1>5 DEF contactVars
<1>6. QED
  BY <1>1, <1>2, <1>3, <1>4, <1>5 DEF Contacts!ContactNext

\* A set of numbers has a least one, and a greatest one if it is bounded.
LEMMA Least ==
  ASSUME NEW T, T \subseteq Nat, T # {}
  PROVE  \E x \in T : \A y \in T : x =< y
<1>1. IsWellFoundedOn(OpToRel(<, Nat), Nat)
  BY NatLessThanWellFounded
<1>2. PICK x \in T : \A y \in T : ~ (<<y, x>> \in OpToRel(<, Nat))
  BY <1>1, WFMin
<1>3. ASSUME NEW y \in T PROVE x =< y
  <2>1. ~(y < x)
    BY <1>2 DEF OpToRel
  <2>2. QED
    BY <2>1
<1>4. QED
  BY <1>3

LEMMA Greatest ==
  ASSUME NEW n \in Nat, NEW T, T \subseteq 1..n, T # {}
  PROVE  \E x \in T : \A y \in T : x >= y
<1> DEFINE D == {n - x : x \in T}
<1>1. \A x \in T : x \in Nat /\ n - x \in Nat
  OBVIOUS
<1>2. D \subseteq Nat
  BY <1>1
<1>3. D # {}
  OBVIOUS
<1> HIDE DEF D
<1>4. PICK d \in D : \A y \in D : d =< y
  BY <1>2, <1>3, Least
<1>5. PICK x \in T : d = n - x
  BY DEF D
<1>6. ASSUME NEW y \in T PROVE x >= y
  <2>1. n - y \in D
    BY DEF D
  <2>2. n - x =< n - y /\ x \in Nat /\ y \in Nat
    BY <1>1, <1>4, <1>5, <2>1
  <2>3. QED
    BY <2>2
<1>7. QED
  BY <1>6

RenewalComments == [authority : Renewal!Authorities, decision : {"APPROVE", "REJECT"}, head : Nat, expiry : Nat]

RenewalPackages ==
  [mode : {"ONLINE", "OFFLINE"}, head : Nat, version : 0..2, status : {"PASS", "UNAVAILABLE"}, maximumExpiry : Nat]

\* What runs read of each other: an online package never has the version of the fixture.
RenewalInv ==
  /\ heads \in Seq([files : Nat, technical : Nat]) /\ heads # <<>>
  /\ terms.version \in 0..1 /\ today \in Nat
  /\ comments \in Seq(RenewalComments) /\ artifact \in Seq(RenewalPackages)
  /\ \A i \in DOMAIN artifact : /\ artifact[i].head \in DOMAIN heads
                                /\ artifact[i].mode = "ONLINE" => artifact[i].version # Renewal!FixtureVersion
  /\ Renewal!QuietRenewalIsEarned

\* The latest decision of an authority within the reach of the evidence.
LEMMA LatestDecision ==
  ASSUME RenewalInv, NEW a \in Renewal!Authorities, NEW expiry \in Nat, Renewal!Eligible(a, expiry) # {}
  PROVE  \E i \in DOMAIN comments :
            /\ Renewal!ExtractLatestDecision(a, expiry) = comments[i]
            /\ comments[i].authority = a /\ comments[i].head = Renewal!HeadSha /\ comments[i].expiry <= expiry
            /\ \A j \in DOMAIN comments :
                 j > i => ~(comments[j].authority = a /\ comments[j].head = Renewal!HeadSha /\ comments[j].expiry <= expiry)
<1> DEFINE E == Renewal!Eligible(a, expiry)
<1>1. Len(comments) \in Nat /\ DOMAIN comments = 1..Len(comments) /\ E \subseteq 1..Len(comments)
  BY LenProperties DEF RenewalInv, Renewal!Eligible
<1>2. PICK x \in E : \A y \in E : x >= y
  BY <1>1, Greatest
<1> DEFINE i == Renewal!Max(E)
<1>3. i \in E /\ \A y \in E : i >= y
  BY <1>2 DEF Renewal!Max
<1>4. Renewal!ExtractLatestDecision(a, expiry) = comments[i]
  BY DEF Renewal!ExtractLatestDecision
<1> HIDE DEF i, E
<1>5. /\ i \in DOMAIN comments /\ comments[i].authority = a /\ comments[i].head = Renewal!HeadSha
      /\ comments[i].expiry <= expiry
  BY <1>3 DEF E, Renewal!Eligible
<1>6. ASSUME NEW j \in DOMAIN comments, j > i, comments[j].authority = a, comments[j].head = Renewal!HeadSha,
             comments[j].expiry <= expiry
      PROVE  FALSE
  <2>1. j \in E
    BY <1>6 DEF E, Renewal!Eligible
  <2>2. i >= j /\ i \in Nat /\ j \in Nat
    BY <1>1, <1>3, <1>5, <2>1
  <2>3. QED
    BY <1>6, <2>2
<1>7. QED
  BY <1>4, <1>5, <1>6

\* The authority is active when every decision approves until beyond the window.
LEMMA ActiveAuthority ==
  ASSUME RenewalInv, NEW decisions \in SUBSET RenewalComments, NEW moment \in Nat,
         Renewal!EvaluateAuthority(decisions, moment) = "ACTIVE"
  PROVE  /\ decisions # {}
         /\ \A d \in decisions : d.decision = "APPROVE" /\ d.expiry > moment + RenewalWindow
<1> DEFINE T == {d.expiry : d \in decisions}
           least == Renewal!Min(T)
<1>1. /\ decisions # {} /\ ~\E d \in decisions : d.decision = "REJECT"
      /\ ~(least <= moment + RenewalWindow)
  BY DEF Renewal!EvaluateAuthority
<1>2. T \subseteq Nat /\ T # {}
  BY <1>1 DEF RenewalComments
<1> HIDE DEF T
<1>3. least \in T /\ \A y \in T : least =< y
  BY <1>2, Least DEF Renewal!Min
<1> HIDE DEF least
<1>4. ASSUME NEW d \in decisions PROVE d.decision = "APPROVE" /\ d.expiry > moment + RenewalWindow
  <2>1. d.expiry \in T
    BY DEF T
  <2>2. least \in Nat /\ d.expiry \in Nat /\ least =< d.expiry /\ RenewalWindow \in Nat
    BY <1>2, <1>3, <2>1, RenewalAssumption DEF RenewalInv
  <2>3. d.decision = "APPROVE"
    BY <1>1 DEF RenewalComments
  <2>4. QED
    BY <1>1, <2>2, <2>3
<1>5. QED
  BY <1>1, <1>4

\* A run that asks for nothing had before it one online package, which it found unchanged.
LEMMA RunsEarnTheirQuiet ==
  ASSUME RenewalInv, NEW event \in {"SCHEDULE", "DISPATCH", "PUSH"}, NEW mode \in {"ONLINE", "OFFLINE"},
         Renewal!Run(event, mode)
  PROVE  RenewalInv'
<1> DEFINE package == Renewal!MaterialiseRenewal(mode)
           before == Renewal!Recovered(event)
           class == Renewal!ClassifyDelta(Renewal!ObserveTerms(mode), before)
           authority == Renewal!EvaluateAuthority(Renewal!Envelope(event), Renewal!Now(mode))
<1>1. UNCHANGED <<heads, terms, today, comments>>
  BY DEF Renewal!Run
<1>2. /\ Len(heads) \in DOMAIN heads /\ Renewal!HeadSha = Len(heads) /\ Len(heads) \in Nat
      /\ \A i \in DOMAIN heads : heads[i] = [files |-> heads[i].files, technical |-> heads[i].technical]
  <2>1. Len(heads) \in Nat /\ DOMAIN heads = 1..Len(heads) /\ Len(heads) # 0
        /\ \A i \in DOMAIN heads : heads[i] \in [files : Nat, technical : Nat]
    BY ZenonT(40), LenProperties, EmptySeq DEF RenewalInv
  <2>2. QED
    BY <2>1 DEF Renewal!HeadSha
<1>3. /\ package \in RenewalPackages /\ package.head = Len(heads) /\ package.mode = mode
      /\ mode = "ONLINE" => /\ package.version = terms.version /\ package.version # Renewal!FixtureVersion
                            /\ package.status = "PASS" => terms.reachable
      /\ mode = "OFFLINE" => package.version = Renewal!FixtureVersion
      /\ Renewal!ObserveTerms(mode).version = package.version /\ Renewal!ObserveTerms(mode).status = package.status
  <2>1. EvidenceDays \in Nat /\ FrozenDay \in Nat
    BY RenewalAssumption, Zenon
  <2>2. today \in Nat
    BY DEF RenewalInv
  <2>3. Renewal!Now(mode) \in Nat
    BY <2>1, <2>2, Zenon DEF Renewal!Now
  <2>4. Renewal!Now(mode) + EvidenceDays \in Nat
    BY <2>1, <2>3
  <2>5. QED
    BY <1>2, <2>4 DEF RenewalInv, RenewalPackages, Renewal!MaterialiseRenewal, Renewal!ObserveTerms,
       Renewal!FetchDocument, Renewal!FixtureVersion
<1>4. before \in Seq(RenewalPackages) /\ (before = artifact \/ before = <<>>)
  BY DEF RenewalInv, Renewal!Recovered
<1>5. CASE Renewal!Unusable(event)
  <2>1. artifact' = before /\ lastRun' = [outcome |-> "NO_PACKAGE"]
    BY <1>5 DEF Renewal!Run
  <2>2. Renewal!QuietRenewalIsEarned'
    BY <2>1 DEF Renewal!QuietRenewalIsEarned
  <2>3. \A i \in DOMAIN before : before[i].head \in DOMAIN heads /\ (before[i].mode = "ONLINE" => before[i].version # Renewal!FixtureVersion)
    BY <1>4 DEF RenewalInv
  <2> HIDE DEF before
  <2>4. QED
    BY <1>1, <1>4, <2>1, <2>2, <2>3 DEF RenewalInv
<1>6. CASE ~Renewal!Unusable(event)
  <2>1. /\ artifact' = <<package>> \o before
        /\ lastRun' = [outcome  |-> IF Renewal!Passes(class, authority) THEN "PASS" ELSE "BLOCKED",
                       required |-> Renewal!NewDecisionsRequired(class, authority)]
    BY <1>6 DEF Renewal!Run
  <2> HIDE DEF package
  <2>2. /\ Len(artifact') = 1 + Len(before) /\ artifact' \in Seq(RenewalPackages) /\ artifact'[1] = package
        /\ \A i \in DOMAIN artifact' : i = 1 \/ (i - 1 \in DOMAIN before /\ artifact'[i] = before[i - 1])
        /\ Len(before) \in Nat /\ DOMAIN before = 1..Len(before)
        /\ \A i \in DOMAIN before : artifact'[i + 1] = before[i]
    <3>1. <<package>> \in Seq(RenewalPackages) /\ Len(<<package>>) = 1 /\ <<package>>[1] = package
      BY <1>3
    <3>2. Len(before) \in Nat /\ DOMAIN before = 1..Len(before)
      BY <1>4, LenProperties
    <3> HIDE DEF before
    <3>3. /\ artifact' \in Seq(RenewalPackages) /\ Len(artifact') = Len(<<package>>) + Len(before)
          /\ \A i \in 1..(Len(<<package>>) + Len(before)) :
               artifact'[i] = IF i <= Len(<<package>>) THEN <<package>>[i] ELSE before[i - Len(<<package>>)]
      BY <1>4, <2>1, <3>1, ConcatProperties
    <3>4. DOMAIN artifact' = 1..(1 + Len(before))
      BY <3>1, <3>2, <3>3, LenProperties
    <3>5. QED
      BY <3>1, <3>2, <3>3, <3>4
  <2>3. \A i \in DOMAIN artifact' : /\ artifact'[i].head \in DOMAIN heads
                                    /\ artifact'[i].mode = "ONLINE" => artifact'[i].version # Renewal!FixtureVersion
    <3>1. \A i \in DOMAIN before : before[i].head \in DOMAIN heads /\ (before[i].mode = "ONLINE" => before[i].version # Renewal!FixtureVersion)
      BY <1>4 DEF RenewalInv
    <3> HIDE DEF before
    <3>2. QED
      BY <1>2, <1>3, <2>2, <3>1
  <2>4. ASSUME lastRun'.outcome = "PASS", ~lastRun'.required PROVE Renewal!QuietRenewalIsEarned'
    <3>1. authority = "ACTIVE" /\ class \in {"NO_MATERIAL_CHANGE", "BASELINE_REQUIRED"}
      BY <2>1, <2>4 DEF Renewal!NewDecisionsRequired
    <3>2. Renewal!Envelope(event) # {}
      BY <3>1 DEF Renewal!EvaluateAuthority
    <3>3. before = artifact /\ artifact # <<>>
      BY <3>2 DEF Renewal!Envelope, Renewal!Recovered
    <3>4. Len(artifact) = 1 /\ artifact[1].mode = "ONLINE"
      BY <1>6, <3>3 DEF Renewal!Unusable
    <3>5. /\ artifact[1] \in RenewalPackages /\ artifact[1].head \in DOMAIN heads
          /\ artifact[1].version # Renewal!FixtureVersion
      BY <1>4, <3>3, <3>4, LenProperties DEF RenewalInv
    <3>6. /\ package.status = "PASS" /\ artifact[1].status # "UNAVAILABLE" /\ artifact[1].version = package.version
          /\ heads[artifact[1].head].files = heads[Len(heads)].files
          /\ heads[artifact[1].head].technical = heads[Len(heads)].technical
      BY <1>2, <1>3, <3>1, <3>3 DEF Renewal!ClassifyDelta, Renewal!TechnicalPathsChanged
    <3>7. mode = "ONLINE" /\ artifact[1].status = "PASS" /\ heads[artifact[1].head] = heads[Len(heads)]
      BY <1>2, <1>3, <3>5, <3>6 DEF RenewalPackages
    <3> DEFINE expiry == artifact[1].maximumExpiry
    <3>8. /\ expiry \in Nat /\ \A a \in Renewal!Authorities : Renewal!Eligible(a, expiry) # {}
          /\ Renewal!Envelope(event) = {Renewal!ExtractLatestDecision(a, expiry) : a \in Renewal!Authorities}
      BY <3>2, <3>3, <3>5 DEF Renewal!Envelope, RenewalPackages
    <3> HIDE DEF expiry
    <3>9. Renewal!Envelope(event) \in SUBSET RenewalComments
      <4>1. ASSUME NEW a \in Renewal!Authorities PROVE Renewal!ExtractLatestDecision(a, expiry) \in RenewalComments
        <5>1. PICK i \in DOMAIN comments : Renewal!ExtractLatestDecision(a, expiry) = comments[i]
          BY <3>8, LatestDecision
        <5>2. QED
          BY <5>1, LenProperties DEF RenewalInv
      <4>2. QED
        BY <3>8, <4>1
    <3>10. ASSUME NEW a \in Renewal!Authorities
           PROVE  \E i \in DOMAIN comments :
                    /\ comments[i].authority = a /\ comments[i].decision = "APPROVE" /\ comments[i].head = Renewal!HeadSha
                    /\ comments[i].expiry > today + RenewalWindow /\ comments[i].expiry <= expiry
                    /\ ~\E j \in DOMAIN comments :
                          /\ j > i /\ comments[j].authority = a /\ comments[j].decision = "REJECT"
                          /\ comments[j].head = Renewal!HeadSha /\ comments[j].expiry <= expiry
      <4>1. PICK i \in DOMAIN comments :
              /\ Renewal!ExtractLatestDecision(a, expiry) = comments[i]
              /\ comments[i].authority = a /\ comments[i].head = Renewal!HeadSha /\ comments[i].expiry <= expiry
              /\ \A j \in DOMAIN comments :
                   j > i => ~(comments[j].authority = a /\ comments[j].head = Renewal!HeadSha /\ comments[j].expiry <= expiry)
        BY <3>8, LatestDecision
      <4>2. comments[i] \in Renewal!Envelope(event)
        BY <3>8, <4>1
      <4>3. comments[i].decision = "APPROVE" /\ comments[i].expiry > today + RenewalWindow
        <5>1. Renewal!Now(mode) = today /\ today \in Nat
          BY <3>7 DEF Renewal!Now, RenewalInv
        <5>2. QED
          BY <3>1, <3>9, <4>2, <5>1, ActiveAuthority
      <4>4. QED
        BY <4>1, <4>3
    <3>11. Len(artifact') = 2 /\ artifact'[1] = package /\ artifact'[2] = artifact[1]
      BY <2>2, <3>3, <3>4
    <3>12. Renewal!HeadSha' = Renewal!HeadSha
      BY <1>1 DEF Renewal!HeadSha
    <3> HIDE DEF before, class, authority
    <3>13. /\ Len(artifact') = 2 /\ artifact'[2].mode = "ONLINE" /\ artifact'[1].mode = "ONLINE" /\ terms'.reachable
           /\ artifact'[2].status = "PASS" /\ artifact'[2].version = artifact'[1].version
           /\ heads'[artifact'[2].head] = heads'[Renewal!HeadSha'] /\ artifact'[2].maximumExpiry = expiry
      BY <1>1, <1>2, <1>3, <3>4, <3>6, <3>7, <3>11, <3>12 DEF expiry
    <3>14. QED
      BY <1>1, <3>10, <3>12, <3>13 DEF Renewal!QuietRenewalIsEarned
  <2>5. Renewal!QuietRenewalIsEarned'
    BY <2>4 DEF Renewal!QuietRenewalIsEarned
  <2>6. QED
    BY <1>1, <2>2, <2>3, <2>5 DEF RenewalInv
<1>7. QED
  BY <1>5, <1>6

\* Everything else forgets the last run.
LEMMA RenewalKept ==
  ASSUME RenewalInv, [Renewal!RenewalNext]_renewalVars
  PROVE  RenewalInv'
<1>1. ASSUME lastRun' = Renewal!NotRun PROVE Renewal!QuietRenewalIsEarned'
  BY <1>1 DEF Renewal!NotRun, Renewal!QuietRenewalIsEarned
<1>2. ASSUME NEW a \in Renewal!Authorities, NEW d \in {"APPROVE", "REJECT"}, NEW e \in Expiries, Renewal!Decide(a, d, e)
      PROVE  RenewalInv'
  <2>1. [authority |-> a, decision |-> d, head |-> Renewal!HeadSha, expiry |-> e] \in RenewalComments
    BY LenProperties, RenewalAssumption DEF RenewalInv, RenewalComments, Renewal!HeadSha
  <2>2. comments' \in Seq(RenewalComments)
    BY <1>2, <2>1, AppendProperties DEF Renewal!Decide, RenewalInv
  <2>3. QED
    BY <1>1, <1>2, <2>2 DEF Renewal!Decide, RenewalInv
<1>3. ASSUME NEW files \in 0..1, NEW technical \in 0..1, Renewal!Commit(files, technical) PROVE RenewalInv'
  <2>1. [files |-> files, technical |-> technical] \in [files : Nat, technical : Nat]
    OBVIOUS
  <2>2. /\ heads' = Append(heads, [files |-> files, technical |-> technical])
        /\ lastRun' = Renewal!NotRun /\ UNCHANGED <<terms, today, comments, artifact>>
    BY <1>3 DEF Renewal!Commit
  <2>3. heads' \in Seq([files : Nat, technical : Nat]) /\ Len(heads') = Len(heads) + 1
    BY <2>1, <2>2, AppendProperties DEF RenewalInv
  <2>4. DOMAIN heads \subseteq DOMAIN heads' /\ heads' # <<>>
    <3>1. Len(heads) \in Nat /\ DOMAIN heads = 1..Len(heads) /\ DOMAIN heads' = 1..Len(heads')
      BY <2>3, LenProperties DEF RenewalInv
    <3>2. QED
      BY <2>3, <3>1, EmptySeq
  <2>5. QED
    BY <1>1, <2>2, <2>3, <2>4 DEF RenewalInv
<1>4. ASSUME NEW v \in 0..1, NEW r \in BOOLEAN, Renewal!TermsMove(v, r) PROVE RenewalInv'
  BY <1>1, <1>4 DEF Renewal!TermsMove, RenewalInv
<1>5. ASSUME Renewal!DayPasses PROVE RenewalInv'
  BY <1>1, <1>5 DEF Renewal!DayPasses, RenewalInv
<1>6. CASE UNCHANGED renewalVars
  BY <1>6 DEF renewalVars, RenewalInv, Renewal!QuietRenewalIsEarned, Renewal!HeadSha
<1>7. QED
  BY <1>2, <1>3, <1>4, <1>5, <1>6, RunsEarnTheirQuiet DEF Renewal!RenewalNext

\* A contact object, a clarification, a workspace and an audit event stay within the O01
\* policy, and a renewal run that asks for nothing had both authorities' approval of this
\* head, whatever the order of commits, decisions, changes of the terms and runs.
THEOREM ContactPolicyStaysHeld == PlatformSpec => []ContactPolicyHolds
<1> DEFINE Inv == Contacts!ContactIsContained /\ RenewalInv
<1>1. PlatformInit => Inv
  <2>1. Contacts!ContactInit => Contacts!ContactIsContained
    BY DEF Contacts!ContactInit, Contacts!ContactIsContained, Contacts!Unbuilt
  <2>2. Renewal!RenewalInit => RenewalInv
    BY DEF Renewal!RenewalInit, RenewalInv, Renewal!QuietRenewalIsEarned, Renewal!NotRun
  <2>3. QED
    BY <2>1, <2>2 DEF PlatformInit
<1>2. Inv /\ [PlatformNext]_platformVars => Inv'
  BY ComponentSteps, ContactsKept, RenewalKept
<1>3. Inv => ContactPolicyHolds
  BY DEF ContactPolicyHolds, RenewalInv
<1>4. QED
  BY <1>1, <1>2, <1>3, PTL DEF PlatformSpec

--------------------------------------------------------------------------------
(* What a research run makes of its source's answers *)

\* The fact an evidence key was taken of.
FactOf(k) == [subject |-> k.subject, predicate |-> k.predicate, value |-> k.value]

LEMMA ObservedFacts ==
  ASSUME NEW source, NEW page, NEW f \in Artifacts!Observations(source, page)
  PROVE  f = FactOf(f) /\ FactOf(Artifacts!EvidenceKey(source, page, f)) = f
<1>1. f = FactOf(f)
  <2>1. CASE source = "WDI"
    BY <2>1 DEF Artifacts!Observations, Artifacts!FromWorldBank, FactOf
  <2>2. CASE source # "WDI"
    BY <2>2 DEF Artifacts!Observations, Artifacts!FromTed, FactOf
  <2>3. QED
    BY <2>1, <2>2
<1>2. QED
  BY <1>1 DEF FactOf, Artifacts!EvidenceKey

\* What is kept of a page shows what the page shows.
LEMMA ProjectionShows ==
  ASSUME NEW source \in Artifacts!Sources, NEW page \in SourcePages[source]
  PROVE  Artifacts!Observations(source, Artifacts!SanitisedProjection(source, page)) = Artifacts!Observations(source, page)
<1>1. CASE source = "WDI"
  BY <1>1 DEF Artifacts!SanitisedProjection
<1>2. CASE source = "TED"
  <2> DEFINE kept == [page EXCEPT !.envelope = 0]
  <2>1. kept.notices = page.notices
    BY <1>2, PagesAssumption
  <2> HIDE DEF kept
  <2>2. Artifacts!FromTed(kept) = Artifacts!FromTed(page)
    BY <2>1, Zenon DEF Artifacts!FromTed
  <2>3. Artifacts!SanitisedProjection(source, page) = kept
    BY <1>2 DEF Artifacts!SanitisedProjection, kept
  <2>4. QED
    BY <1>2, <2>2, <2>3 DEF Artifacts!Observations
<1>3. QED
  BY <1>1, <1>2 DEF Artifacts!Sources

HoldingInv ==
  /\ DOMAIN holding = Workers
  /\ \A w \in Workers :
       /\ holding[w].at \in {"READ", "HELD"} =>
            holding[w].source \in Artifacts!Sources /\ Artifacts!BlockGates[holding[w].source] \subseteq holding[w].gates
       /\ holding[w].at = "HELD" => holding[w].page \in SourcePages[holding[w].source]

\* Every row says what its key says; the rows of one key are one.
ObjectsShow ==
  \A o \in objects : /\ o.shows = Artifacts!Observations(o.key.source, o.key.content)
                     /\ Artifacts!BlockGates[o.key.source] \subseteq o.rights

EvidenceStands ==
  \A e \in evidence :
    /\ e = [key |-> e.key, fact |-> FactOf(e.key), object |-> Artifacts!SourceObjectKey(e.key.source, e.key.page)]
    /\ FactOf(e.key) \in Artifacts!Observations(e.object.source, e.object.content)
    /\ \E o \in objects : o.key = e.object

CandidatesSay == \A k \in DOMAIN candidates : candidates[k].fact = FactOf(k)

ClaimsStand ==
  /\ \A c \in claims :
       /\ c.fact = FactOf(c.key) /\ Artifacts!DecideGates[c.key.source] \subseteq c.gates
       /\ c.key.source = "WDI" => c.key.subject = 0
       /\ \E d \in dossiers : \E line \in d : line.canonical /\ line.key = c.key
  /\ \A b, c \in claims : b.key = c.key => b = c

DossiersStand ==
  \A d \in dossiers : \A line \in d :
    /\ line.fact = FactOf(line.key) /\ line.key \in DOMAIN candidates
    /\ \E e \in evidence : e.key = line.key
    /\ line.canonical => \E c \in claims : c.key = line.key

ArtifactInv == HoldingInv /\ ObjectsShow /\ EvidenceStands /\ CandidatesSay /\ ClaimsStand /\ DossiersStand

\* The one transaction that writes.
LEMMA RunsComplete ==
  ASSUME ArtifactInv, NEW w \in Workers, Artifacts!CompleteRun(w)
  PROVE  ArtifactInv'
<1> DEFINE source == holding[w].source
           page == holding[w].page
           gates == holding[w].gates
           facts == Artifacts!Observations(source, page)
           key(f) == Artifacts!EvidenceKey(source, page, f)
           okey == Artifacts!SourceObjectKey(source, page)
<1>1. /\ source \in Artifacts!Sources /\ page \in SourcePages[source] /\ Artifacts!BlockGates[source] \subseteq gates
      /\ holding' = [holding EXCEPT ![w] = Artifacts!NoWork]
  BY DEF ArtifactInv, HoldingInv, Artifacts!CompleteRun, Artifacts!Goto
<1>2. HoldingInv'
  BY <1>1 DEF ArtifactInv, HoldingInv, Artifacts!NoWork
<1>3. CASE UNCHANGED <<objects, evidence, candidates, claims, dossiers>>
  BY <1>2, <1>3 DEF ArtifactInv, ObjectsShow, EvidenceStands, CandidatesSay, ClaimsStand, DossiersStand
<1>4. CASE ~UNCHANGED <<objects, evidence, candidates, claims, dossiers>>
  <2>1. /\ objects' = Artifacts!UpsertSourceObject(source, page, gates, facts)
        /\ evidence' = Artifacts!UpsertEvidence(source, page, facts)
        /\ candidates' = Artifacts!UpsertCandidates(source, page, gates, facts)
        /\ claims' = Artifacts!AdmitCandidates(source, page, gates, facts)
        /\ dossiers' = dossiers \cup {Artifacts!DossierSections(source, page, gates, facts)}
    BY <1>4 DEF Artifacts!CompleteRun
  <2>2. \A f \in facts : FactOf(key(f)) = f
    BY ObservedFacts
  <2>3. \A f : key(f).source = source /\ key(f).page = page /\ key(f).subject = f.subject
    BY DEF Artifacts!EvidenceKey
  <2>4. /\ okey.source = source /\ Artifacts!Observations(source, okey.content) = facts
    BY <1>1, ProjectionShows DEF Artifacts!SourceObjectKey
  <2> HIDE DEF source, page, gates, facts, key, okey
  <2>5. /\ objects \subseteq objects' /\ \E o \in objects' : o.key = okey
        /\ \A o \in objects' \ objects : o.key = okey /\ o.shows = facts /\ o.rights = gates
    <3> DEFINE new == [key |-> okey, shows |-> facts, rights |-> gates, envelope |-> page]
    <3>1. objects' = IF \E o \in objects : o.key = okey THEN objects ELSE objects \cup {new}
      BY <2>1 DEF Artifacts!UpsertSourceObject, okey
    <3>2. new.key = okey /\ new.shows = facts /\ new.rights = gates
      OBVIOUS
    <3> HIDE DEF new
    <3>3. QED
      BY <3>1, <3>2
  <2>6. ObjectsShow'
    BY <1>1, <2>4, <2>5 DEF ArtifactInv, ObjectsShow
  <2>7. evidence' = evidence \cup {[key |-> key(f), fact |-> f, object |-> okey] :
                                     f \in {g \in facts : ~\E e \in evidence : e.key = key(g)}}
    BY <2>1 DEF Artifacts!UpsertEvidence, Artifacts!EvidenceRow, key, okey
  <2>8. /\ evidence \subseteq evidence'
        /\ \A f \in facts : \E e \in evidence' : e.key = key(f)
        /\ \A e \in evidence' \ evidence : \E f \in facts : e = [key |-> key(f), fact |-> f, object |-> okey]
    <3>1. \A f \in facts : \E e \in evidence' : e.key = key(f)
      <4>1. ASSUME NEW f \in facts, ~\E e \in evidence : e.key = key(f) PROVE \E e \in evidence' : e.key = key(f)
        <5>1. [key |-> key(f), fact |-> f, object |-> okey] \in evidence'
          BY <2>7, <4>1
        <5>2. QED
          BY <5>1
      <4>2. QED
        BY <2>7, <4>1
    <3>2. QED
      BY <2>7, <3>1
  <2>9. EvidenceStands'
    <3>1. ASSUME NEW e \in evidence'
          PROVE  /\ e = [key |-> e.key, fact |-> FactOf(e.key),
                         object |-> Artifacts!SourceObjectKey(e.key.source, e.key.page)]
                 /\ FactOf(e.key) \in Artifacts!Observations(e.object.source, e.object.content)
                 /\ \E o \in objects' : o.key = e.object
      <4>1. CASE e \in evidence
        BY <2>5, <4>1 DEF ArtifactInv, EvidenceStands
      <4>2. CASE e \notin evidence
        <5>1. PICK f \in facts : e = [key |-> key(f), fact |-> f, object |-> okey]
          BY <2>8, <4>2
        <5>2. e.key = key(f) /\ e.object = okey
          BY <5>1
        <5>3. Artifacts!SourceObjectKey(e.key.source, e.key.page) = okey
          BY <2>3, <5>2 DEF okey
        <5>4. QED
          BY <2>2, <2>4, <2>5, <5>1, <5>2, <5>3
      <4>3. QED
        BY <4>1, <4>2
    <3>2. QED
      BY <3>1 DEF EvidenceStands
  <2>10. CandidatesSay' /\ DOMAIN candidates \subseteq DOMAIN candidates' /\ \A f \in facts : key(f) \in DOMAIN candidates'
    <3> DEFINE keys == {key(f) : f \in facts}
               seen(k) == CHOOSE f \in facts : key(f) = k
               old(k) == k \in DOMAIN candidates
               row(k) == IF k \notin keys THEN candidates[k]
                         ELSE [fact  |-> IF old(k) THEN candidates[k].fact ELSE seen(k),
                               state |-> IF Artifacts!Admitted(source, gates, seen(k)) THEN "ADMITTED" ELSE "REJECTED",
                               canonical |-> Artifacts!Admitted(source, gates, seen(k)) \/ (old(k) /\ candidates[k].canonical)]
    <3>1. candidates' = [k \in DOMAIN candidates \cup keys |-> row(k)]
      BY <2>1, Zenon DEF Artifacts!UpsertCandidates, key
    <3>2. \A k \in keys : seen(k) \in facts /\ key(seen(k)) = k
      OBVIOUS
    <3>3. \A k \in keys : seen(k) = FactOf(k)
      BY <2>2, <3>2
    <3>4. ASSUME NEW k \in DOMAIN candidates \cup keys PROVE row(k).fact = FactOf(k)
      <4>1. CASE k \notin keys
        BY <3>4, <4>1 DEF ArtifactInv, CandidatesSay
      <4>2. CASE k \in keys
        <5>1. row(k).fact = IF old(k) THEN candidates[k].fact ELSE seen(k)
          BY <4>2
        <5>2. QED
          BY <3>3, <4>2, <5>1 DEF ArtifactInv, CandidatesSay
      <4>3. QED
        BY <4>1, <4>2
    <3>5. \A f \in facts : key(f) \in keys
      OBVIOUS
    <3> HIDE DEF keys, row
    <3>6. QED
      BY <3>1, <3>4, <3>5 DEF CandidatesSay
  <2>11. claims' = claims \cup {[key |-> key(f), fact |-> f, gates |-> gates] :
                                  f \in {g \in facts : /\ Artifacts!Admitted(source, gates, g)
                                                       /\ ~\E c \in claims : c.key = key(g)}}
    BY <2>1 DEF Artifacts!AdmitCandidates, key
  <2> DEFINE dossier == Artifacts!DossierSections(source, page, gates, facts)
  <2>12. dossier = {[key |-> key(f), fact |-> f, canonical |-> Artifacts!Admitted(source, gates, f)] : f \in facts}
    BY DEF Artifacts!DossierSections, key
  <2>13. dossiers' = dossiers \cup {dossier}
    BY <2>1
  <2> HIDE DEF dossier
  <2>14. /\ claims \subseteq claims'
         /\ \A f \in facts : Artifacts!Admitted(source, gates, f) => \E c \in claims' : c.key = key(f)
         /\ \A c \in claims' \ claims :
              \E f \in facts : /\ c = [key |-> key(f), fact |-> f, gates |-> gates] /\ Artifacts!Admitted(source, gates, f)
                               /\ ~\E b \in claims : b.key = key(f)
    <3>1. ASSUME NEW f \in facts, Artifacts!Admitted(source, gates, f) PROVE \E c \in claims' : c.key = key(f)
      <4>1. CASE \E c \in claims : c.key = key(f)
        BY <2>11, <4>1
      <4>2. CASE ~\E c \in claims : c.key = key(f)
        <5>1. [key |-> key(f), fact |-> f, gates |-> gates] \in claims'
          BY <2>11, <3>1, <4>2
        <5>2. QED
          BY <5>1
      <4>3. QED
        BY <4>1, <4>2
    <3>2. QED
      BY <2>11, <3>1
  <2>15. ClaimsStand'
    <3>1. ASSUME NEW c \in claims'
          PROVE  /\ c.fact = FactOf(c.key) /\ Artifacts!DecideGates[c.key.source] \subseteq c.gates
                 /\ c.key.source = "WDI" => c.key.subject = 0
                 /\ \E d \in dossiers' : \E line \in d : line.canonical /\ line.key = c.key
      <4>1. CASE c \in claims
        BY <2>13, <4>1 DEF ArtifactInv, ClaimsStand
      <4>2. CASE c \notin claims
        <5>1. PICK f \in facts : /\ c = [key |-> key(f), fact |-> f, gates |-> gates]
                                 /\ Artifacts!Admitted(source, gates, f)
          BY <2>14, <4>2
        <5>2. c.key = key(f) /\ c.fact = f /\ c.gates = gates
          BY <5>1
        <5>3. Artifacts!DecideGates[source] \subseteq gates /\ (source = "WDI" => f.subject = 0)
          BY <5>1 DEF Artifacts!Admitted
        <5>4. [key |-> key(f), fact |-> f, canonical |-> Artifacts!Admitted(source, gates, f)] \in dossier
          BY <2>12
        <5>5. QED
          BY <2>2, <2>3, <2>13, <5>1, <5>2, <5>3, <5>4
      <4>3. QED
        BY <4>1, <4>2
    <3>2. ASSUME NEW b \in claims', NEW c \in claims', b.key = c.key PROVE b = c
      <4>1. \A x \in claims' \ claims : x = [key |-> x.key, fact |-> FactOf(x.key), gates |-> gates]
                                        /\ ~\E y \in claims : y.key = x.key
        BY <2>2, <2>14
      <4>2. QED
        BY <3>2, <4>1 DEF ArtifactInv, ClaimsStand
    <3>3. QED
      BY <3>1, <3>2 DEF ClaimsStand
  <2>16. DossiersStand'
    <3>1. ASSUME NEW d \in dossiers', NEW line \in d
          PROVE  /\ line.fact = FactOf(line.key) /\ line.key \in DOMAIN candidates'
                 /\ \E e \in evidence' : e.key = line.key
                 /\ line.canonical => \E c \in claims' : c.key = line.key
      <4>1. CASE d \in dossiers
        BY <2>8, <2>10, <2>14, <4>1 DEF ArtifactInv, DossiersStand
      <4>2. CASE d = dossier
        <5>1. PICK f \in facts : line = [key |-> key(f), fact |-> f, canonical |-> Artifacts!Admitted(source, gates, f)]
          BY <2>12, <4>2
        <5>2. line.key = key(f) /\ line.fact = f /\ line.canonical = Artifacts!Admitted(source, gates, f)
          BY <5>1
        <5>3. QED
          BY <2>2, <2>8, <2>10, <2>14, <5>2
      <4>3. QED
        BY <2>13, <4>1, <4>2
    <3>2. QED
      BY <3>1 DEF DossiersStand
  <2>17. QED
    BY <1>2, <2>6, <2>9, <2>10, <2>15, <2>16 DEF ArtifactInv
<1>5. QED
  BY <1>3, <1>4

LEMMA ArtifactsKept ==
  ASSUME ArtifactInv, [Artifacts!ArtifactsNext]_artifactVars
  PROVE  ArtifactInv'
<1>1. ASSUME UNCHANGED <<objects, evidence, candidates, claims, dossiers>>, HoldingInv' PROVE ArtifactInv'
  BY <1>1 DEF ArtifactInv, ObjectsShow, EvidenceStands, CandidatesSay, ClaimsStand, DossiersStand
<1>2. ASSUME NEW w \in Workers, Artifacts!WorkerLost(w) PROVE ArtifactInv'
  BY <1>1, <1>2 DEF Artifacts!WorkerLost, Artifacts!Goto, ArtifactInv, HoldingInv, Artifacts!NoWork
<1>3. ASSUME NEW w \in Workers, NEW page, Artifacts!Fetch(w, page) PROVE ArtifactInv'
  <2>1. /\ holding[w].at = "READ" /\ page \in SourcePages[holding[w].source] \cup {Artifacts!NoAnswer}
        /\ UNCHANGED <<objects, evidence, candidates, claims, dossiers>>
    BY <1>3 DEF Artifacts!Fetch
  <2>2. \/ holding' = [holding EXCEPT ![w] = Artifacts!NoWork]
        \/ /\ page \in SourcePages[holding[w].source]
           /\ holding' = [holding EXCEPT ![w] = [at |-> "HELD", source |-> holding[w].source,
                                                 gates |-> holding[w].gates, page |-> page]]
    BY <1>3 DEF Artifacts!Fetch, Artifacts!Goto
  <2>3. HoldingInv'
    BY <2>1, <2>2 DEF ArtifactInv, HoldingInv, Artifacts!NoWork
  <2>4. QED
    BY <1>1, <2>1, <2>3
<1>4. ASSUME NEW w \in Workers, NEW s \in Artifacts!Sources, Artifacts!ReadSource(w, s) PROVE ArtifactInv'
  BY <1>1, <1>4 DEF Artifacts!ReadSource, Artifacts!Goto, ArtifactInv, HoldingInv
<1>5. ASSUME NEW s, NEW gate, Artifacts!ReviewSource(s, gate) PROVE ArtifactInv'
  BY <1>1, <1>5 DEF Artifacts!ReviewSource, ArtifactInv, HoldingInv
<1>6. CASE UNCHANGED artifactVars
  BY <1>1, <1>6 DEF artifactVars, ArtifactInv, HoldingInv
<1>7. QED
  BY <1>2, <1>3, <1>4, <1>5, <1>6, RunsComplete DEF Artifacts!ArtifactsNext

\* However runs, changes of the register and the source's answers interleave: every line of
\* a dossier has the one evidence row, candidate and claim that say what it says, taken from
\* a source object that shows it under rights that allow it, and no claim stands untold.
THEOREM OutputStaysOnItsSource == PlatformSpec => []OutputStandsOnItsSource
<1>1. PlatformInit => ArtifactInv
  BY DEF PlatformInit, Artifacts!ArtifactsInit, ArtifactInv, HoldingInv, ObjectsShow, EvidenceStands, CandidatesSay,
     ClaimsStand, DossiersStand, Artifacts!NoWork
<1>2. ArtifactInv => Artifacts!OutputStandsOnItsSource
  <2> SUFFICES ASSUME ArtifactInv PROVE Artifacts!OutputStandsOnItsSource
    OBVIOUS
  <2>1. ASSUME NEW d \in dossiers, NEW line \in d
        PROVE  LET view == Artifacts!RunView(line)
               IN  /\ \E e \in view.evidence :
                       /\ view.evidence = {e} /\ e.fact = line.fact
                       /\ \E o \in objects : /\ o.key = e.object /\ line.fact \in o.shows
                                             /\ Artifacts!BlockGates[o.key.source] \subseteq o.rights
                   /\ view.candidate = {line.fact}
                   /\ line.canonical =>
                       \E c \in view.canonical :
                           /\ view.canonical = {c} /\ c.fact = line.fact
                           /\ Artifacts!DecideGates[line.key.source] \subseteq c.gates
                           /\ line.key.source = "WDI" => line.fact.subject = 0
    <3> DEFINE shown == {e \in evidence : e.key = line.key}
               said == {candidates[k].fact : k \in DOMAIN candidates \cap {line.key}}
               claimed == {c \in claims : line.canonical /\ c.key = line.key}
    <3>1. line.fact = FactOf(line.key) /\ line.key \in DOMAIN candidates
      BY <2>1 DEF ArtifactInv, DossiersStand
    <3>2. PICK e \in evidence : e.key = line.key
      BY <2>1 DEF ArtifactInv, DossiersStand
    <3>3. \A x \in evidence : x = [key |-> x.key, fact |-> FactOf(x.key),
                                   object |-> Artifacts!SourceObjectKey(x.key.source, x.key.page)]
      BY DEF ArtifactInv, EvidenceStands
    <3>4. shown = {e} /\ e.fact = line.fact
      BY <3>1, <3>2, <3>3
    <3>5. \E o \in objects : /\ o.key = e.object /\ line.fact \in o.shows
                             /\ Artifacts!BlockGates[o.key.source] \subseteq o.rights
      BY <3>1, <3>2 DEF ArtifactInv, EvidenceStands, ObjectsShow
    <3>6. said = {line.fact}
      BY <3>1 DEF ArtifactInv, CandidatesSay
    <3>7. ASSUME line.canonical
          PROVE  \E c \in claimed : /\ claimed = {c} /\ c.fact = line.fact
                                    /\ Artifacts!DecideGates[line.key.source] \subseteq c.gates
                                    /\ line.key.source = "WDI" => line.fact.subject = 0
      <4>1. PICK c \in claims : c.key = line.key
        BY <2>1, <3>7 DEF ArtifactInv, DossiersStand
      <4>2. claimed = {c}
        BY <3>7, <4>1 DEF ArtifactInv, ClaimsStand
      <4>3. c.fact = line.fact /\ line.fact.subject = line.key.subject
        BY <3>1, <4>1 DEF ArtifactInv, ClaimsStand, FactOf
      <4>4. QED
        BY <4>1, <4>2, <4>3 DEF ArtifactInv, ClaimsStand
    <3>8. Artifacts!RunView(line) = [evidence |-> shown, candidate |-> said, canonical |-> claimed]
      BY DEF Artifacts!RunView
    <3> HIDE DEF shown, said, claimed
    <3>9. e \in shown
      BY <3>4
    <3>10. QED
      BY <3>4, <3>5, <3>6, <3>7, <3>8, <3>9
  <2>2. \A c \in claims : \E d \in dossiers : \E line \in d : line.canonical /\ line.key = c.key
    BY DEF ArtifactInv, ClaimsStand
  <2>3. QED
    BY <2>1, <2>2 DEF Artifacts!OutputStandsOnItsSource
<1>3. ArtifactInv /\ [PlatformNext]_platformVars => ArtifactInv'
  BY ComponentSteps, ArtifactsKept
<1>4. QED
  BY <1>1, <1>2, <1>3, PTL DEF PlatformSpec, OutputStandsOnItsSource

--------------------------------------------------------------------------------
(* The investigation of the navigator prototype *)

PrototypeClaims == UNION {Prototype!Range(Prototype!ClaimsOf[o]) : o \in Prototype!Range(Prototype!Fixture)}

PrototypeProofs == {"bank_rates", "other"}

PrototypeEvents ==
  {"INVESTIGATION_CREATED", "NAVIGATOR_COMMAND_EXECUTED", "LENS_CHANGED", "OPPORTUNITY_SELECTED",
   "CONTRADICTION_FOCUSED", "TRAIL_SAVED", "TIME_HORIZON_CHANGED"}

Payloads ==
  [version : Nat, lens : Prototype!Lenses, selected : {"ramenki", "zil", "khamovniki", "basmanniy"},
   claims : SUBSET PrototypeClaims, proofs : SUBSET PrototypeProofs, rail : {"OPPORTUNITY", "COVERAGE", "CLAIM"},
   saved : BOOLEAN, horizon : {"24M", "36M"}, trail : Seq(PrototypeEvents),
   focus : [opportunity : {"ramenki", "zil", "khamovniki", "basmanniy"}, claim : PrototypeClaims \cup {Prototype!NoneOf},
            evidence : PrototypeProofs \cup {Prototype!NoneOf}]]

\* What is in focus belongs to what is selected.
Coherent(i) ==
  /\ i.focus.opportunity = i.selected
  /\ i.claims = {i.focus.claim} \ {Prototype!NoneOf} /\ i.proofs = {i.focus.evidence} \ {Prototype!NoneOf}
  /\ i.focus.claim # Prototype!NoneOf =>
       /\ i.focus.claim \in Prototype!Range(Prototype!ClaimsOf[i.selected])
       /\ i.focus.evidence = Prototype!EvidenceOfClaim(i.focus.claim)
  /\ i.rail = "CLAIM" => i.focus.claim # Prototype!NoneOf

\* A command half executed: coherent, nothing added to the trail yet.
Halfway(step, payload) ==
  /\ step.payload \in Payloads /\ Coherent(step.payload) /\ step.event \in PrototypeEvents
  /\ step.payload.version = payload.version /\ step.payload.trail = payload.trail

Whole(i) == i \in Payloads /\ Coherent(i) /\ Len(i.trail) = i.version

LEMMA FirstContradiction ==
  ASSUME NEW o \in {"ramenki", "zil", "khamovniki", "basmanniy"}, Prototype!ContradictionsIn(o) # {}
  PROVE  LET claim == Prototype!ClaimsOf[o][Prototype!Min(Prototype!ContradictionsIn(o))]
         IN  /\ claim \in Prototype!Range(Prototype!ClaimsOf[o]) /\ claim \in PrototypeClaims
             /\ claim # Prototype!NoneOf
<1> DEFINE found == Prototype!ContradictionsIn(o)
           claim == Prototype!ClaimsOf[o][Prototype!Min(found)]
<1>1. DOMAIN Prototype!ClaimsOf[o] \subseteq Nat
  BY DEF Prototype!ClaimsOf
<1>2. found \subseteq Nat
  BY <1>1 DEF Prototype!ContradictionsIn
<1>3. Prototype!Min(found) \in found
  <2> HIDE DEF found
  <2>1. \E x \in found : \A y \in found : x =< y
    BY <1>2, Least DEF found
  <2>2. QED
    BY <2>1 DEF Prototype!Min
<1>4. Prototype!Min(found) \in DOMAIN Prototype!ClaimsOf[o] /\ claim \in Prototype!ContradictionsFixture
  BY <1>3 DEF Prototype!ContradictionsIn
<1>5. claim \in Prototype!Range(Prototype!ClaimsOf[o])
  BY <1>4, Zenon DEF Prototype!Range
<1>6. claim # Prototype!NoneOf
  BY <1>4 DEF Prototype!ContradictionsFixture, Prototype!NoneOf
<1>7. o \in Prototype!Range(Prototype!Fixture)
  <2>1. /\ Prototype!Fixture[1] = "ramenki" /\ Prototype!Fixture[2] = "zil" /\ Prototype!Fixture[3] = "khamovniki"
        /\ Prototype!Fixture[4] = "basmanniy" /\ DOMAIN Prototype!Fixture = 1..4
    BY DEF Prototype!Fixture
  <2>2. QED
    BY <2>1 DEF Prototype!Range
<1>8. claim \in PrototypeClaims
  BY <1>5, <1>7 DEF PrototypeClaims
<1>9. QED
  BY <1>5, <1>6, <1>8

LEMMA CommandsExecute ==
  ASSUME NEW payload, Whole(payload), NEW msg \in Prototype!Message
  PROVE  Whole(Prototype!Executed(payload, msg))
<1>1. ASSUME NEW step, Halfway(step, payload) PROVE Halfway(Prototype!ChangeLens(step, msg), payload)
  BY <1>1 DEF Prototype!ChangeLens, Prototype!Step, Prototype!Message, Halfway, Payloads, Coherent, PrototypeEvents
<1>2. ASSUME NEW step, Halfway(step, payload) PROVE Halfway(Prototype!SelectNamed(step, msg), payload)
  <2>1. msg.names \in {"ramenki", "zil", "khamovniki", "basmanniy"} \cup {Prototype!NoneOf}
    BY DEF Prototype!Message, Prototype!Range, Prototype!Fixture
  <2>2. CASE msg.names = Prototype!NoneOf
    BY <1>2, <2>2 DEF Prototype!SelectNamed
  <2>3. CASE msg.names # Prototype!NoneOf
    <3> DEFINE p == step.payload
               named == msg.names
               focus2 == Prototype!FocusOn(named, Prototype!NoneOf, Prototype!NoneOf)
               q == [p EXCEPT !.selected = named, !.claims = {}, !.proofs = {}, !.rail = "OPPORTUNITY", !.focus = focus2]
    <3>1. Prototype!SelectNamed(step, msg) = Prototype!Step(q, "OPPORTUNITY_SELECTED")
      BY <2>3 DEF Prototype!SelectNamed
    <3>2. p \in Payloads /\ p.version = payload.version /\ p.trail = payload.trail
      BY <1>2 DEF Halfway
    <3>3. /\ named \in {"ramenki", "zil", "khamovniki", "basmanniy"}
          /\ focus2 = [opportunity |-> named, claim |-> Prototype!NoneOf, evidence |-> Prototype!NoneOf]
      BY <2>1, <2>3 DEF Prototype!FocusOn
    <3> HIDE DEF p, named, focus2
    <3>4. q \in Payloads
      BY <3>2, <3>3 DEF Payloads
    <3>5. /\ q.selected = named /\ q.claims = {} /\ q.proofs = {} /\ q.rail = "OPPORTUNITY" /\ q.focus = focus2
          /\ q.version = p.version /\ q.trail = p.trail
      BY <3>2 DEF Payloads
    <3> HIDE DEF q
    <3>6. Coherent(q)
      BY <3>3, <3>5 DEF Coherent
    <3>7. QED
      BY <3>1, <3>2, <3>4, <3>5, <3>6 DEF Prototype!Step, Halfway, PrototypeEvents
  <2>4. QED
    BY <2>2, <2>3
<1>3. ASSUME NEW step, Halfway(step, payload) PROVE Halfway(Prototype!FocusContradiction(step, msg), payload)
  <2> DEFINE found == Prototype!ContradictionsIn(step.payload.selected)
             claim == Prototype!ClaimsOf[step.payload.selected][Prototype!Min(found)]
             proof == Prototype!EvidenceOfClaim(claim)
  <2>1. step.payload \in Payloads /\ step.payload.selected \in {"ramenki", "zil", "khamovniki", "basmanniy"}
    BY <1>3 DEF Halfway, Payloads
  <2>2. CASE ~msg.contradiction
    BY <1>3, <2>2 DEF Prototype!FocusContradiction
  <2>3. CASE msg.contradiction /\ found = {}
    BY <1>3, <2>3 DEF Prototype!FocusContradiction, Prototype!Step, Halfway, Payloads, Coherent
  <2>4. CASE msg.contradiction /\ found # {}
    <3>1. /\ claim \in Prototype!Range(Prototype!ClaimsOf[step.payload.selected]) /\ claim \in PrototypeClaims
          /\ claim # Prototype!NoneOf
      BY <2>1, <2>4, FirstContradiction
    <3>2. proof \in PrototypeProofs /\ proof # Prototype!NoneOf
      BY DEF Prototype!EvidenceOfClaim, PrototypeProofs, Prototype!NoneOf
    <3>3. Prototype!FocusContradiction(step, msg) =
            Prototype!Step([step.payload EXCEPT !.claims = {claim}, !.proofs = {proof}, !.rail = "CLAIM",
                              !.focus = Prototype!FocusOn(step.payload.selected, claim, proof)], "CONTRADICTION_FOCUSED")
      BY <2>4, Zenon DEF Prototype!FocusContradiction
    <3>4. proof = Prototype!EvidenceOfClaim(claim)
      OBVIOUS
    <3> HIDE DEF claim, proof
    <3> DEFINE p == step.payload
               focus2 == Prototype!FocusOn(p.selected, claim, proof)
               q == [p EXCEPT !.claims = {claim}, !.proofs = {proof}, !.rail = "CLAIM", !.focus = focus2]
    <3>5. p \in Payloads /\ p.version = payload.version /\ p.trail = payload.trail
      BY <1>3 DEF Halfway
    <3>6. focus2 = [opportunity |-> p.selected, claim |-> claim, evidence |-> proof]
      BY DEF Prototype!FocusOn
    <3>7. p.selected \in {"ramenki", "zil", "khamovniki", "basmanniy"}
          /\ claim \in Prototype!Range(Prototype!ClaimsOf[p.selected])
      BY <2>1, <3>1
    <3>8. Prototype!FocusContradiction(step, msg) = Prototype!Step(q, "CONTRADICTION_FOCUSED")
      BY <3>3
    <3> HIDE DEF p, focus2
    <3>9. q \in Payloads
      BY <3>1, <3>2, <3>5, <3>6, <3>7 DEF Payloads
    <3>10. /\ q.selected = p.selected /\ q.claims = {claim} /\ q.proofs = {proof} /\ q.focus = focus2
           /\ q.version = p.version /\ q.trail = p.trail
      BY <3>5 DEF Payloads
    <3> HIDE DEF q
    <3>11. Coherent(q)
      BY <3>1, <3>2, <3>4, <3>6, <3>7, <3>10 DEF Coherent
    <3>12. QED
      BY <3>5, <3>8, <3>9, <3>10, <3>11 DEF Prototype!Step, Halfway, PrototypeEvents
  <2>5. QED
    BY <2>2, <2>3, <2>4
<1>4. ASSUME NEW step, Halfway(step, payload) PROVE Halfway(Prototype!SaveTrail(step, msg), payload)
  BY ZenonT(40), <1>4 DEF Prototype!SaveTrail, Prototype!Step, Halfway, Payloads, Coherent, PrototypeEvents
<1>5. ASSUME NEW step, Halfway(step, payload) PROVE Halfway(Prototype!WidenHorizon(step, msg), payload)
  BY <1>5 DEF Prototype!WidenHorizon, Prototype!Step, Halfway, Payloads, Coherent, PrototypeEvents
<1> DEFINE asked == Prototype!Step(payload, "NAVIGATOR_COMMAND_EXECUTED")
           done == Prototype!WidenHorizon(Prototype!SaveTrail(Prototype!FocusContradiction(
                     Prototype!SelectNamed(Prototype!ChangeLens(asked, msg), msg), msg), msg), msg)
<1>6. Halfway(asked, payload)
  BY DEF Whole, Halfway, Prototype!Step, PrototypeEvents
<1>7. Halfway(done, payload)
  <2> HIDE DEF asked
  <2>1. Halfway(Prototype!ChangeLens(asked, msg), payload)
    BY <1>1, <1>6
  <2>2. Halfway(Prototype!SelectNamed(Prototype!ChangeLens(asked, msg), msg), payload)
    BY <1>2, <2>1
  <2>3. Halfway(Prototype!FocusContradiction(Prototype!SelectNamed(Prototype!ChangeLens(asked, msg), msg), msg), payload)
    BY <1>3, <2>2
  <2>4. Halfway(Prototype!SaveTrail(Prototype!FocusContradiction(
                  Prototype!SelectNamed(Prototype!ChangeLens(asked, msg), msg), msg), msg), payload)
    BY <1>4, <2>3
  <2>5. QED
    BY <1>5, <2>4
<1>8. Prototype!Executed(payload, msg) = [done.payload EXCEPT !.version = @ + 1, !.trail = Append(@, done.event)]
  BY Zenon DEF Prototype!Executed
<1> HIDE DEF done
<1>9. /\ done.payload \in Payloads /\ Coherent(done.payload) /\ done.event \in PrototypeEvents
      /\ done.payload.trail \in Seq(PrototypeEvents) /\ done.payload.version \in Nat
      /\ Len(done.payload.trail) = done.payload.version
  BY <1>7 DEF Halfway, Payloads, Whole
<1>10. /\ Append(done.payload.trail, done.event) \in Seq(PrototypeEvents)
       /\ Len(Append(done.payload.trail, done.event)) = done.payload.version + 1
  BY <1>9, AppendProperties
<1> DEFINE trail == Append(done.payload.trail, done.event)
<1> HIDE DEF trail
<1>11. Prototype!Executed(payload, msg) = [done.payload EXCEPT !.version = done.payload.version + 1, !.trail = trail]
  BY <1>8 DEF trail
<1>12. trail \in Seq(PrototypeEvents) /\ Len(trail) = done.payload.version + 1
  BY <1>10 DEF trail
<1> DEFINE p == done.payload
           q == [p EXCEPT !.version = p.version + 1, !.trail = trail]
<1>13. Prototype!Executed(payload, msg) = q /\ p \in Payloads /\ Coherent(p)
  BY <1>9, <1>11
<1>14. trail \in Seq(PrototypeEvents) /\ Len(trail) = p.version + 1 /\ p.version \in Nat
  BY <1>9, <1>12
<1> HIDE DEF p
<1>15. q \in Payloads
  <2> DEFINE next == p.version + 1
             trails == Seq(PrototypeEvents)
  <2>1. next \in Nat /\ trail \in trails
    BY <1>14
  <2> HIDE DEF next
  <2>2. p \in Payloads /\ q = [p EXCEPT !.version = next, !.trail = trail]
    BY <1>13 DEF next
  <2> HIDE DEF q
  <2>3. QED
    BY <2>1, <2>2 DEF Payloads
<1>16. /\ q.version = p.version + 1 /\ q.trail = trail /\ q.focus = p.focus /\ q.selected = p.selected
       /\ q.claims = p.claims /\ q.proofs = p.proofs /\ q.rail = p.rail
  BY <1>13 DEF Payloads
<1> HIDE DEF q
<1>17. Coherent(q)
  BY <1>13, <1>16 DEF Coherent
<1>18. QED
  BY <1>13, <1>14, <1>15, <1>16, <1>17 DEF Whole

\* What the answer to a research run shows.
DossierWhole ==
  dossierShown.asked =>
    /\ Prototype!Range(dossierShown.sections) = dossierShown.evidence
    /\ Prototype!PrivateSource \in dossierShown.evidence <=> dossierShown.private
    /\ Prototype!PrivateSource \notin dossierShown.provisional \cup {c.evidence : c \in dossierShown.candidates}

LEMMA ResearchShowsAll ==
  ASSUME NEW private \in BOOLEAN, Prototype!Research(private)
  PROVE  DossierWhole'
<1> DEFINE official == Prototype!OfficialSource
           browser == Prototype!BrowserSource
           unknown == Prototype!UnknownSource
           note == Prototype!PrivateSource
<1>1. /\ dossierShown'.private = private
      /\ dossierShown'.evidence = Prototype!EvidenceFound(private)
      /\ dossierShown'.provisional = Prototype!Provisional(Prototype!EvidenceFound(private))
      /\ dossierShown'.sections = Prototype!Sections(private)
      /\ dossierShown'.candidates = Prototype!CandidatesFound
  BY DEF Prototype!Research
<1>2. official.domain # "TENANT_PRIVATE" /\ browser.domain # "TENANT_PRIVATE" /\ unknown.domain # "TENANT_PRIVATE"
      /\ note.domain = "TENANT_PRIVATE"
  BY DEF Prototype!OfficialSource, Prototype!BrowserSource, Prototype!UnknownSource, Prototype!PrivateSource
<1> HIDE DEF official, browser, unknown, note
<1>3. note # official /\ note # browser /\ note # unknown
  BY <1>2
<1>4. Prototype!EvidenceFound(private) = IF private THEN {official, browser, unknown, note} ELSE {official, browser, unknown}
  BY DEF Prototype!EvidenceFound, official, browser, unknown, note
<1>5. Prototype!Range(Prototype!Sections(private)) = Prototype!EvidenceFound(private)
  <2>1. CASE private
    <3> DEFINE shown == <<official, browser, unknown, note>>
    <3>1. Prototype!Sections(private) = shown
      BY <2>1 DEF Prototype!Sections, official, browser, unknown, note
    <3>2. DOMAIN shown = 1..4 /\ shown[1] = official /\ shown[2] = browser /\ shown[3] = unknown /\ shown[4] = note
      OBVIOUS
    <3> HIDE DEF shown
    <3>3. Prototype!Range(shown) = {official, browser, unknown, note}
      BY <3>2 DEF Prototype!Range
    <3>4. QED
      BY <1>4, <2>1, <3>1, <3>3
  <2>2. CASE ~private
    <3>1. Prototype!Sections(private) = <<official, browser, unknown>>
      BY <2>2 DEF Prototype!Sections, official, browser, unknown
    <3>2. QED
      BY <1>4, <2>2, <3>1 DEF Prototype!Range
  <2>3. QED
    BY <2>1, <2>2
<1>6. note \notin Prototype!Provisional(Prototype!EvidenceFound(private))
  BY <1>2 DEF Prototype!Provisional
<1>7. note \notin {c.evidence : c \in Prototype!CandidatesFound}
  BY <1>3 DEF Prototype!CandidatesFound, official, browser
<1>8. note \in Prototype!EvidenceFound(private) <=> private
  BY <1>3, <1>4
<1>9. QED
  BY <1>1, <1>5, <1>6, <1>7, <1>8 DEF DossierWhole, note

\* However commands are combined and follow each other, what is in focus belongs to what is
\* selected and the trail has one event per version; and a dossier shows all its evidence,
\* the private note only where it was authorised.
THEOREM InvestigationStaysTogether == PlatformSpec => []InvestigationHoldsTogether
<1> DEFINE Inv == Whole(investigation) /\ DossierWhole
<1>1. Whole(Prototype!InitialPayload)
  <2>1. <<"INVESTIGATION_CREATED">> \in Seq(PrototypeEvents) /\ Len(<<"INVESTIGATION_CREATED">>) = 1
    BY DEF PrototypeEvents
  <2>2. QED
    BY <2>1 DEF Prototype!InitialPayload, Prototype!FocusOn, Prototype!NoneOf, Prototype!Lenses, Whole, Payloads, Coherent
<1>2. PlatformInit => Inv
  BY <1>1 DEF PlatformInit, Prototype!PrototypeInit, Prototype!NoDossier, DossierWhole
<1>3. ASSUME Inv, [Prototype!PrototypeNext]_prototypeVars PROVE Inv'
  <2>1. ASSUME NEW msg \in Prototype!Message, NEW payload \in {investigation, Prototype!InitialPayload},
               Prototype!RunCommand(payload, msg)
        PROVE  Inv'
    <3>1. Whole(payload)
      BY <1>1, <1>3
    <3>2. Whole(Prototype!Executed(payload, msg))
      BY <3>1, CommandsExecute
    <3>3. QED
      BY <1>3, <2>1, <3>2 DEF Prototype!RunCommand, DossierWhole
  <2>2. CASE Prototype!Reload
    BY <1>1, <2>2 DEF Prototype!Reload, Prototype!NoDossier, DossierWhole
  <2>3. ASSUME NEW private \in BOOLEAN, Prototype!Research(private) PROVE Inv'
    <3>1. DossierWhole' /\ UNCHANGED investigation
      BY <2>3, ResearchShowsAll DEF Prototype!Research
    <3>2. QED
      BY <1>3, <3>1
  <2>4. CASE UNCHANGED prototypeVars
    BY <1>3, <2>4 DEF prototypeVars, DossierWhole
  <2>5. QED
    BY <1>3, <2>1, <2>2, <2>3, <2>4 DEF Prototype!PrototypeNext
<1>4. Inv => InvestigationHoldsTogether
  BY DEF Whole, Coherent, DossierWhole, InvestigationHoldsTogether, Prototype!InvestigationHoldsTogether
<1>5. Inv /\ [PlatformNext]_platformVars => Inv'
  BY <1>3, ComponentSteps
<1>6. QED
  BY <1>2, <1>4, <1>5, PTL DEF PlatformSpec

--------------------------------------------------------------------------------
(* AXENT conversations and the client that checks them *)

AxentMessages ==
  [request : {"m1", "system", "user", "assistant"}, content : {"x", "y", "context", "conflict", "question", "answer"}]

RowFields == {"owner", "request", "title", "until", "state", "messages"}

\* A store: rows are numbered as they are made, a request has one row, a row one receipt
\* per request, and a deleted row leaves nothing.
Rows(db) ==
  /\ db.made \in Nat /\ db.made <= MaxConversations /\ DOMAIN db.convs = Dialogue!Conversations
  /\ \A c \in Dialogue!Conversations : DOMAIN db.convs[c] = RowFields

Numbered(db) ==
  \A c \in Dialogue!Conversations : c > db.made \/ db.convs[c].state = "ABSENT" => db.convs[c] = Dialogue!Absent

OneRow(db) ==
  /\ \A c \in Dialogue!Conversations : db.convs[c].state # "ABSENT" => db.convs[c].request # "NONE"
  /\ \A c, d \in Dialogue!Conversations :
       db.convs[c].state # "ABSENT" /\ db.convs[c].request = db.convs[d].request => c = d

Receipts(db) ==
  \A c \in Dialogue!Conversations :
    LET m == db.convs[c].messages
    IN  m \in Seq(AxentMessages) /\ \A i, j \in DOMAIN m : m[i].request = m[j].request => i = j

Fields(db) == db = [made |-> db.made, convs |-> db.convs, holds |-> db.holds, operational |-> db.operational]

StoreOK(db) == Fields(db) /\ Rows(db) /\ Numbered(db) /\ OneRow(db) /\ Receipts(db)

\* One row of the store is rewritten.
Rewrites(db, db2, c, new) ==
  /\ Fields(db2) /\ db2.holds = db.holds /\ db2.operational = db.operational
  /\ DOMAIN db2.convs = Dialogue!Conversations
  /\ \A d \in Dialogue!Conversations : db2.convs[d] = IF d = c THEN new ELSE db.convs[d]

NewRow(subject, request, title, until) ==
  [owner |-> subject, request |-> request, title |-> title, until |-> until, state |-> "ACTIVE", messages |-> <<>>]

Known(db, request) == {c \in Dialogue!Conversations : db.convs[c].request = request}

Same(db, subject, request, title) ==
  {c \in Known(db, request) : db.convs[c].owner = subject /\ db.convs[c].title = title}

LEMMA FourFields ==
  ASSUME NEW d, DOMAIN d = {"made", "convs", "holds", "operational"}, d = [x \in DOMAIN d |-> d[x]],
         NEW made, NEW convs, NEW holds, NEW operational,
         d.made = made, d.convs = convs, d.holds = holds, d.operational = operational
  PROVE  d = [made |-> made, convs |-> convs, holds |-> holds, operational |-> operational]
OBVIOUS

LEMMA MadeAndRows ==
  ASSUME NEW db, Fields(db), NEW made, NEW convs
  PROVE  [db EXCEPT !.made = made, !.convs = convs] = [made |-> made, convs |-> convs, holds |-> db.holds, operational |-> db.operational]
<1> DEFINE d == [db EXCEPT !.made = made, !.convs = convs]
<1>1. DOMAIN db = {"made", "convs", "holds", "operational"}
  BY DEF Fields
<1>2. d.made = made /\ d.convs = convs /\ d.holds = db.holds /\ d.operational = db.operational
  BY <1>1
<1>3. DOMAIN d = {"made", "convs", "holds", "operational"} /\ d = [x \in DOMAIN d |-> d[x]]
  BY <1>1
<1> HIDE DEF d
<1>4. d = [made |-> made, convs |-> convs, holds |-> db.holds, operational |-> db.operational]
  BY <1>2, <1>3, FourFields
<1>5. QED
  BY <1>4 DEF d

LEMMA RowsAlone ==
  ASSUME NEW db, Fields(db), NEW convs
  PROVE  [db EXCEPT !.convs = convs] = [made |-> db.made, convs |-> convs, holds |-> db.holds, operational |-> db.operational]
<1> DEFINE d == [db EXCEPT !.convs = convs]
<1>1. DOMAIN db = {"made", "convs", "holds", "operational"}
  BY DEF Fields
<1>2. d.made = db.made /\ d.convs = convs /\ d.holds = db.holds /\ d.operational = db.operational
  BY <1>1
<1>3. DOMAIN d = {"made", "convs", "holds", "operational"} /\ d = [x \in DOMAIN d |-> d[x]]
  BY <1>1
<1> HIDE DEF d
<1>4. d = [made |-> db.made, convs |-> convs, holds |-> db.holds, operational |-> db.operational]
  BY <1>2, <1>3, FourFields
<1>5. QED
  BY <1>4 DEF d

LEMMA HoldsAlone ==
  ASSUME NEW db, Fields(db), NEW holds
  PROVE  [db EXCEPT !.holds = holds] = [made |-> db.made, convs |-> db.convs, holds |-> holds, operational |-> db.operational]
<1> DEFINE d == [db EXCEPT !.holds = holds]
<1>1. DOMAIN db = {"made", "convs", "holds", "operational"}
  BY DEF Fields
<1>2. d.made = db.made /\ d.convs = db.convs /\ d.holds = holds /\ d.operational = db.operational
  BY <1>1
<1>3. DOMAIN d = {"made", "convs", "holds", "operational"} /\ d = [x \in DOMAIN d |-> d[x]]
  BY <1>1
<1> HIDE DEF d
<1>4. d = [made |-> db.made, convs |-> db.convs, holds |-> holds, operational |-> db.operational]
  BY <1>2, <1>3, FourFields
<1>5. QED
  BY <1>4 DEF d

LEMMA RowsAndHolds ==
  ASSUME NEW db, Fields(db), NEW convs, NEW holds
  PROVE  [db EXCEPT !.convs = convs, !.holds = holds] = [made |-> db.made, convs |-> convs, holds |-> holds, operational |-> db.operational]
<1> DEFINE d == [db EXCEPT !.convs = convs, !.holds = holds]
<1>1. DOMAIN db = {"made", "convs", "holds", "operational"}
  BY DEF Fields
<1>2. d.made = db.made /\ d.convs = convs /\ d.holds = holds /\ d.operational = db.operational
  BY <1>1
<1>3. DOMAIN d = {"made", "convs", "holds", "operational"} /\ d = [x \in DOMAIN d |-> d[x]]
  BY <1>1
<1> HIDE DEF d
<1>4. d = [made |-> db.made, convs |-> convs, holds |-> holds, operational |-> db.operational]
  BY <1>2, <1>3, FourFields
<1>5. QED
  BY <1>4 DEF d

LEMMA SwitchAlone ==
  ASSUME NEW db, Fields(db), NEW operational
  PROVE  [db EXCEPT !.operational = operational] = [made |-> db.made, convs |-> db.convs, holds |-> db.holds, operational |-> operational]
<1> DEFINE d == [db EXCEPT !.operational = operational]
<1>1. DOMAIN db = {"made", "convs", "holds", "operational"}
  BY DEF Fields
<1>2. d.made = db.made /\ d.convs = db.convs /\ d.holds = db.holds /\ d.operational = operational
  BY <1>1
<1>3. DOMAIN d = {"made", "convs", "holds", "operational"} /\ d = [x \in DOMAIN d |-> d[x]]
  BY <1>1
<1> HIDE DEF d
<1>4. d = [made |-> db.made, convs |-> db.convs, holds |-> db.holds, operational |-> operational]
  BY <1>2, <1>3, FourFields
<1>5. QED
  BY <1>4 DEF d

\* Creation answers a known request from its row, and otherwise makes the next row.
LEMMA Creation ==
  ASSUME NEW db, StoreOK(db), NEW subject, NEW request, request # "NONE", NEW title, NEW until
  PROVE  LET r == Dialogue!CreateConversation(db, subject, request, title, until)
             same == Same(db, subject, request, title)
         IN  /\ db.operational /\ Known(db, request) # {} =>
                  /\ r.db = db /\ r.status = IF same = {} THEN 409 ELSE 201
                  /\ same # {} => r.conv \in same
             /\ r.status = 201 /\ Known(db, request) = {} =>
                  /\ r.conv = db.made + 1 /\ r.conv \in Dialogue!Conversations /\ r.db.made = r.conv
                  /\ Rewrites(db, r.db, r.conv, NewRow(subject, request, title, until)) /\ StoreOK(r.db)
             /\ r.status = 201 => Known(db, request) = {} \/ r.db = db
             /\ db.operational /\ Known(db, request) = {} /\ db.made < MaxConversations => r.status = 201
<1> DEFINE r == Dialogue!CreateConversation(db, subject, request, title, until)
           same == Same(db, subject, request, title)
           new == db.made + 1
           row == NewRow(subject, request, title, until)
           convs2 == [db.convs EXCEPT ![new] = row]
           db2 == [db EXCEPT !.made = new, !.convs = convs2]
<1>1. /\ ~db.operational => r.status = 503
      /\ db.operational /\ Known(db, request) # {} =>
           /\ r.db = db /\ r.status = IF same = {} THEN 409 ELSE 201
           /\ same # {} => r.conv = CHOOSE c \in same : TRUE
      /\ db.operational /\ Known(db, request) = {} /\ new > MaxConversations => r.status = 503
      /\ db.operational /\ Known(db, request) = {} /\ ~(new > MaxConversations) => r = [status |-> 201, db |-> db2, conv |-> new]
  BY DEF Dialogue!CreateConversation, Dialogue!Result, Known, Same, NewRow
<1>2. ASSUME db.operational, Known(db, request) = {}, ~(new > MaxConversations)
      PROVE  /\ new \in Dialogue!Conversations /\ db2.made = new /\ Rewrites(db, db2, new, row) /\ StoreOK(db2)
             /\ new = db.made + 1
  <2>1. new \in Dialogue!Conversations /\ new \in Nat /\ new <= MaxConversations /\ new > db.made
    BY <1>2, ConversationsAssumption DEF StoreOK, Rows, Dialogue!Conversations
  <2>2. DOMAIN convs2 = Dialogue!Conversations /\ \A d \in Dialogue!Conversations : convs2[d] = IF d = new THEN row ELSE db.convs[d]
    BY <2>1 DEF StoreOK, Rows
  <2> HIDE DEF convs2
  <2>3. db2 = [made |-> new, convs |-> convs2, holds |-> db.holds, operational |-> db.operational]
    <3>1. Fields(db)
      BY DEF StoreOK
    <3>2. [db EXCEPT !.made = new, !.convs = convs2]
            = [made |-> new, convs |-> convs2, holds |-> db.holds, operational |-> db.operational]
      BY ONLY <3>1, MadeAndRows
    <3>3. QED
      BY <3>2
  <2> HIDE DEF db2
  <2>4. db2.made = new /\ db2.convs = convs2 /\ Rewrites(db, db2, new, row)
    BY <2>2, <2>3 DEF Rewrites, Fields
  <2>5. row.state = "ACTIVE" /\ row.request = request /\ row.messages = <<>> /\ DOMAIN row = RowFields
    BY DEF NewRow, RowFields
  <2> HIDE DEF row
  <2>6. Rows(db2)
    BY <2>1, <2>2, <2>4, <2>5 DEF StoreOK, Rows
  <2>7. Numbered(db2)
    BY <2>1, <2>2, <2>4, <2>5 DEF StoreOK, Numbered, Rows, Dialogue!Conversations
  <2>8. OneRow(db2)
    BY <1>2, <2>2, <2>4, <2>5 DEF StoreOK, OneRow, Known
  <2>9. Receipts(db2)
    <3>1. ASSUME NEW c \in Dialogue!Conversations
          PROVE  LET m == db2.convs[c].messages
                 IN  /\ m \in Seq(AxentMessages)
                     /\ \A i, j \in DOMAIN m : m[i].request = m[j].request => i = j
      <4>1. CASE c = new
        <5>1. db2.convs[c].messages = <<>> /\ DOMAIN <<>> = {}
          BY <2>2, <2>4, <2>5, <4>1
        <5>2. QED
          BY <5>1, EmptySeq
      <4>2. CASE c # new
        <5>1. db2.convs[c] = db.convs[c]
          BY <2>2, <2>4, <4>2
        <5>2. QED
          BY <5>1 DEF StoreOK, Receipts
      <4>3. QED
        BY <4>1, <4>2
    <3>2. QED
      BY <3>1 DEF Receipts
  <2>10. QED
    BY <2>1, <2>3, <2>4, <2>6, <2>7, <2>8, <2>9 DEF StoreOK, Fields
<1>3. db.made < MaxConversations => ~(new > MaxConversations)
  BY ConversationsAssumption DEF StoreOK, Rows
<1>4. r.status = 201 => db.operational
  BY <1>1
<1> HIDE DEF r, same, new, row, db2
<1>5. QED
  BY SMTT(30), <1>1, <1>2, <1>3, <1>4 DEF r, same, row

\* A row that is there is rewritten under its request.
LEMMA RowRewritten ==
  ASSUME NEW db, StoreOK(db), NEW c \in Dialogue!Conversations, db.convs[c].state # "ABSENT",
         NEW new, DOMAIN new = RowFields, new.request = db.convs[c].request, new.state # "ABSENT",
         new.messages \in Seq(AxentMessages),
         \A i, j \in DOMAIN new.messages : new.messages[i].request = new.messages[j].request => i = j,
         NEW db2, Rewrites(db, db2, c, new), db2.made = db.made
  PROVE  StoreOK(db2)
<1>1. /\ Fields(db2) /\ DOMAIN db2.convs = Dialogue!Conversations
      /\ \A d \in Dialogue!Conversations : db2.convs[d] = IF d = c THEN new ELSE db.convs[d]
  BY DEF Rewrites
<1>2. ~(c > db.made)
  BY DEF StoreOK, Numbered, Dialogue!Absent
<1>3. Rows(db2)
  BY <1>1 DEF StoreOK, Rows
<1>4. Numbered(db2)
  BY <1>1, <1>2 DEF StoreOK, Numbered
<1>5. OneRow(db2)
  BY <1>1 DEF StoreOK, OneRow
<1>6. Receipts(db2)
  BY <1>1 DEF StoreOK, Receipts
<1>7. QED
  BY <1>1, <1>3, <1>4, <1>5, <1>6 DEF StoreOK

AppendedRow(db, c, message) == [db.convs[c] EXCEPT !.messages = Append(db.convs[c].messages, message)]

Receipted(db, c, request) == \E i \in DOMAIN db.convs[c].messages : db.convs[c].messages[i].request = request

Appended(db, db2, c, message) ==
  /\ Rewrites(db, db2, c, AppendedRow(db, c, message)) /\ db2.made = db.made /\ StoreOK(db2)
  /\ ~Receipted(db, c, message.request)
  /\ db.convs[c].state # "ABSENT"

\* A message is answered from its receipt, and otherwise appended.
LEMMA Appending ==
  ASSUME NEW db, StoreOK(db), NEW subject, NEW c \in Dialogue!Conversations, NEW message \in AxentMessages
  PROVE  LET r == Dialogue!AppendMessage(db, subject, c, message)
             m == db.convs[c].messages
             appended == Appended(db, r.db, c, message)
         IN  /\ r.status = 201 => appended \/ (r.db = db /\ \E i \in DOMAIN m : m[i] = message)
             /\ db.operational /\ Dialogue!Owned(db, subject, c) /\ db.convs[c].state = "ACTIVE" =>
                  IF Receipted(db, c, message.request)
                  THEN /\ r.db = db
                       /\ r.status = IF \A i \in DOMAIN m : m[i].request = message.request => m[i] = message THEN 201 ELSE 409
                  ELSE r.status = 201 /\ appended
<1> DEFINE r == Dialogue!AppendMessage(db, subject, c, message)
           m == db.convs[c].messages
           m2 == Append(m, message)
           row == AppendedRow(db, c, message)
           convs2 == [db.convs EXCEPT ![c] = row]
           db2 == [db EXCEPT !.convs = convs2]
           known == Dialogue!Receipt(db, c, message.request)
<1>1. /\ ~db.operational => r.status = 503
      /\ ~Dialogue!Owned(db, subject, c) \/ db.convs[c].state # "ACTIVE" => r.status \in {404, 503}
      /\ db.operational /\ Dialogue!Owned(db, subject, c) /\ db.convs[c].state = "ACTIVE" /\ known # {} =>
           r.db = db /\ r.status = IF \A i \in known : m[i] = message THEN 201 ELSE 409
  BY DEF Dialogue!AppendMessage, Dialogue!ReceiptOf, Dialogue!Result
<1>2. db.operational /\ Dialogue!Owned(db, subject, c) /\ db.convs[c].state = "ACTIVE" /\ known = {} =>
        r.status = 201 /\ r.db = [db EXCEPT !.convs[c].messages = Append(@, message)]
  BY DEF Dialogue!AppendMessage, Dialogue!ReceiptOf, Dialogue!Result
<1>3. [db EXCEPT !.convs[c].messages = Append(@, message)] = db2
  BY DEF AppendedRow
<1>4. known = {i \in DOMAIN m : m[i].request = message.request} /\ (known # {} <=> Receipted(db, c, message.request))
  BY DEF Dialogue!Receipt, Receipted
<1>5. ASSUME db.convs[c].state = "ACTIVE", known = {}
      PROVE  Rewrites(db, db2, c, row) /\ db2.made = db.made /\ StoreOK(db2)
  <2>1. DOMAIN db.convs = Dialogue!Conversations /\ DOMAIN db.convs[c] = RowFields /\ Fields(db)
    BY DEF StoreOK, Rows
  <2>2. DOMAIN convs2 = Dialogue!Conversations /\ \A d \in Dialogue!Conversations : convs2[d] = IF d = c THEN row ELSE db.convs[d]
    BY <2>1
  <2>3. DOMAIN row = RowFields /\ row.request = db.convs[c].request /\ row.state = "ACTIVE" /\ row.messages = m2
    BY <1>5, <2>1 DEF AppendedRow, RowFields
  <2> HIDE DEF convs2, row
  <2>4. db2 = [made |-> db.made, convs |-> convs2, holds |-> db.holds, operational |-> db.operational]
    BY <2>1, RowsAlone
  <2> HIDE DEF db2
  <2>5. Rewrites(db, db2, c, row) /\ db2.made = db.made
    BY <2>2, <2>4 DEF Rewrites, Fields
  <2>6. m \in Seq(AxentMessages) /\ \A i, j \in DOMAIN m : m[i].request = m[j].request => i = j
    BY DEF StoreOK, Receipts
  <2>7. ~\E i \in DOMAIN m : m[i].request = message.request
    BY <1>4, <1>5
  <2> HIDE DEF m, m2, known
  <2>8. /\ m2 \in Seq(AxentMessages) /\ Len(m) \in Nat /\ DOMAIN m = 1..Len(m) /\ DOMAIN m2 = 1..(Len(m) + 1)
        /\ \A i \in 1..Len(m) : m2[i] = m[i]
        /\ m2[Len(m) + 1] = message
    <3>1. /\ Len(m) \in Nat /\ DOMAIN m = 1..Len(m)
      BY <2>6, LenProperties
    <3>2. /\ m2 \in Seq(AxentMessages) /\ Len(m2) = Len(m) + 1
          /\ \A i \in 1..Len(m) : m2[i] = m[i]
          /\ m2[Len(m) + 1] = message
      BY <2>6, AppendProperties DEF m2
    <3>3. DOMAIN m2 = 1..Len(m2)
      BY <3>2, LenProperties
    <3>4. QED
      BY <3>1, <3>2, <3>3
  <2>9. \A i, j \in DOMAIN m2 : m2[i].request = m2[j].request => i = j
    BY <2>6, <2>7, <2>8
  <2>10. db.convs[c].state # "ABSENT" /\ row.state # "ABSENT"
    BY <1>5, <2>3
  <2>11. StoreOK(db2)
    BY <2>3, <2>5, <2>8, <2>9, <2>10, RowRewritten
  <2>12. QED
    BY <2>5, <2>11
<1> HIDE DEF r, db2, row, known
<1>6. QED
  BY <1>1, <1>2, <1>3, <1>4, <1>5 DEF r, row, Appended

AskedRow(db, c, date) == [db.convs[c] EXCEPT !.state = "DELETION_REQUESTED", !.until = date]

\* A deletion is asked for, a hold placed or released; neither makes nor loses a row.
LEMMA DeletionAsked ==
  ASSUME NEW db, StoreOK(db), NEW subject, NEW c \in Dialogue!Conversations, NEW date,
         Dialogue!Owned(db, subject, c)
  PROVE  LET r == Dialogue!RequestDeletion(db, subject, c, date)
         IN  /\ r.status = 202 /\ r.db.made = db.made /\ StoreOK(r.db)
             /\ Rewrites(db, r.db, c, AskedRow(db, c, date))
<1> DEFINE r == Dialogue!RequestDeletion(db, subject, c, date)
           row == AskedRow(db, c, date)
           convs2 == [db.convs EXCEPT ![c] = row]
           db2 == [db EXCEPT !.convs = convs2]
<1>1. r.status = 202 /\ r.db = [db EXCEPT !.convs[c].state = "DELETION_REQUESTED", !.convs[c].until = date]
  BY DEF Dialogue!RequestDeletion, Dialogue!Result
<1>2. DOMAIN db.convs = Dialogue!Conversations /\ DOMAIN db.convs[c] = RowFields /\ Fields(db)
      /\ DOMAIN db = {"made", "convs", "holds", "operational"}
  BY DEF StoreOK, Rows, Fields
<1>3. [db EXCEPT !.convs[c].state = "DELETION_REQUESTED", !.convs[c].until = date] = db2
  BY <1>2 DEF AskedRow
<1>4. DOMAIN convs2 = Dialogue!Conversations /\ \A d \in Dialogue!Conversations : convs2[d] = IF d = c THEN row ELSE db.convs[d]
  BY <1>2
<1>5. /\ DOMAIN row = RowFields /\ row.request = db.convs[c].request /\ row.state # "ABSENT"
      /\ row.messages = db.convs[c].messages
  BY <1>2 DEF RowFields, AskedRow
<1> HIDE DEF convs2, row
<1>6. db2 = [made |-> db.made, convs |-> convs2, holds |-> db.holds, operational |-> db.operational]
  BY <1>2, RowsAlone
<1> HIDE DEF db2
<1>7. Rewrites(db, db2, c, row) /\ db2.made = db.made
  BY <1>4, <1>6 DEF Rewrites, Fields
<1>8. /\ db.convs[c].state # "ABSENT" /\ row.messages \in Seq(AxentMessages)
      /\ \A i, j \in DOMAIN row.messages : row.messages[i].request = row.messages[j].request => i = j
  BY <1>5 DEF Dialogue!Owned, StoreOK, Receipts
<1>9. StoreOK(db2)
  BY <1>5, <1>7, <1>8, RowRewritten
<1>10. QED
  BY <1>1, <1>3, <1>7, <1>9 DEF row

LEMMA HoldsChange ==
  ASSUME NEW db, StoreOK(db), NEW holds
  PROVE  LET db2 == [db EXCEPT !.holds = holds]
         IN  /\ db2 = [made |-> db.made, convs |-> db.convs, holds |-> holds, operational |-> db.operational]
             /\ db2.made = db.made /\ db2.convs = db.convs /\ db2.holds = holds /\ db2.operational = db.operational
             /\ StoreOK(db2)
<1> DEFINE db2 == [db EXCEPT !.holds = holds]
<1>1. db2 = [made |-> db.made, convs |-> db.convs, holds |-> holds, operational |-> db.operational]
  BY HoldsAlone DEF StoreOK
<1> HIDE DEF db2
<1>2. db2.made = db.made /\ db2.convs = db.convs /\ db2.holds = holds /\ db2.operational = db.operational
  BY <1>1
<1>3. StoreOK(db2)
  BY <1>1, <1>2 DEF StoreOK, Fields, Rows, Numbered, OneRow, Receipts
<1>4. QED
  BY <1>1, <1>2, <1>3 DEF db2

LEMMA Deletion ==
  ASSUME NEW db, StoreOK(db), NEW dropped \in SUBSET Dialogue!Conversations
  PROVE  LET db2 == Dialogue!Delete(db, dropped)
         IN  /\ StoreOK(db2) /\ db2.made = db.made /\ db2.holds = db.holds \ dropped /\ db2.operational = db.operational
             /\ \A d \in Dialogue!Conversations : db2.convs[d] = IF d \in dropped THEN Dialogue!Absent ELSE db.convs[d]
<1> DEFINE convs2 == [d \in Dialogue!Conversations |-> IF d \in dropped THEN Dialogue!Absent ELSE db.convs[d]]
           holds2 == db.holds \ dropped
           db2 == [db EXCEPT !.convs = convs2, !.holds = holds2]
<1>1. Dialogue!Delete(db, dropped) = db2
  BY DEF Dialogue!Delete
<1>2. DOMAIN convs2 = Dialogue!Conversations
      /\ \A d \in Dialogue!Conversations : convs2[d] = IF d \in dropped THEN Dialogue!Absent ELSE db.convs[d]
  OBVIOUS
<1> HIDE DEF convs2, holds2
<1>3. db2 = [made |-> db.made, convs |-> convs2, holds |-> holds2, operational |-> db.operational]
  <2>1. Fields(db)
    BY DEF StoreOK
  <2>2. QED
    BY ONLY <2>1, RowsAndHolds DEF db2
<1> HIDE DEF db2
<1>4. db2.made = db.made /\ db2.convs = convs2 /\ db2.holds = holds2 /\ db2.operational = db.operational
  BY <1>3
<1>5. /\ Dialogue!Absent.state = "ABSENT" /\ Dialogue!Absent.messages = <<>> /\ DOMAIN Dialogue!Absent = RowFields
      /\ Dialogue!Absent.request = "NONE" /\ DOMAIN <<>> = {}
  BY DEF Dialogue!Absent, RowFields
<1>6. Rows(db2)
  BY <1>2, <1>4, <1>5 DEF StoreOK, Rows
<1>7. Numbered(db2)
  BY <1>2, <1>4 DEF StoreOK, Numbered
<1>8. OneRow(db2)
  BY <1>2, <1>4, <1>5 DEF StoreOK, OneRow
<1>9. Receipts(db2)
  <2>1. ASSUME NEW c \in Dialogue!Conversations
        PROVE  LET m == db2.convs[c].messages
               IN  m \in Seq(AxentMessages) /\ \A i, j \in DOMAIN m : m[i].request = m[j].request => i = j
    <3>1. CASE c \in dropped
      <4>1. db2.convs[c].messages = <<>>
        BY <1>2, <1>4, <1>5, <3>1
      <4>2. QED
        BY <1>5, <4>1, EmptySeq
    <3>2. CASE c \notin dropped
      BY <1>2, <1>4, <3>2 DEF StoreOK, Receipts
    <3>3. QED
      BY <3>1, <3>2
  <2>2. QED
    BY <2>1 DEF Receipts
<1>10. StoreOK(db2)
  BY <1>3, <1>4, <1>6, <1>7, <1>8, <1>9 DEF StoreOK, Fields
<1>11. QED
  BY <1>1, <1>2, <1>4, <1>10 DEF holds2

LEMMA NineSteps ==
  ASSUME NEW S, NEW a1 \in S, NEW a2 \in S, NEW a3 \in S, NEW a4 \in S, NEW a5 \in S, NEW a6 \in S, NEW a7 \in S, NEW a8 \in S,
         NEW a9 \in S
  PROVE  <<a1, a2, a3, a4, a5, a6, a7, a8, a9>> \in Seq(S) /\ Len(<<a1, a2, a3, a4, a5, a6, a7, a8, a9>>) = 9
OBVIOUS

LEMMA EightSteps ==
  ASSUME NEW S, NEW a1 \in S, NEW a2 \in S, NEW a3 \in S, NEW a4 \in S, NEW a5 \in S, NEW a6 \in S, NEW a7 \in S, NEW a8 \in S
  PROVE  <<a1, a2, a3, a4, a5, a6, a7, a8>> \in Seq(S) /\ Len(<<a1, a2, a3, a4, a5, a6, a7, a8>>) = 8
OBVIOUS

\* The script is its two halves, one after the other.
LEMMA ScriptHalves ==
  ASSUME NEW db, NEW c, NEW day
  PROVE  /\ \A n \in 1..9 : Dialogue!C4Script(db, c, day)[n] = Dialogue!C4Prepare(db, c, day)[n]
         /\ \A n \in 1..8 : Dialogue!C4Script(db, c, day)[9 + n] = Dialogue!C4Verify(db, c, day)[n]
<1> DEFINE p == Dialogue!C4Prepare(db, c, day)
           v == Dialogue!C4Verify(db, c, day)
           S == {p[1], p[2], p[3], p[4], p[5], p[6], p[7], p[8], p[9], v[1], v[2], v[3], v[4], v[5], v[6], v[7], v[8]}
           s == p \o v
<1>1. p = <<p[1], p[2], p[3], p[4], p[5], p[6], p[7], p[8], p[9]>>
  BY DEF Dialogue!C4Prepare
<1>2. v = <<v[1], v[2], v[3], v[4], v[5], v[6], v[7], v[8]>>
  BY DEF Dialogue!C4Verify
<1>3. /\ p[1] \in S /\ p[2] \in S /\ p[3] \in S /\ p[4] \in S /\ p[5] \in S /\ p[6] \in S /\ p[7] \in S /\ p[8] \in S /\ p[9] \in S
      /\ v[1] \in S /\ v[2] \in S /\ v[3] \in S /\ v[4] \in S /\ v[5] \in S /\ v[6] \in S /\ v[7] \in S /\ v[8] \in S
  OBVIOUS
<1> HIDE DEF p, v, S
<1>4. p \in Seq(S) /\ Len(p) = 9
  <2>1. <<p[1], p[2], p[3], p[4], p[5], p[6], p[7], p[8], p[9]>> \in Seq(S)
        /\ Len(<<p[1], p[2], p[3], p[4], p[5], p[6], p[7], p[8], p[9]>>) = 9
    BY ONLY <1>3, NineSteps
  <2>2. QED
    BY <1>1, <2>1
<1>5. v \in Seq(S) /\ Len(v) = 8
  <2>1. <<v[1], v[2], v[3], v[4], v[5], v[6], v[7], v[8]>> \in Seq(S)
        /\ Len(<<v[1], v[2], v[3], v[4], v[5], v[6], v[7], v[8]>>) = 8
    BY ONLY <1>3, EightSteps
  <2>2. QED
    BY <1>2, <2>1
<1>6. \A n \in 1..(Len(p) + Len(v)) : s[n] = IF n <= Len(p) THEN p[n] ELSE v[n - Len(p)]
  BY ONLY <1>4, <1>5, ConcatProperties
<1> HIDE DEF s
<1>7. \A n \in 1..(9 + 8) : s[n] = IF n <= 9 THEN p[n] ELSE v[n - 9]
  BY ONLY <1>4, <1>5, <1>6
<1>8. ASSUME NEW n \in 1..8 PROVE s[9 + n] = v[n]
  <2>1. 9 + n \in 1..(9 + 8) /\ ~(9 + n <= 9) /\ (9 + n) - 9 = n
    OBVIOUS
  <2>2. QED
    BY ONLY <1>7, <2>1
<1>9. ASSUME NEW n \in 1..9 PROVE s[n] = p[n]
  <2>1. n \in 1..(9 + 8) /\ n <= 9
    OBVIOUS
  <2>2. QED
    BY ONLY <1>7, <2>1
<1>10. QED
  BY <1>8, <1>9 DEF s, p, v, Dialogue!C4Script

\* What the conversation of the client holds after n of its steps.
Said(n) ==
  LET sys == Dialogue!C4Message("system", "context") IN
  IF n < 4 THEN <<>> ELSE IF n < 7 THEN <<sys>>
  ELSE IF n = 7 THEN <<sys, Dialogue!C4Message("user", "question")>> ELSE Dialogue!C4Transcript

\* And its row, which nobody else writes.
C4Row(db, c, n, day) ==
  /\ c \in Dialogue!Conversations /\ c <= db.made
  /\ n <= 15 =>
       /\ db.convs[c].owner = C4Owner /\ db.convs[c].request = "c4" /\ db.convs[c].title = "title"
       /\ db.convs[c].messages = Said(n)
       /\ IF n <= 11 THEN db.convs[c].state = "ACTIVE"
          ELSE db.convs[c].state = "DELETION_REQUESTED" /\ db.convs[c].until = day
       /\ c \in db.holds <=> n \in 11..14
  /\ n = 16 => db.convs[c] = Dialogue!Absent

HoldsStand(db) == \A c \in Dialogue!Conversations : c \in db.holds => db.convs[c].state # "ABSENT"

Sound(db) == StoreOK(db) /\ HoldsStand(db)

Holding(db, c, message) == \E i \in DOMAIN db.convs[c].messages : db.convs[c].messages[i] = message

\* Messages go only with their conversation.
Keeps(db, db2) ==
  \A c \in Dialogue!Conversations : \A message :
    Holding(db, c, message) /\ db2.convs[c].state # "ABSENT" => Holding(db2, c, message)

C4Ready(db, c, n, day) ==
  /\ Sound(db) /\ db.operational
  /\ IF n = 0 THEN c = db.made + 1 /\ db.made < MaxConversations /\ Known(db, "c4") = {} ELSE C4Row(db, c, n, day)

C4Good(db, step, c, n, day) ==
  /\ step.met /\ Sound(step.db) /\ step.db.operational /\ Keeps(db, step.db)
  /\ C4Row(step.db, c, n + 1, day)

LEMMA NothingChanges ==
  ASSUME NEW db, Sound(db), db.operational, NEW c, NEW n, NEW day, C4Row(db, c, n + 1, day), NEW step, step.db = db, step.met
  PROVE  C4Good(db, step, c, n, day)
BY DEF C4Good, Keeps

LEMMA ClientCreates ==
  ASSUME NEW db, NEW c, NEW day, C4Ready(db, c, 0, day)
  PROVE  C4Good(db, Dialogue!C4Prepare(db, c, day)[1], c, 0, day)
<1> DEFINE r == Dialogue!CreateConversation(db, C4Owner, "c4", "title", day + 1)
           row == NewRow(C4Owner, "c4", "title", day + 1)
           step == Dialogue!C4Prepare(db, c, day)[1]
<1>1. step.db = r.db /\ (step.met <=> r.status = 201)
  BY DEF Dialogue!C4Prepare, Dialogue!Met
<1>2. Sound(db) /\ StoreOK(db) /\ db.operational /\ c = db.made + 1 /\ db.made < MaxConversations /\ Known(db, "c4") = {}
  BY DEF C4Ready, Sound
<1> HIDE DEF r, step
<1>3. r.status = 201 /\ r.conv = c /\ c \in Dialogue!Conversations /\ r.db.made = c /\ Rewrites(db, r.db, c, row) /\ StoreOK(r.db)
  <2>0. "c4" # "NONE"
    OBVIOUS
  <2>1. r.status = 201
    <3>1. ~(db.made + 1 > MaxConversations)
      BY <1>2, ConversationsAssumption DEF StoreOK, Rows
    <3>2. QED
      BY <1>2, <3>1 DEF r, Dialogue!CreateConversation, Dialogue!Result, Known
  <2>4. r.status = 201 /\ Known(db, "c4") = {} =>
             /\ r.conv = db.made + 1 /\ r.conv \in Dialogue!Conversations /\ r.db.made = r.conv
             /\ Rewrites(db, r.db, r.conv, row) /\ StoreOK(r.db)
    BY ONLY <1>2, <2>0, Creation DEF r
  <2>2. /\ r.conv = db.made + 1 /\ r.conv \in Dialogue!Conversations /\ r.db.made = r.conv
        /\ Rewrites(db, r.db, r.conv, row) /\ StoreOK(r.db)
    BY <1>2, <2>1, <2>4
  <2>3. QED
    BY <1>2, <2>1, <2>2
<1>4. db.convs[c].state = "ABSENT" /\ db.convs[c].messages = <<>> /\ c \notin db.holds
  BY <1>2, <1>3 DEF Sound, HoldsStand, StoreOK, Rows, Numbered, Dialogue!Absent
<1>5. /\ row.owner = C4Owner /\ row.request = "c4" /\ row.title = "title" /\ row.messages = <<>> /\ row.state = "ACTIVE"
  BY DEF NewRow
<1> HIDE DEF row
<1>6. Sound(r.db)
  BY <1>2, <1>3, <1>5 DEF Sound, HoldsStand, Rewrites
<1>7. Keeps(db, r.db)
  BY <1>3, <1>4 DEF Keeps, Holding, Rewrites
<1>8. r.db.operational
  BY <1>2, <1>3 DEF Rewrites
<1>9. C4Row(r.db, c, 0 + 1, day)
  <2>1. r.db.convs[c] = row /\ c \notin r.db.holds /\ c <= r.db.made
    BY <1>3, <1>4 DEF Rewrites, Dialogue!Conversations
  <2>2. Said(1) = <<>>
    BY DEF Said
  <2>3. QED
    BY <1>3, <1>5, <2>1, <2>2 DEF C4Row
<1>10. QED
  BY <1>1, <1>3, <1>6, <1>7, <1>8, <1>9 DEF C4Good, step

LEMMA ClientAsksAgain ==
  ASSUME NEW db, NEW c, NEW day, NEW n \in {1, 2}, C4Ready(db, c, n, day)
  PROVE  C4Good(db, Dialogue!C4Prepare(db, c, day)[n + 1], c, n, day)
<1> DEFINE r(title) == Dialogue!CreateConversation(db, C4Owner, "c4", title, day + 1)
           step == Dialogue!C4Prepare(db, c, day)[n + 1]
<1>0. /\ Dialogue!C4Prepare(db, c, day)[2].db = db
      /\ Dialogue!C4Prepare(db, c, day)[2].met <=> r("title").conv = c
      /\ Dialogue!C4Prepare(db, c, day)[3].db = r("conflict").db
      /\ Dialogue!C4Prepare(db, c, day)[3].met <=> r("conflict").status = 409
  BY DEF Dialogue!C4Prepare, Dialogue!Met
<1>1. n = 1 => step = Dialogue!C4Prepare(db, c, day)[2]
  OBVIOUS
<1>2. n = 2 => step = Dialogue!C4Prepare(db, c, day)[3]
  OBVIOUS
<1> HIDE DEF step
<1>3. Sound(db) /\ StoreOK(db) /\ db.operational /\ C4Row(db, c, n, day)
  BY DEF C4Ready, Sound
<1>4. /\ c \in Dialogue!Conversations /\ db.convs[c].owner = C4Owner /\ db.convs[c].request = "c4"
      /\ db.convs[c].title = "title" /\ db.convs[c].state = "ACTIVE"
  BY <1>3 DEF C4Row
<1>5. Known(db, "c4") = {c}
  BY <1>3, <1>4 DEF Known, StoreOK, OneRow
<1> DEFINE same(title) == Same(db, C4Owner, "c4", title)
<1>6. same("title") = {c} /\ same("conflict") = {}
  BY <1>4, <1>5 DEF Same
<1> HIDE DEF r, same
<1>7. ASSUME NEW title
      PROVE  /\ r(title).db = db /\ r(title).status = IF same(title) = {} THEN 409 ELSE 201
             /\ same(title) # {} => r(title).conv \in same(title)
  <2>1. "c4" # "NONE" /\ Known(db, "c4") # {}
    BY <1>5
  <2>2. db.operational /\ Known(db, "c4") # {} =>
          /\ r(title).db = db /\ r(title).status = IF same(title) = {} THEN 409 ELSE 201
          /\ same(title) # {} => r(title).conv \in same(title)
    BY <1>3, <2>1, Creation DEF r, same
  <2>3. QED
    BY <1>3, <2>1, <2>2
<1>8. r("title").conv = c /\ r("conflict").db = db /\ r("conflict").status = 409
  BY <1>6, <1>7
<1>9. step.db = db /\ step.met
  BY <1>0, <1>1, <1>2, <1>8
<1>10. C4Row(db, c, n + 1, day)
  BY <1>3 DEF C4Row, Said
<1>11. QED
  BY <1>3, <1>9, <1>10, NothingChanges DEF step

\* The message of the step, where it appends one.
Spoken(n) ==
  IF n \in {3, 4} THEN Dialogue!C4Message("system", "context")
  ELSE IF n = 5 THEN Dialogue!C4Message("system", "conflict")
  ELSE IF n = 6 THEN Dialogue!C4Message("user", "question") ELSE Dialogue!C4Message("assistant", "answer")

LEMMA ClientSpeaks ==
  ASSUME NEW db, NEW c, NEW day, NEW n \in {3, 4, 5, 6, 7}, C4Ready(db, c, n, day)
  PROVE  C4Good(db, Dialogue!C4Prepare(db, c, day)[n + 1], c, n, day)
<1> DEFINE message == Spoken(n)
           r == Dialogue!AppendMessage(db, C4Owner, c, message)
           step == Dialogue!C4Prepare(db, c, day)[n + 1]
           m == db.convs[c].messages
           row == AppendedRow(db, c, message)
<1> DEFINE said(role, content) == Dialogue!AppendMessage(db, C4Owner, c, Dialogue!C4Message(role, content))
           at(k) == Dialogue!C4Prepare(db, c, day)[k]
<1>1. step.db = r.db /\ (step.met <=> r.status = IF n = 5 THEN 409 ELSE 201)
  <2>1. /\ at(4).db = said("system", "context").db /\ (at(4).met <=> said("system", "context").status = 201)
        /\ at(5).db = said("system", "context").db /\ (at(5).met <=> said("system", "context").status = 201)
        /\ at(6).db = said("system", "conflict").db /\ (at(6).met <=> said("system", "conflict").status = 409)
        /\ at(7).db = said("user", "question").db /\ (at(7).met <=> said("user", "question").status = 201)
        /\ at(8).db = said("assistant", "answer").db /\ (at(8).met <=> said("assistant", "answer").status = 201)
    BY DEF Dialogue!C4Prepare, Dialogue!Met
  <2> HIDE DEF at
  <2>2. step = at(n + 1)
    BY DEF at
  <2> HIDE DEF step
  <2>3. CASE n = 3
    <3>1. step = at(4) /\ r = said("system", "context")
      BY <2>2, <2>3 DEF Spoken
    <3> HIDE DEF r, said
    <3>2. QED
      BY <2>1, <2>3, <3>1
  <2>4. CASE n = 4
    <3>1. step = at(5) /\ r = said("system", "context")
      BY <2>2, <2>4 DEF Spoken
    <3> HIDE DEF r, said
    <3>2. QED
      BY <2>1, <2>4, <3>1
  <2>5. CASE n = 5
    <3>1. step = at(6) /\ r = said("system", "conflict")
      BY <2>2, <2>5 DEF Spoken
    <3> HIDE DEF r, said
    <3>2. QED
      BY <2>1, <2>5, <3>1
  <2>6. CASE n = 6
    <3>1. step = at(7) /\ r = said("user", "question")
      BY <2>2, <2>6 DEF Spoken
    <3> HIDE DEF r, said
    <3>2. QED
      BY <2>1, <2>6, <3>1
  <2>7. CASE n = 7
    <3>1. step = at(8) /\ r = said("assistant", "answer")
      BY <2>2, <2>7 DEF Spoken
    <3> HIDE DEF r, said
    <3>2. QED
      BY <2>1, <2>7, <3>1
  <2>8. QED
    BY <2>3, <2>4, <2>5, <2>6, <2>7
<1> HIDE DEF step, r
<1>2. Sound(db) /\ StoreOK(db) /\ HoldsStand(db) /\ db.operational /\ C4Row(db, c, n, day)
  BY DEF C4Ready, Sound
<1>3. /\ c \in Dialogue!Conversations /\ c <= db.made /\ db.convs[c].owner = C4Owner /\ db.convs[c].request = "c4"
      /\ db.convs[c].title = "title" /\ db.convs[c].state = "ACTIVE" /\ m = Said(n) /\ c \notin db.holds
  BY <1>2 DEF C4Row
<1>4. Dialogue!Owned(db, C4Owner, c)
  BY <1>3 DEF Dialogue!Owned
<1>5. message \in AxentMessages
  BY DEF Spoken, Dialogue!C4Message, AxentMessages
<1> HIDE DEF message
<1>6. IF Receipted(db, c, message.request)
      THEN r.db = db /\ r.status = IF \A i \in DOMAIN m : m[i].request = message.request => m[i] = message THEN 201 ELSE 409
      ELSE r.status = 201 /\ Appended(db, r.db, c, message)
  BY ONLY <1>2, <1>3, <1>4, <1>5, Appending DEF r
<1> HIDE DEF row
<1>7. CASE n \in {4, 5}
  <2>1. m = <<Dialogue!C4Message("system", "context")>>
    BY <1>3, <1>7 DEF Said
  <2>2. DOMAIN m = {1} /\ m[1] = [request |-> "system", content |-> "context"]
    BY <2>1 DEF Dialogue!C4Message
  <2> HIDE DEF m
  <2>3. message = [request |-> "system", content |-> IF n = 4 THEN "context" ELSE "conflict"]
    BY <1>7 DEF message, Spoken, Dialogue!C4Message
  <2>4. Receipted(db, c, message.request)
    BY <2>2, <2>3 DEF Receipted, m
  <2>5. (\A i \in DOMAIN m : m[i].request = message.request => m[i] = message) <=> n = 4
    BY <1>7, <2>2, <2>3
  <2>6. step.db = db /\ step.met
    BY <1>1, <1>6, <1>7, <2>4, <2>5
  <2>7. C4Row(db, c, n + 1, day)
    BY <1>2, <1>7 DEF C4Row, Said
  <2>8. QED
    BY <1>2, <2>6, <2>7, NothingChanges DEF step
<1>8. CASE n \in {3, 6, 7}
  <2>1. ~Receipted(db, c, message.request) /\ Append(m, message) = Said(n + 1)
    <3>1. CASE n = 3
      <4>1. m = <<>> /\ message = Dialogue!C4Message("system", "context") /\ Said(n + 1) = <<message>>
        BY <1>3, <3>1 DEF Said, message, Spoken
      <4>2. QED
        BY <4>1 DEF Receipted
    <3>2. CASE n = 6
      <4>1. /\ m = <<Dialogue!C4Message("system", "context")>> /\ message = Dialogue!C4Message("user", "question")
            /\ Said(n + 1) = <<Dialogue!C4Message("system", "context"), Dialogue!C4Message("user", "question")>>
        BY <1>3, <3>2 DEF Said, message, Spoken
      <4>2. Append(m, message) = Said(n + 1)
        BY <4>1
      <4>3. DOMAIN m = {1} /\ m[1].request = "system" /\ message.request = "user"
        BY <4>1 DEF Dialogue!C4Message
      <4>4. QED
        BY <4>2, <4>3 DEF Receipted
    <3>3. CASE n = 7
      <4>1. /\ m = <<Dialogue!C4Message("system", "context"), Dialogue!C4Message("user", "question")>>
            /\ message = Dialogue!C4Message("assistant", "answer")
            /\ Said(n + 1) = <<Dialogue!C4Message("system", "context"), Dialogue!C4Message("user", "question"),
                               Dialogue!C4Message("assistant", "answer")>>
        BY <1>3, <3>3 DEF Said, message, Spoken, Dialogue!C4Transcript
      <4>2. Append(m, message) = Said(n + 1)
        BY <4>1
      <4>3. DOMAIN m = {1, 2} /\ m[1].request = "system" /\ m[2].request = "user" /\ message.request = "assistant"
        BY <4>1 DEF Dialogue!C4Message
      <4>4. QED
        BY <4>2, <4>3 DEF Receipted
    <3>4. QED
      BY <1>8, <3>1, <3>2, <3>3
  <2>2. r.status = 201 /\ Rewrites(db, r.db, c, row) /\ r.db.made = db.made /\ StoreOK(r.db)
    BY <1>6, <2>1 DEF Appended, row
  <2>3. DOMAIN db.convs[c] = RowFields
    BY <1>2, <1>3 DEF StoreOK, Rows
  <2>4. /\ row.owner = C4Owner /\ row.request = "c4" /\ row.title = "title" /\ row.state = "ACTIVE"
        /\ row.messages = Append(m, message)
    BY <1>3, <2>3 DEF row, AppendedRow, RowFields
  <2>5. HoldsStand(r.db)
    BY <1>2, <2>2, <2>4 DEF HoldsStand, Rewrites
  <2>6. Keeps(db, r.db)
    <3>1. m \in Seq(AxentMessages)
      BY <1>2, <1>3 DEF StoreOK, Receipts
    <3>2. \A i \in DOMAIN m : i \in DOMAIN Append(m, message) /\ Append(m, message)[i] = m[i]
      BY <1>5, <3>1, AppendProperties, LenProperties
    <3>3. QED
      BY SMTT(30), <2>2, <2>4, <3>2 DEF Keeps, Holding, Rewrites
  <2>7. r.db.operational /\ c \notin r.db.holds /\ r.db.convs[c] = row
    BY <1>2, <1>3, <2>2 DEF Rewrites
  <2>8. C4Row(r.db, c, n + 1, day)
    BY <1>3, <1>8, <2>1, <2>2, <2>4, <2>7 DEF C4Row
  <2>9. step.db = r.db /\ step.met
    BY <1>1, <1>8, <2>2
  <2>10. QED
    BY <2>2, <2>5, <2>6, <2>7, <2>8, <2>9 DEF C4Good, Sound, step
<1>9. QED
  BY <1>7, <1>8

LEMMA ClientLooks ==
  ASSUME NEW db, NEW c, NEW day, NEW n \in {8, 9, 13, 16}, C4Ready(db, c, n, day)
  PROVE  C4Good(db, IF n = 8 THEN Dialogue!C4Prepare(db, c, day)[9] ELSE Dialogue!C4Verify(db, c, day)[n - 8], c, n, day)
<1> DEFINE step == IF n = 8 THEN Dialogue!C4Prepare(db, c, day)[9] ELSE Dialogue!C4Verify(db, c, day)[n - 8]
           verify(k) == Dialogue!C4Verify(db, c, day)[k]
<1>1. Sound(db) /\ db.operational /\ C4Row(db, c, n, day)
  BY DEF C4Ready
<1>2. C4Row(db, c, n + 1, day)
  BY <1>1 DEF C4Row, Said
<1>3. c \in Dialogue!Conversations
  BY <1>1 DEF C4Row
<1>4. CASE n = 8
  <2>1. step = [db |-> db, met |-> \A other \in Dialogue!C4Others :
                  c \notin Dialogue!ListConversations(db, other) /\ Dialogue!ExportConversation(db, other, c).status = 404]
    BY <1>4 DEF Dialogue!C4Prepare
  <2>2. db.convs[c].owner = C4Owner
    BY <1>1, <1>4 DEF C4Row
  <2>3. ASSUME NEW other \in Dialogue!C4Others
        PROVE  c \notin Dialogue!ListConversations(db, other) /\ Dialogue!ExportConversation(db, other, c).status = 404
    <3>1. ~Dialogue!Owned(db, other, c)
      BY <2>2, <2>3 DEF Dialogue!Owned, Dialogue!C4Others
    <3>2. QED
      BY <3>1 DEF Dialogue!ListConversations, Dialogue!ExportConversation, Dialogue!Result
  <2>4. step.db = db /\ step.met
    BY <2>1, <2>3
  <2> HIDE DEF step
  <2>5. QED
    BY <1>1, <1>2, <2>4, NothingChanges DEF step
<1>5. CASE n = 9
  <2>1. step = verify(1)
    BY <1>5
  <2>2. /\ verify(1).db = db
        /\ verify(1).met <=> /\ Dialogue!ExportConversation(db, C4Owner, c).status = 200
                             /\ db.convs[c].messages = Dialogue!C4Transcript
    BY DEF Dialogue!C4Verify
  <2>3. db.convs[c].owner = C4Owner /\ db.convs[c].state = "ACTIVE" /\ db.convs[c].messages = Dialogue!C4Transcript
    BY <1>1, <1>5 DEF C4Row, Said
  <2>4. Dialogue!ExportConversation(db, C4Owner, c).status = 200
    BY <1>3, <2>3 DEF Dialogue!Owned, Dialogue!ExportConversation, Dialogue!Result
  <2> HIDE DEF step, verify
  <2>5. step.db = db /\ step.met
    BY <2>1, <2>2, <2>3, <2>4
  <2>6. QED
    BY <1>1, <1>2, <2>5, NothingChanges DEF step
<1>6. CASE n = 13
  <2>1. step = verify(5)
    BY <1>6
  <2>2. verify(5).db = db /\ (verify(5).met <=> db.convs[c].state # "ABSENT")
    BY DEF Dialogue!C4Verify, Dialogue!ConversationExists
  <2>3. db.convs[c].state # "ABSENT"
    BY <1>1, <1>6 DEF C4Row
  <2> HIDE DEF step, verify
  <2>4. step.db = db /\ step.met
    BY <2>1, <2>2, <2>3
  <2>5. QED
    BY <1>1, <1>2, <2>4, NothingChanges DEF step
<1>7. CASE n = 16
  <2>1. step = verify(8)
    BY <1>7
  <2>2. /\ verify(8).db = db
        /\ verify(8).met <=> /\ db.convs[c].state = "ABSENT"
                             /\ Dialogue!ExportConversation(db, C4Owner, c).status = 404
                             /\ c \notin Dialogue!ListConversations(db, C4Owner)
    BY DEF Dialogue!C4Verify, Dialogue!ConversationExists
  <2>3. db.convs[c].state = "ABSENT"
    BY <1>1, <1>7 DEF C4Row, Dialogue!Absent
  <2>4. Dialogue!ExportConversation(db, C4Owner, c).status = 404 /\ c \notin Dialogue!ListConversations(db, C4Owner)
    BY <2>3 DEF Dialogue!Owned, Dialogue!ExportConversation, Dialogue!ListConversations, Dialogue!Result
  <2> HIDE DEF step, verify
  <2>5. step.db = db /\ step.met
    BY <2>1, <2>2, <2>3, <2>4
  <2>6. QED
    BY <1>1, <1>2, <2>5, NothingChanges DEF step
<1>8. QED
  BY <1>4, <1>5, <1>6, <1>7

\* The holds of the client on its conversation, placed and released.
LEMMA ClientHolds ==
  ASSUME NEW db, NEW c, NEW day, NEW n \in {10, 14}, C4Ready(db, c, n, day)
  PROVE  C4Good(db, Dialogue!C4Verify(db, c, day)[n - 8], c, n, day)
<1> DEFINE r == IF n = 10 THEN Dialogue!PlaceLegalHold(db, c) ELSE Dialogue!ReleaseLegalHold(db, c)
           step == Dialogue!C4Verify(db, c, day)[n - 8]
           verify(k) == Dialogue!C4Verify(db, c, day)[k]
           holds2 == IF n = 10 THEN db.holds \cup {c} ELSE db.holds \ {c}
           db2 == [db EXCEPT !.holds = holds2]
<1>1. Sound(db) /\ StoreOK(db) /\ HoldsStand(db) /\ db.operational /\ C4Row(db, c, n, day)
  BY DEF C4Ready, Sound
<1>2. /\ c \in Dialogue!Conversations /\ c <= db.made /\ db.convs[c].state # "ABSENT"
      /\ c \in db.holds <=> n = 14
  BY <1>1 DEF C4Row
<1>3. /\ verify(2).db = Dialogue!PlaceLegalHold(db, c).db /\ (verify(2).met <=> Dialogue!PlaceLegalHold(db, c).status = 200)
      /\ verify(6).db = Dialogue!ReleaseLegalHold(db, c).db /\ (verify(6).met <=> Dialogue!ReleaseLegalHold(db, c).status = 200)
  BY DEF Dialogue!C4Verify, Dialogue!AppFunction
<1>4. n = 10 => step = verify(2)
  OBVIOUS
<1>5. n = 14 => step = verify(6)
  OBVIOUS
<1> HIDE DEF step, verify
<1>6. step.db = r.db /\ (step.met <=> r.status = 200)
  BY <1>3, <1>4, <1>5
<1>7. r.status = 200 /\ r.db = db2
  <2>1. CASE n = 10
    BY <1>2, <2>1 DEF Dialogue!PlaceLegalHold, Dialogue!Result
  <2>2. CASE n = 14
    BY <1>2, <2>2 DEF Dialogue!ReleaseLegalHold, Dialogue!Result
  <2>3. QED
    BY <2>1, <2>2
<1>8. c \in holds2 <=> n + 1 \in 11..14
  OBVIOUS
<1>9. \A d \in Dialogue!Conversations : d \in holds2 => d \in db.holds \/ d = c
  OBVIOUS
<1> HIDE DEF r, holds2
<1>10. db2.made = db.made /\ db2.convs = db.convs /\ db2.holds = holds2 /\ db2.operational = db.operational /\ StoreOK(db2)
  BY <1>1, HoldsChange
<1> HIDE DEF db2
<1>11. HoldsStand(db2)
  BY <1>1, <1>2, <1>9, <1>10 DEF HoldsStand
<1>12. Keeps(db, db2)
  BY <1>10 DEF Keeps, Holding
<1>13. C4Row(db2, c, n + 1, day)
  <2>1. Said(n + 1) = Said(n)
    BY DEF Said
  <2>2. n + 1 \in {11, 15} /\ (n + 1 <= 11 <=> n <= 11)
    OBVIOUS
  <2>3. QED
    BY <1>1, <1>2, <1>8, <1>10, <2>1, <2>2 DEF C4Row
<1>14. QED
  BY <1>1, <1>6, <1>7, <1>10, <1>11, <1>12, <1>13 DEF C4Good, Sound, step

LEMMA ClientAsksForDeletion ==
  ASSUME NEW db, NEW c, NEW day, C4Ready(db, c, 11, day)
  PROVE  C4Good(db, Dialogue!C4Verify(db, c, day)[3], c, 11, day)
<1> DEFINE r == Dialogue!RequestDeletion(db, C4Owner, c, day)
           step == Dialogue!C4Verify(db, c, day)[3]
           row == AskedRow(db, c, day)
<1>1. Sound(db) /\ StoreOK(db) /\ HoldsStand(db) /\ db.operational /\ C4Row(db, c, 11, day)
  BY DEF C4Ready, Sound
<1>2. /\ c \in Dialogue!Conversations /\ c <= db.made /\ db.convs[c].state = "ACTIVE" /\ db.convs[c].owner = C4Owner
      /\ db.convs[c].request = "c4" /\ db.convs[c].title = "title" /\ db.convs[c].messages = Said(11) /\ c \in db.holds
  BY <1>1 DEF C4Row
<1>3. step.db = r.db /\ (step.met <=> r.status = 202)
  BY DEF Dialogue!C4Verify, Dialogue!Met
<1>4. Dialogue!Owned(db, C4Owner, c)
  BY <1>2 DEF Dialogue!Owned
<1> HIDE DEF r, step
<1>5. r.status = 202 /\ r.db.made = db.made /\ StoreOK(r.db) /\ Rewrites(db, r.db, c, row)
  <2>1. r.status = 202
    BY <1>4 DEF r, Dialogue!RequestDeletion, Dialogue!Result
  <2>2. Rewrites(db, r.db, c, row)
    BY ONLY <1>1, <1>2, <1>4, DeletionAsked DEF r
  <2>3. r.db.made = db.made
    BY ONLY <1>1, <1>2, <1>4, DeletionAsked DEF r
  <2>4. StoreOK(r.db)
    BY ONLY <1>1, <1>2, <1>4, DeletionAsked DEF r
  <2>5. QED
    BY <2>1, <2>2, <2>3, <2>4
<1>6. DOMAIN db.convs[c] = RowFields
  BY <1>1, <1>2 DEF StoreOK, Rows
<1>7. /\ row.owner = C4Owner /\ row.request = "c4" /\ row.title = "title" /\ row.state = "DELETION_REQUESTED"
      /\ row.until = day /\ row.messages = db.convs[c].messages
  BY <1>2, <1>6 DEF RowFields, AskedRow
<1> HIDE DEF row
<1>8. HoldsStand(r.db)
  BY <1>1, <1>5, <1>7 DEF HoldsStand, Rewrites
<1>9. Keeps(db, r.db)
  BY <1>5, <1>7 DEF Keeps, Holding, Rewrites
<1>10. r.db.operational /\ c \in r.db.holds /\ r.db.convs[c] = row
  BY <1>1, <1>2, <1>5 DEF Rewrites
<1>11. C4Row(r.db, c, 11 + 1, day)
  <2>1. Said(11) = Said(12)
    BY DEF Said
  <2>2. QED
    BY <1>2, <1>5, <1>7, <1>10, <2>1 DEF C4Row
<1>12. QED
  BY <1>3, <1>5, <1>8, <1>9, <1>10, <1>11 DEF C4Good, Sound, step

\* A purge of the client spares the held conversation and takes it once released.
LEMMA ClientPurges ==
  ASSUME NEW db, NEW c, NEW day \in Nat, NEW n \in {12, 15}, C4Ready(db, c, n, day)
  PROVE  C4Good(db, Dialogue!C4Verify(db, c, day)[n - 8], c, n, day)
<1> DEFINE due == Dialogue!PurgeDue(db, day)
           db2 == Dialogue!Delete(db, due)
           step == Dialogue!C4Verify(db, c, day)[n - 8]
           verify(k) == Dialogue!C4Verify(db, c, day)[k]
<1>1. Sound(db) /\ StoreOK(db) /\ HoldsStand(db) /\ db.operational /\ C4Row(db, c, n, day)
  BY DEF C4Ready, Sound
<1>2. /\ c \in Dialogue!Conversations /\ c <= db.made /\ db.convs[c].state = "DELETION_REQUESTED"
      /\ db.convs[c].until = day /\ (c \in db.holds <=> n = 12)
  BY <1>1 DEF C4Row
<1>3. verify(4).db = db2 /\ verify(4).met /\ verify(7).db = db2 /\ verify(7).met
  BY DEF Dialogue!C4Verify, Dialogue!PurgeNow
<1>4. n = 12 => step = verify(4)
  OBVIOUS
<1>5. n = 15 => step = verify(7)
  OBVIOUS
<1> HIDE DEF step, verify
<1>6. step.db = db2 /\ step.met
  BY <1>3, <1>4, <1>5
<1>7. due \in SUBSET Dialogue!Conversations /\ (c \in due <=> n = 15)
  BY <1>2 DEF Dialogue!PurgeDue, Dialogue!Due
<1> HIDE DEF due
<1>8. /\ StoreOK(db2) /\ db2.made = db.made /\ db2.holds = db.holds \ due /\ db2.operational = db.operational
      /\ \A d \in Dialogue!Conversations : db2.convs[d] = IF d \in due THEN Dialogue!Absent ELSE db.convs[d]
  BY ONLY <1>1, <1>7, Deletion
<1> HIDE DEF db2
<1>9. HoldsStand(db2)
  BY <1>1, <1>8 DEF HoldsStand
<1>10. Keeps(db, db2)
  BY <1>8 DEF Keeps, Holding, Dialogue!Absent
<1>11. C4Row(db2, c, n + 1, day)
  <2>1. CASE n = 12
    <3>1. db2.convs[c] = db.convs[c] /\ c \in db2.holds /\ Said(13) = Said(12)
      BY <1>2, <1>7, <1>8, <2>1 DEF Said
    <3>2. QED
      BY <1>1, <1>2, <1>8, <2>1, <3>1 DEF C4Row
  <2>2. CASE n = 15
    <3>1. db2.convs[c] = Dialogue!Absent
      BY <1>2, <1>7, <1>8, <2>2
    <3>2. QED
      BY <1>2, <1>8, <2>2, <3>1 DEF C4Row
  <2>3. QED
    BY <2>1, <2>2
<1>12. QED
  BY <1>1, <1>6, <1>8, <1>9, <1>10, <1>11 DEF C4Good, Sound, step

\* Whatever step the client is at, what it expects is so.
LEMMA ClientFindsWhatItExpects ==
  ASSUME NEW db, NEW c, NEW day \in Nat, NEW n \in 0..16, C4Ready(db, c, n, day)
  PROVE  C4Good(db, Dialogue!C4Script(db, c, day)[n + 1], c, n, day)
<1> DEFINE script == Dialogue!C4Script(db, c, day)
           prepare == Dialogue!C4Prepare(db, c, day)
           verify == Dialogue!C4Verify(db, c, day)
<1>1. (\A k \in 1..9 : script[k] = prepare[k]) /\ (\A k \in 1..8 : script[9 + k] = verify[k])
  BY ScriptHalves
<1> HIDE DEF script
<1>2. CASE n = 0
  <2>1. script[n + 1] = prepare[1]
    BY <1>1, <1>2
  <2>2. QED
    BY <1>2, <2>1, ClientCreates DEF script
<1>3. CASE n \in {1, 2}
  <2>1. script[n + 1] = prepare[n + 1]
    BY <1>1, <1>3
  <2>2. QED
    BY <1>3, <2>1, ClientAsksAgain DEF script
<1>4. CASE n \in {3, 4, 5, 6, 7}
  <2>1. script[n + 1] = prepare[n + 1]
    BY <1>1, <1>4
  <2>2. QED
    BY <1>4, <2>1, ClientSpeaks DEF script
<1>5. CASE n \in {8, 9, 13, 16}
  <2>1. script[n + 1] = IF n = 8 THEN prepare[9] ELSE verify[n - 8]
    <3>1. CASE n = 8
      BY <1>1, <3>1
    <3>2. CASE n # 8
      <4>1. n - 8 \in 1..8 /\ 9 + (n - 8) = n + 1
        BY <1>5, <3>2
      <4>2. QED
        BY <1>1, <3>2, <4>1
    <3>3. QED
      BY <3>1, <3>2
  <2>2. QED
    BY <1>5, <2>1, ClientLooks DEF script
<1>6. CASE n \in {10, 11, 12, 14, 15}
  <2>1. script[n + 1] = verify[n - 8]
    <3>1. n - 8 \in 1..8 /\ 9 + (n - 8) = n + 1
      BY <1>6
    <3>2. QED
      BY <1>1, <3>1
  <2>2. CASE n \in {10, 14}
    BY <2>1, <2>2, ClientHolds DEF script
  <2>3. CASE n = 11
    <3>1. script[n + 1] = verify[3]
      BY <2>1, <2>3
    <3>2. QED
      BY <2>3, <3>1, ClientAsksForDeletion DEF script
  <2>4. CASE n \in {12, 15}
    BY <2>1, <2>4, ClientPurges DEF script
  <2>5. QED
    BY <1>6, <2>2, <2>3, <2>4
<1>7. QED
  BY <1>2, <1>3, <1>4, <1>5, <1>6

\* The store is sound; a message that was acknowledged is there; what a running purge
\* selected and a hold protects was held since; and the client's conversation is as its
\* own steps left it.
Acknowledged(db, acks) == \A a \in acks : a.conv \in Dialogue!Conversations /\ Holding(db, a.conv, a.message)

PurgeSpares(db) == purge \subseteq Dialogue!Conversations /\ \A c \in purge : c \in db.holds => c \in raced

ClientStands(db) ==
  /\ c4 = 0 => Known(db, "c4") = {}
  /\ c4 \in 1..16 => purge = {} /\ db.operational /\ C4Row(db, c4Conv, c4, axentDay)

AxentInv ==
  /\ Sound(store) /\ axentDay \in Nat
  /\ Acknowledged(store, acked) /\ PurgeSpares(store)
  /\ \A p \in purged : p.due /\ ~p.held
  /\ ~c4Failed /\ c4 \in 0..17
  /\ ClientStands(store)

\* What another client of the tenant does to a store: it loses no message, and leaves the
\* conversation of the C4 client, or the place it had, as it is.
OthersWrite(db, db2) ==
  /\ Sound(db2) /\ db2.operational = db.operational /\ db2.made \in Nat /\ db2.made >= db.made
  /\ \A c \in Dialogue!Conversations : \A message : Holding(db, c, message) => Holding(db2, c, message)
  /\ \A c \in Dialogue!Conversations :
       c <= db.made /\ (db.convs[c].request = "c4" \/ db.convs[c].state = "ABSENT") =>
         db2.convs[c] = db.convs[c] /\ (c \in db2.holds <=> c \in db.holds)
  /\ Known(db2, "c4") \subseteq Known(db, "c4")

LEMMA ClientUndisturbed ==
  ASSUME AxentInv, NEW db2, OthersWrite(store, db2)
  PROVE  Sound(db2) /\ Acknowledged(db2, acked) /\ ClientStands(db2)
<1>1. Acknowledged(db2, acked)
  BY DEF AxentInv, Acknowledged, OthersWrite
<1>2. ASSUME c4 \in 1..16 PROVE C4Row(db2, c4Conv, c4, axentDay)
  <2>1. /\ C4Row(store, c4Conv, c4, axentDay) /\ c4Conv \in Dialogue!Conversations /\ c4Conv <= store.made
        /\ store.convs[c4Conv].request = "c4" \/ store.convs[c4Conv].state = "ABSENT"
    BY <1>2 DEF AxentInv, ClientStands, C4Row, Dialogue!Absent
  <2>2. db2.convs[c4Conv] = store.convs[c4Conv] /\ (c4Conv \in db2.holds <=> c4Conv \in store.holds)
    BY <2>1 DEF OthersWrite
  <2>3. c4Conv <= db2.made
    BY <2>1, ConversationsAssumption DEF OthersWrite, AxentInv, Sound, StoreOK, Rows, Dialogue!Conversations
  <2>4. QED
    BY <2>1, <2>2, <2>3 DEF C4Row
<1>3. ClientStands(db2)
  BY <1>2 DEF AxentInv, ClientStands, OthersWrite
<1>4. QED
  BY <1>1, <1>3 DEF OthersWrite

LEMMA OthersCreate ==
  ASSUME NEW db, Sound(db), NEW subject, NEW title, NEW until,
         Dialogue!CreateConversation(db, subject, "r1", title, until).status = 201
  PROVE  LET db2 == Dialogue!CreateConversation(db, subject, "r1", title, until).db
         IN  OthersWrite(db, db2) /\ db2.holds = db.holds
<1> DEFINE r == Dialogue!CreateConversation(db, subject, "r1", title, until)
           row == NewRow(subject, "r1", title, until)
<1> HIDE DEF r
<1>1. StoreOK(db) /\ HoldsStand(db) /\ r.status = 201 /\ "r1" # "NONE" /\ db.made \in Nat
  BY DEF Sound, StoreOK, Rows, r
<1>2. CASE Known(db, "r1") = {}
  <2>1. /\ r.conv = db.made + 1 /\ r.conv \in Dialogue!Conversations /\ r.db.made = r.conv
        /\ Rewrites(db, r.db, r.conv, row) /\ StoreOK(r.db)
    BY ONLY ZenonT(40), <1>1, <1>2, Creation DEF r
  <2>2. db.convs[r.conv].state = "ABSENT" /\ db.convs[r.conv].messages = <<>> /\ r.conv > db.made
    BY <1>1, <2>1 DEF StoreOK, Numbered, Dialogue!Absent
  <2>3. row.request = "r1" /\ row.messages = <<>> /\ row.state = "ACTIVE"
    BY DEF NewRow
  <2> HIDE DEF row
  <2>4. Sound(r.db)
    BY <1>1, <2>1, <2>3 DEF Sound, HoldsStand, Rewrites
  <2>5. \A c \in Dialogue!Conversations : \A message : Holding(db, c, message) => Holding(r.db, c, message)
    BY <2>1, <2>2 DEF Holding, Rewrites
  <2>6. Known(r.db, "c4") \subseteq Known(db, "c4")
    BY <2>1, <2>3 DEF Known, Rewrites
  <2>7. \A c \in Dialogue!Conversations : c <= db.made =>
          r.db.convs[c] = db.convs[c] /\ (c \in r.db.holds <=> c \in db.holds)
    BY <1>1, <2>1 DEF Rewrites, Dialogue!Conversations
  <2>8. r.db.holds = db.holds /\ r.db.operational = db.operational /\ r.db.made \in Nat /\ r.db.made >= db.made
    BY <1>1, <2>1 DEF Rewrites
  <2>9. QED
    BY <2>4, <2>5, <2>6, <2>7, <2>8 DEF OthersWrite, r
<1>3. CASE r.db = db
  BY <1>1, <1>3 DEF OthersWrite, r
<1>4. r.status = 201 => Known(db, "r1") = {} \/ r.db = db
  BY DEF r, Dialogue!CreateConversation, Dialogue!Result, Known
<1>5. QED
  BY <1>1, <1>2, <1>3, <1>4

LEMMA OthersAppend ==
  ASSUME NEW db, Sound(db), NEW subject, NEW c \in Dialogue!Conversations, db.convs[c].request # "c4",
         NEW message \in AxentMessages,
         Dialogue!AppendMessage(db, subject, c, message).status = 201
  PROVE  LET db2 == Dialogue!AppendMessage(db, subject, c, message).db
         IN  OthersWrite(db, db2) /\ db2.holds = db.holds /\ Holding(db2, c, message)
<1> DEFINE r == Dialogue!AppendMessage(db, subject, c, message)
           row == AppendedRow(db, c, message)
           m == db.convs[c].messages
<1> HIDE DEF r
<1>1. StoreOK(db) /\ HoldsStand(db) /\ r.status = 201 /\ db.made \in Nat
  BY DEF Sound, StoreOK, Rows, r
<1>2. \/ /\ Rewrites(db, r.db, c, row) /\ r.db.made = db.made /\ StoreOK(r.db) /\ db.convs[c].state # "ABSENT"
      \/ r.db = db /\ Holding(db, c, message)
  <2>1. r.status = 201 =>
          \/ Appended(db, r.db, c, message)
          \/ r.db = db /\ \E i \in DOMAIN db.convs[c].messages : db.convs[c].messages[i] = message
    BY ONLY ZenonT(40), <1>1, c \in Dialogue!Conversations, message \in AxentMessages, Appending DEF r
  <2>2. QED
    BY <1>1, <2>1 DEF Holding, Appended
<1>3. CASE Rewrites(db, r.db, c, row) /\ r.db.made = db.made /\ StoreOK(r.db) /\ db.convs[c].state # "ABSENT"
  <2>1. DOMAIN db.convs[c] = RowFields /\ m \in Seq(AxentMessages)
    BY <1>1 DEF StoreOK, Rows, Receipts
  <2>2. row.request = db.convs[c].request /\ row.state = db.convs[c].state /\ row.messages = Append(m, message)
    BY <2>1 DEF AppendedRow, RowFields
  <2>3. \A i \in DOMAIN m : i \in DOMAIN Append(m, message) /\ Append(m, message)[i] = m[i]
    BY <2>1, AppendProperties, LenProperties
  <2>4. \E i \in DOMAIN Append(m, message) : Append(m, message)[i] = message
    <3>1. /\ Append(m, message) \in Seq(AxentMessages) /\ Len(Append(m, message)) = Len(m) + 1
          /\ Append(m, message)[Len(m) + 1] = message /\ Len(m) \in Nat
      BY SMTT(30), <2>1, AppendProperties, LenProperties
    <3>2. DOMAIN Append(m, message) = 1..Len(Append(m, message))
      BY <3>1, LenProperties
    <3>3. Len(m) + 1 \in 1..Len(Append(m, message))
      BY ONLY <3>1
    <3>4. QED
      BY ONLY <3>1, <3>2, <3>3
  <2> HIDE DEF row
  <2>5. Sound(r.db)
    BY <1>1, <1>3, <2>2 DEF Sound, HoldsStand, Rewrites
  <2>6. \A d \in Dialogue!Conversations : \A said : Holding(db, d, said) => Holding(r.db, d, said)
    BY <1>3, <2>2, <2>3 DEF Holding, Rewrites
  <2>7. Holding(r.db, c, message)
    BY <1>3, <2>2, <2>4 DEF Holding, Rewrites
  <2>8. Known(r.db, "c4") \subseteq Known(db, "c4")
    BY <1>3, <2>2 DEF Known, Rewrites
  <2>9. r.db.holds = db.holds /\ r.db.operational = db.operational
    BY <1>3 DEF Rewrites
  <2>10. \A d \in Dialogue!Conversations : d # c => r.db.convs[d] = db.convs[d]
    BY <1>3 DEF Rewrites
  <2>11. QED
    BY <1>1, <1>3, <2>5, <2>6, <2>7, <2>8, <2>9, <2>10 DEF OthersWrite, r
<1>4. CASE r.db = db /\ Holding(db, c, message)
  BY <1>1, <1>4 DEF OthersWrite, r
<1>5. QED
  BY <1>2, <1>3, <1>4

LEMMA OthersAskForDeletion ==
  ASSUME NEW db, Sound(db), NEW subject, NEW c \in Dialogue!Conversations, db.convs[c].request # "c4", NEW date,
         Dialogue!RequestDeletion(db, subject, c, date).status = 202
  PROVE  LET db2 == Dialogue!RequestDeletion(db, subject, c, date).db
         IN  OthersWrite(db, db2) /\ db2.holds = db.holds
<1> DEFINE r == Dialogue!RequestDeletion(db, subject, c, date)
           row == AskedRow(db, c, date)
<1>1. Dialogue!Owned(db, subject, c)
  BY DEF Dialogue!RequestDeletion, Dialogue!Result
<1> HIDE DEF r
<1>2. StoreOK(db) /\ HoldsStand(db) /\ db.made \in Nat /\ DOMAIN db.convs[c] = RowFields
  BY DEF Sound, StoreOK, Rows
<1>3. Rewrites(db, r.db, c, row) /\ r.db.made = db.made /\ StoreOK(r.db)
  BY ONLY <1>1, <1>2, c \in Dialogue!Conversations, DeletionAsked DEF r
<1>4. row.request = db.convs[c].request /\ row.state # "ABSENT" /\ row.messages = db.convs[c].messages
  BY <1>2 DEF AskedRow, RowFields
<1>5. db.convs[c].state # "ABSENT"
  BY <1>1 DEF Dialogue!Owned
<1> HIDE DEF row
<1>6. Sound(r.db)
  BY <1>2, <1>3, <1>4 DEF Sound, HoldsStand, Rewrites
<1>7. \A d \in Dialogue!Conversations : \A said : Holding(db, d, said) => Holding(r.db, d, said)
  BY <1>3, <1>4 DEF Holding, Rewrites
<1>8. Known(r.db, "c4") \subseteq Known(db, "c4")
  BY <1>3, <1>4 DEF Known, Rewrites
<1>9. r.db.holds = db.holds /\ r.db.operational = db.operational
  BY <1>3 DEF Rewrites
<1>10. \A d \in Dialogue!Conversations : d # c => r.db.convs[d] = db.convs[d]
  BY <1>3 DEF Rewrites
<1>11. QED
  BY <1>2, <1>3, <1>5, <1>6, <1>7, <1>8, <1>9, <1>10 DEF OthersWrite, r

LEMMA OthersHold ==
  ASSUME NEW db, Sound(db), NEW c \in Dialogue!Conversations, db.convs[c].request # "c4", db.convs[c].state # "ABSENT",
         NEW holds2, \A d \in Dialogue!Conversations : d # c => (d \in holds2 <=> d \in db.holds)
  PROVE  OthersWrite(db, [db EXCEPT !.holds = holds2]) /\ [db EXCEPT !.holds = holds2].holds = holds2
<1> DEFINE db2 == [db EXCEPT !.holds = holds2]
<1>1. StoreOK(db) /\ HoldsStand(db) /\ db.made \in Nat
  BY DEF Sound, StoreOK, Rows
<1>2. db2.made = db.made /\ db2.convs = db.convs /\ db2.holds = holds2 /\ db2.operational = db.operational /\ StoreOK(db2)
  BY <1>1, HoldsChange
<1> HIDE DEF db2
<1>3. Sound(db2)
  BY <1>1, <1>2 DEF Sound, HoldsStand
<1>4. QED
  BY <1>1, <1>2, <1>3 DEF OthersWrite, Holding, Known, db2

LEMMA AxentInitially == Dialogue!AxentInit => AxentInv
<1> SUFFICES ASSUME Dialogue!AxentInit PROVE AxentInv
  OBVIOUS
<1>1. store = [made |-> 0, convs |-> [c \in Dialogue!Conversations |-> Dialogue!Absent], holds |-> {}, operational |-> TRUE]
  BY DEF Dialogue!AxentInit, Dialogue!StoreInit
<1>2. /\ Dialogue!Absent.state = "ABSENT" /\ Dialogue!Absent.messages = <<>> /\ DOMAIN Dialogue!Absent = RowFields
      /\ Dialogue!Absent.request = "NONE" /\ DOMAIN <<>> = {}
  BY DEF Dialogue!Absent, RowFields
<1>3. store.made = 0 /\ store.holds = {} /\ DOMAIN store.convs = Dialogue!Conversations
      /\ \A c \in Dialogue!Conversations : store.convs[c] = Dialogue!Absent
  BY <1>1
<1>4. Fields(store)
  BY <1>1 DEF Fields
<1>5. Rows(store) /\ Numbered(store) /\ OneRow(store)
  BY <1>2, <1>3, ConversationsAssumption DEF Rows, Numbered, OneRow
<1>6. Receipts(store)
  <2>1. <<>> \in Seq(AxentMessages)
    BY EmptySeq
  <2>2. QED
    BY <1>2, <1>3, <2>1 DEF Receipts
<1>7. Known(store, "c4") = {}
  BY <1>2, <1>3 DEF Known
<1>8. QED
  BY <1>3, <1>4, <1>5, <1>6, <1>7
     DEF AxentInv, Sound, StoreOK, HoldsStand, Acknowledged, PurgeSpares, ClientStands, Dialogue!AxentInit

\* The tenant's clients other than C4: creation, messages, deletion on request, holds.
LEMMA OthersKeepAxent ==
  ASSUME AxentInv, UNCHANGED <<axentDay, purge, purged, c4, c4Conv, c4Failed>>,
         OthersWrite(store, store'), Acknowledged(store', acked'), PurgeSpares(store)'
  PROVE  AxentInv'
<1>1. Sound(store') /\ ClientStands(store')
  BY ClientUndisturbed
<1>2. ClientStands(store)'
  BY <1>1 DEF ClientStands
<1>3. QED
  BY <1>1, <1>2 DEF AxentInv, Acknowledged

LEMMA PurgeKeepsAxent ==
  ASSUME AxentInv, NEW c \in Dialogue!Conversations, Dialogue!PurgeReaches(c)
  PROVE  AxentInv'
<1> DEFINE dropped == IF Dialogue!Due(store, c, axentDay) THEN {c} ELSE {}
           db2 == Dialogue!Delete(store, dropped)
<1>1. /\ c \in purge /\ purge' = purge \ {c} /\ store' = db2
      /\ purged' = IF dropped = {} THEN purged ELSE purged \cup
           {[due |-> Dialogue!Due(store, c, axentDay), held |-> c \in store.holds \ raced, lost |-> c \in store.holds]}
      /\ acked' = {a \in acked : a.conv \notin dropped} /\ raced' = raced \ dropped
      /\ UNCHANGED <<axentDay, c4, c4Conv, c4Failed>>
  BY DEF Dialogue!PurgeReaches
<1>2. dropped \in SUBSET Dialogue!Conversations /\ dropped \subseteq {c} /\ (dropped # {} => Dialogue!Due(store, c, axentDay))
  OBVIOUS
<1>3. StoreOK(store) /\ HoldsStand(store)
  BY DEF AxentInv, Sound
<1> HIDE DEF dropped
<1>4. /\ StoreOK(db2) /\ db2.made = store.made /\ db2.holds = store.holds \ dropped /\ db2.operational = store.operational
      /\ \A d \in Dialogue!Conversations : db2.convs[d] = IF d \in dropped THEN Dialogue!Absent ELSE store.convs[d]
  BY ONLY <1>2, <1>3, Deletion
<1> HIDE DEF db2
<1>5. Sound(db2)
  BY <1>3, <1>4 DEF Sound, HoldsStand
<1>6. Acknowledged(db2, acked')
  BY <1>1, <1>4 DEF AxentInv, Acknowledged, Holding
<1>7. PurgeSpares(store)'
  BY <1>1, <1>2, <1>4 DEF AxentInv, PurgeSpares
<1>8. \A p \in purged' : p.due /\ ~p.held
  <2>1. c \in store.holds => c \in raced
    BY <1>1 DEF AxentInv, PurgeSpares
  <2> DEFINE new == [due |-> Dialogue!Due(store, c, axentDay), held |-> c \in store.holds \ raced, lost |-> c \in store.holds]
  <2>2. (new.due <=> Dialogue!Due(store, c, axentDay)) /\ ~new.held
    BY <2>1
  <2>3. \A p \in purged' : p \in purged \/ (p = new /\ Dialogue!Due(store, c, axentDay))
    BY <1>1, <1>2
  <2> HIDE DEF new
  <2>4. QED
    BY <2>2, <2>3 DEF AxentInv
<1>9. c4 \notin 1..16
  BY <1>1 DEF AxentInv, ClientStands
<1>10. Known(db2, "c4") \subseteq Known(store, "c4")
  BY <1>4 DEF Known, Dialogue!Absent
<1>11. ClientStands(store)'
  BY <1>1, <1>9, <1>10 DEF AxentInv, ClientStands
<1>12. QED
  BY <1>1, <1>5, <1>6, <1>7, <1>8, <1>11 DEF AxentInv, Acknowledged

\* Making the workspaces active touches no conversation.
LEMMA SeedingAlone ==
  ASSUME NEW db, Sound(db)
  PROVE  LET db2 == Dialogue!SeedActiveTenants(db)
         IN  /\ Sound(db2) /\ db2.operational
             /\ db2.made = db.made /\ db2.convs = db.convs /\ db2.holds = db.holds
<1> DEFINE db2 == Dialogue!SeedActiveTenants(db)
<1>1. db2 = [made |-> db.made, convs |-> db.convs, holds |-> db.holds, operational |-> TRUE]
  BY SwitchAlone DEF Sound, StoreOK, Dialogue!SeedActiveTenants
<1> HIDE DEF db2
<1>2. db2.made = db.made /\ db2.convs = db.convs /\ db2.holds = db.holds /\ db2.operational = TRUE
  BY <1>1
<1>3. Sound(db2)
  BY <1>1, <1>2 DEF Sound, HoldsStand, StoreOK, Fields, Rows, Numbered, OneRow, Receipts
<1>4. QED
  BY <1>2, <1>3 DEF db2

LEMMA ClientKeepsAxent ==
  ASSUME AxentInv, Dialogue!C4Step
  PROVE  AxentInv'
<1> DEFINE db == IF c4 = 0 THEN Dialogue!SeedActiveTenants(store) ELSE store
           c == IF c4 = 0 THEN db.made + 1 ELSE c4Conv
           step == Dialogue!C4Script(db, c, axentDay)[c4 + 1]
<1>1. /\ c4 < 17 /\ purge = {} /\ (c4 = 0 => store.made < MaxConversations)
      /\ store' = step.db /\ c4Conv' = c /\ c4' = c4 + 1 /\ c4Failed' = ~step.met
      /\ acked' = {a \in acked : step.db.convs[a.conv].state # "ABSENT"}
      /\ UNCHANGED <<axentDay, purge, raced, purged>>
  BY DEF Dialogue!C4Step, Dialogue!C4Steps
<1>2. c4 \in 0..16 /\ axentDay \in Nat /\ Sound(store)
  BY <1>1 DEF AxentInv
<1>3. Sound(db) /\ db.made = store.made /\ db.convs = store.convs /\ db.holds = store.holds /\ (c4 = 0 => db.operational)
  BY <1>2, SeedingAlone
<1>4. C4Ready(db, c, c4, axentDay)
  <2>1. CASE c4 = 0
    <3>1. Known(store, "c4") = {}
      BY <2>1 DEF AxentInv, ClientStands
    <3>2. Known(db, "c4") = {}
      BY <1>3, <3>1 DEF Known
    <3>3. c = db.made + 1
      BY <2>1
    <3> HIDE DEF db, c
    <3>4. QED
      BY <1>1, <1>3, <2>1, <3>2, <3>3 DEF C4Ready
  <2>2. CASE c4 # 0
    <3>1. db = store /\ c = c4Conv
      BY <2>2
    <3> HIDE DEF db, c
    <3>2. QED
      BY <1>2, <2>2, <3>1 DEF C4Ready, AxentInv, ClientStands
  <2>3. QED
    BY <2>1, <2>2
<1> HIDE DEF db, c
<1>5. C4Good(db, step, c, c4, axentDay)
  BY <1>2, <1>4, ClientFindsWhatItExpects
<1> HIDE DEF step
<1>6. step.met /\ Sound(step.db) /\ step.db.operational /\ Keeps(store, step.db) /\ C4Row(step.db, c, c4 + 1, axentDay)
  BY <1>3, <1>5 DEF C4Good, Keeps, Holding
<1>7. Acknowledged(store, acked)'
  BY <1>1, <1>6 DEF AxentInv, Acknowledged, Keeps
<1>8. ClientStands(store)'
  BY <1>1, <1>2, <1>6 DEF ClientStands
<1>9. PurgeSpares(store)'
  BY <1>1 DEF PurgeSpares
<1>10. ~c4Failed' /\ c4' \in 0..17
  <2>1. ~c4Failed'
    BY <1>1, <1>6, Zenon
  <2>2. QED
    BY <1>1, <1>2, <2>1
<1>11. QED
  BY <1>1, <1>2, <1>6, <1>7, <1>8, <1>9, <1>10 DEF AxentInv

LEMMA AxentKept ==
  ASSUME AxentInv, [Dialogue!AxentNext]_axentVars
  PROVE  AxentInv'
<1>1. Sound(store) /\ StoreOK(store)
  BY DEF AxentInv, Sound
<1>2. ASSUME NEW s \in Subjects, NEW title \in {"a", "b"}, Dialogue!CreateAxentConversation(s, "r1", title)
      PROVE  AxentInv'
  <2> DEFINE r == Dialogue!CreateConversation(store, s, "r1", title, axentDay + Dialogue!RetentionDays(title))
  <2>1. r.status = 201 /\ store' = r.db /\ UNCHANGED <<axentDay, purge, raced, acked, purged, c4, c4Conv, c4Failed>>
    BY <1>2 DEF Dialogue!CreateAxentConversation
  <2>2. OthersWrite(store, r.db) /\ r.db.holds = store.holds
    BY ONLY <1>1, <2>1, OthersCreate
  <2> HIDE DEF r
  <2>3. Acknowledged(store', acked')
    BY <2>1, <2>2, ClientUndisturbed
  <2>4. PurgeSpares(store)'
    BY <2>1, <2>2 DEF AxentInv, PurgeSpares
  <2>5. QED
    BY <2>1, <2>2, <2>3, <2>4, OthersKeepAxent
<1>3. ASSUME NEW s \in Subjects, NEW c \in Dialogue!Conversations, NEW content \in {"x", "y"}, NEW answered \in BOOLEAN,
             store.convs[c].request # "c4",
             Dialogue!AppendAxentMessage(s, c, [request |-> "m1", content |-> content], answered)
      PROVE  AxentInv'
  <2> DEFINE message == [request |-> "m1", content |-> content]
             r == Dialogue!AppendMessage(store, s, c, message)
  <2>1. /\ r.status = 201 /\ store' = r.db /\ UNCHANGED <<axentDay, purge, raced, purged, c4, c4Conv, c4Failed>>
        /\ acked' = IF answered THEN acked \cup {[conv |-> c, message |-> message]} ELSE acked
    BY <1>3 DEF Dialogue!AppendAxentMessage
  <2>2. message \in AxentMessages
    BY DEF AxentMessages
  <2> HIDE DEF message
  <2>3. OthersWrite(store, r.db) /\ r.db.holds = store.holds /\ Holding(r.db, c, message)
    BY ONLY <1>1, <1>3, <2>1, <2>2, OthersAppend
  <2> HIDE DEF r
  <2>4. Acknowledged(store', acked)
    BY <2>1, <2>3, ClientUndisturbed
  <2>5. Acknowledged(store', acked')
    BY <2>1, <2>3, <2>4 DEF Acknowledged
  <2>6. PurgeSpares(store)'
    BY <2>1, <2>3 DEF AxentInv, PurgeSpares
  <2>7. QED
    BY <2>1, <2>3, <2>5, <2>6, OthersKeepAxent
<1>4. ASSUME NEW s \in Subjects, NEW c \in Dialogue!Conversations, NEW date \in axentDay..MaxToday,
             store.convs[c].request # "c4", Dialogue!RequestAxentDeletion(s, c, date)
      PROVE  AxentInv'
  <2> DEFINE r == Dialogue!RequestDeletion(store, s, c, date)
  <2>1. r.status = 202 /\ store' = r.db /\ UNCHANGED <<axentDay, purge, raced, acked, purged, c4, c4Conv, c4Failed>>
    BY <1>4 DEF Dialogue!RequestAxentDeletion
  <2>2. OthersWrite(store, r.db) /\ r.db.holds = store.holds
    BY ONLY <1>1, <1>4, <2>1, OthersAskForDeletion
  <2> HIDE DEF r
  <2>3. Acknowledged(store', acked')
    BY <2>1, <2>2, ClientUndisturbed
  <2>4. PurgeSpares(store)'
    BY <2>1, <2>2 DEF AxentInv, PurgeSpares
  <2>5. QED
    BY <2>1, <2>2, <2>3, <2>4, OthersKeepAxent
<1>5. ASSUME NEW c \in Dialogue!Conversations, store.convs[c].request # "c4",
             Dialogue!HoldConversation(c) \/ Dialogue!ReleaseConversation(c)
      PROVE  AxentInv'
  <2> DEFINE holds2 == IF Dialogue!HoldConversation(c) THEN store.holds \cup {c} ELSE store.holds \ {c}
  <2>1. /\ UNCHANGED <<axentDay, purge, acked, purged, c4, c4Conv, c4Failed>>
        /\ store.convs[c].state # "ABSENT" /\ store' = [store EXCEPT !.holds = holds2]
    <3>1. CASE Dialogue!HoldConversation(c)
      BY <3>1 DEF Dialogue!HoldConversation, Dialogue!PlaceLegalHold, Dialogue!Result
    <3>2. CASE ~Dialogue!HoldConversation(c)
      BY <1>1, <1>5, <3>2 DEF Dialogue!ReleaseConversation, Dialogue!ReleaseLegalHold, Dialogue!Result, AxentInv, Sound, HoldsStand
    <3>3. QED
      BY <3>1, <3>2
  <2>2. \/ holds2 = store.holds \cup {c} /\ raced' = IF c \in purge THEN raced \cup {c} ELSE raced
        \/ holds2 = store.holds \ {c} /\ raced' = raced \ {c}
    BY <1>5 DEF Dialogue!HoldConversation, Dialogue!ReleaseConversation
  <2>3. \A d \in Dialogue!Conversations : d # c => (d \in holds2 <=> d \in store.holds)
    OBVIOUS
  <2> HIDE DEF holds2
  <2>4. OthersWrite(store, store') /\ store'.holds = holds2
    BY <1>1, <1>5, <2>1, <2>3, OthersHold
  <2>5. Acknowledged(store', acked')
    BY <2>1, <2>4, ClientUndisturbed
  <2>6. PurgeSpares(store)'
    BY <2>1, <2>2, <2>4 DEF AxentInv, PurgeSpares
  <2>7. QED
    BY <2>1, <2>4, <2>5, <2>6, OthersKeepAxent
<1>6. CASE Dialogue!PurgeBegins
  <2>1. UNCHANGED <<store, axentDay, raced, acked, purged, c4, c4Conv, c4Failed>> /\ purge' = Dialogue!PurgeDue(store, axentDay)
    BY <1>6 DEF Dialogue!PurgeBegins
  <2>2. c4 \notin 1..16
    BY <1>6 DEF Dialogue!PurgeBegins, Dialogue!Idle, Dialogue!C4Steps
  <2>3. PurgeSpares(store)'
    BY <2>1 DEF PurgeSpares, Dialogue!PurgeDue
  <2>4. ClientStands(store)'
    BY <2>1, <2>2 DEF AxentInv, ClientStands
  <2>5. QED
    BY <2>1, <2>3, <2>4 DEF AxentInv, Acknowledged
<1>7. CASE Dialogue!SwitchWorkspace
  <2> DEFINE operational == ~store.operational
             db2 == [store EXCEPT !.operational = operational]
  <2>1. store' = db2 /\ UNCHANGED <<axentDay, purge, raced, acked, purged, c4, c4Conv, c4Failed>> /\ c4 \notin 1..16
    BY <1>7 DEF Dialogue!SwitchWorkspace, Dialogue!Idle, Dialogue!C4Steps
  <2> HIDE DEF operational
  <2>2. db2 = [made |-> store.made, convs |-> store.convs, holds |-> store.holds, operational |-> operational]
    BY <1>1, SwitchAlone DEF StoreOK
  <2> HIDE DEF db2
  <2>3. db2.made = store.made /\ db2.convs = store.convs /\ db2.holds = store.holds /\ db2.operational = operational
    BY <2>2
  <2>4. Sound(db2)
    BY <1>1, <2>2, <2>3 DEF Sound, HoldsStand, StoreOK, Fields, Rows, Numbered, OneRow, Receipts
  <2>5. Acknowledged(store, acked)' /\ PurgeSpares(store)' /\ ClientStands(store)'
    BY <2>1, <2>3 DEF AxentInv, Acknowledged, Holding, PurgeSpares, ClientStands, Known
  <2>6. QED
    BY <2>1, <2>4, <2>5 DEF AxentInv
<1>8. CASE Dialogue!TimePasses
  <2>1. UNCHANGED <<store, purge, raced, acked, purged, c4, c4Conv, c4Failed>> /\ axentDay' = axentDay + 1 /\ c4 \notin 1..16
    BY <1>8 DEF Dialogue!TimePasses, Dialogue!Idle, Dialogue!C4Steps
  <2>2. QED
    BY <2>1 DEF AxentInv, Acknowledged, PurgeSpares, ClientStands
<1>9. CASE UNCHANGED axentVars
  BY <1>9 DEF axentVars, AxentInv, Acknowledged, PurgeSpares, ClientStands
<1>10. QED
  BY <1>2, <1>3, <1>4, <1>5, <1>6, <1>7, <1>8, <1>9, PurgeKeepsAxent, ClientKeepsAxent DEF Dialogue!AxentNext

LEMMA WordKept == ASSUME AxentInv PROVE Dialogue!AxentKeepsItsWord
<1>1. \A S : Dialogue!Cardinality(S) = Cardinality(S)
  BY Zenon DEF Dialogue!Cardinality, Cardinality
<1>2. ASSUME NEW a \in acked
      PROVE  /\ Dialogue!Cardinality(Dialogue!Receipt(store, a.conv, a.message.request)) = 1
             /\ \E i \in DOMAIN store.convs[a.conv].messages : store.convs[a.conv].messages[i] = a.message
  <2> DEFINE m == store.convs[a.conv].messages
  <2>1. a.conv \in Dialogue!Conversations /\ \E i \in DOMAIN m : m[i] = a.message
    BY <1>2 DEF AxentInv, Acknowledged, Holding
  <2>2. \A i, j \in DOMAIN m : m[i].request = m[j].request => i = j
    BY <2>1 DEF AxentInv, Sound, StoreOK, Receipts
  <2>3. PICK i \in DOMAIN m : m[i] = a.message
    BY <2>1
  <2>4. Dialogue!Receipt(store, a.conv, a.message.request) = {i}
    BY <2>2, <2>3 DEF Dialogue!Receipt
  <2>5. QED
    BY <1>1, <2>1, <2>4, FS_Singleton
<1>3. \A c, d \in Dialogue!Conversations :
        store.convs[c].state # "ABSENT" /\ store.convs[c].request = store.convs[d].request => c = d
  BY DEF AxentInv, Sound, StoreOK, OneRow
<1>4. (\A p \in purged : p.due /\ ~p.held) /\ ~c4Failed
  BY DEF AxentInv
<1>5. QED
  BY <1>2, <1>3, <1>4 DEF Dialogue!AxentKeepsItsWord

\* Axent keeps the messages it acknowledged and what a hold protects, deletes only what is
\* due, gives a request one conversation, and meets every expectation of the C4 client
\* (axent.py, axent_c4_client): for any number of identities, conversations and days.
THEOREM AxentStaysTrue == PlatformSpec => []AxentKeepsItsWord
<1>1. PlatformInit => AxentInv
  BY AxentInitially DEF PlatformInit
<1>2. AxentInv /\ [PlatformNext]_platformVars => AxentInv'
  BY ComponentSteps, AxentKept
<1>3. AxentInv => AxentKeepsItsWord
  BY WordKept DEF AxentKeepsItsWord
<1>4. QED
  BY <1>1, <1>2, <1>3, PTL DEF PlatformSpec

--------------------------------------------------------------------------------
(* The proposal gateway.  evidence_by_fragment is a fold over the references of a batch; what   *)
(* it computes is shown by taking a smallest set of positions for which it would be wrong.      *)

\* The greatest of some positions, which a fold from the left takes last.
Last(S) == CHOOSE x \in S : \A y \in S : x >= y

\* g is the running fold of FirstPerFragment over the subsets of a sequence's positions.
Collecting(g, refs, D) ==
  /\ DOMAIN g = SUBSET D
  /\ \A S \in SUBSET D :
       g[S] = IF S = {} THEN <<>> ELSE Gateway!FirstPerFragment(g[S \ {Last(S)}], refs[Last(S)])

Smallest(B, S) == S \in B /\ \A T \in B : T \subseteq S => T = S
SomeOf(B, n) == B \in SUBSET SUBSET (1..n) /\ B # {}

\* Of some sets of positions, one contains no other.
LEMMA SmallestPositions ==
  ASSUME NEW n \in Nat, NEW B, SomeOf(B, n)
  PROVE  \E S : Smallest(B, S)
<1>0. B \in SUBSET SUBSET (1..n) /\ B # {}
  BY SMTT(30) DEF SomeOf
<1> DEFINE D == 1..n
<1>1. 1 \in Int /\ n \in Int
  OBVIOUS
<1>2. IsFiniteSet(D)
  BY <1>1, FS_Interval
<1> HIDE DEF D
<1>3. IsWellFoundedOn(StrictSubsetOrdering(D), SUBSET D)
  BY <1>2, FS_StrictSubsetOrderingWellFounded, FS_FiniteSubsetsOfFinite
<1>4. B \in SUBSET SUBSET D /\ B # {}
  BY <1>0 DEF D
<1>5. PICK S \in B : \A T \in B : <<T, S>> \notin StrictSubsetOrdering(D)
  BY <1>3, <1>4, WFMin
<1>6. ASSUME NEW T \in B, T \subseteq S PROVE T = S
  BY <1>4, <1>5, <1>6 DEF StrictSubsetOrdering
<1>7. QED
  BY <1>5, <1>6 DEF Smallest

\* Positions have a greatest one.
LEMMA LastIsIn ==
  ASSUME NEW n \in Nat, NEW S \in SUBSET (1..n), S # {}
  PROVE  Last(S) \in S
<1> DEFINE From(x) == {y \in S : y >= x}
           B == {From(x) : x \in S}
<1>1. n \in Nat
  OBVIOUS
<1>2. SomeOf(B, n)
  BY DEF SomeOf
<1>3. PICK M : Smallest(B, M)
  <2> HIDE DEF B
  <2> QED BY ONLY <1>1, <1>2, SmallestPositions
<1>4. PICK x \in S : M = From(x)
  BY <1>3 DEF Smallest
<1>5. ASSUME NEW y \in S PROVE x >= y
  <2>1. x \in Int /\ y \in Int
    OBVIOUS
  <2>2. ASSUME y > x PROVE FALSE
    <3>1. \A z \in S : z >= y => z >= x
      BY <2>1, <2>2
    <3>1a. From(y) \subseteq M
      BY <1>4, <3>1
    <3>2. From(y) = M
      BY <1>3, <3>1a DEF Smallest
    <3>3. x \in From(x) /\ x \notin From(y)
      BY <2>1, <2>2
    <3>4. QED
      BY <1>4, <3>2, <3>3
  <2>3. QED
    BY <2>1, <2>2
<1>6. QED
  BY <1>5 DEF Last

Agree(g, h, D, E) == \A S \in (SUBSET D) \cap SUBSET E : g[S] = h[S]
Places(n) == SUBSET (1..n)

\* Two running folds agree on what is a subset of both.
LEMMA CollectingUnique ==
  ASSUME NEW n \in Nat, NEW D \in Places(n), NEW E \in Places(n), NEW refs, NEW g, NEW h,
         Collecting(g, refs, D), Collecting(h, refs, E)
  PROVE  Agree(g, h, D, E)
<1> USE DEF Places
<1> DEFINE Bad == {S \in (SUBSET D) \cap SUBSET E : g[S] # h[S]}
<1>0. n \in Nat
  OBVIOUS
<1>1. SUFFICES ASSUME Bad # {} PROVE FALSE
  BY DEF Agree
<1>2. PICK S : Smallest(Bad, S)
  <2>1. SomeOf(Bad, n)
    BY <1>1 DEF SomeOf
  <2> HIDE DEF Bad
  <2> QED BY ONLY <1>0, <2>1, SmallestPositions
<1>3. S \in SUBSET D /\ S \in SUBSET E /\ g[S] # h[S]
  BY <1>2 DEF Smallest
<1>4. S # {}
  BY <1>3 DEF Collecting
<1>5. Last(S) \in S
  BY <1>3, <1>4, LastIsIn
<1> DEFINE R == S \ {Last(S)}
<1>6. g[R] = h[R]
  <2>1. R \subseteq S /\ R # S /\ R \in (SUBSET D) \cap SUBSET E
    BY <1>3, <1>5
  <2>2. R \notin Bad
    BY <1>2, <2>1 DEF Smallest
  <2> QED BY <2>1, <2>2
<1>7. /\ g[S] = Gateway!FirstPerFragment(g[R], refs[Last(S)])
      /\ h[S] = Gateway!FirstPerFragment(h[R], refs[Last(S)])
  BY <1>3, <1>4 DEF Collecting
<1> QED BY <1>3, <1>6, <1>7

\* A running fold exists.
LEMMA CollectingExists ==
  ASSUME NEW n \in Nat, NEW D \in SUBSET (1..n), NEW refs
  PROVE  \E g : Collecting(g, refs, D)
<1> DEFINE Good(S) == \E g : Collecting(g, refs, S)
           Bad == {S \in SUBSET D : ~Good(S)}
<1>0. n \in Nat
  OBVIOUS
<1>1. SUFFICES ASSUME Bad # {} PROVE FALSE
  OBVIOUS
<1>2. PICK S : Smallest(Bad, S)
  <2>1. SomeOf(Bad, n)
    BY <1>1 DEF SomeOf
  <2> HIDE DEF Bad
  <2> QED BY ONLY <1>0, <2>1, SmallestPositions
<1>3. S \in SUBSET D /\ ~Good(S)
  BY <1>2 DEF Smallest
<1> DEFINE of(T) == CHOOSE g : Collecting(g, refs, T)
<1>4. ASSUME NEW T \in SUBSET S, T # S PROVE Collecting(of(T), refs, T)
  <2>1. Good(T)
    <3>1. T \in SUBSET D /\ T \notin Bad
      BY <1>2, <1>3, <1>4 DEF Smallest
    <3> QED BY <3>1
  <2> QED BY <2>1
<1> DEFINE Before(T) == T \ {Last(T)}
           last == IF S = {} THEN <<>> ELSE Gateway!FirstPerFragment(of(Before(S))[Before(S)], refs[Last(S)])
           g == [T \in SUBSET S |-> IF T = S THEN last ELSE of(T)[T]]
<1>5. ASSUME NEW T \in SUBSET S
      PROVE  g[T] = IF T = {} THEN <<>> ELSE Gateway!FirstPerFragment(g[T \ {Last(T)}], refs[Last(T)])
  <2> DEFINE R == Before(T)
  <2>0. T # {} => Last(T) \in T
    BY <1>3, LastIsIn
  <2>1. T # {} => R \in SUBSET S /\ R # S /\ R \in SUBSET T /\ R \in SUBSET R
    BY <2>0
  <2>2. T # {} => g[R] = of(R)[R]
    BY <2>1
  <2>3. CASE T = S
    BY <2>2, <2>3
  <2>4. CASE T # S
    <3>1. g[T] = of(T)[T] /\ Collecting(of(T), refs, T)
      BY <2>4, <1>4
    <3>2. CASE T = {}
      BY <3>1, <3>2 DEF Collecting
    <3>3. CASE T # {}
      <4>1. Collecting(of(R), refs, R)
        BY <3>3, <2>1, <1>4
      <4>2. T \in Places(n) /\ R \in Places(n)
        BY <1>3 DEF Places
      <4> HIDE DEF of, Before, g
      <4>3. Agree(of(T), of(R), T, R)
        BY ONLY <1>0, <3>1, <4>1, <4>2, CollectingUnique
      <4>4. of(T)[T] = Gateway!FirstPerFragment(of(T)[R], refs[Last(T)])
        BY <3>1, <3>3 DEF Collecting, Before
      <4> QED BY <3>1, <3>3, <4>3, <4>4, <2>1, <2>2 DEF Before, Agree
    <3> QED BY <3>2, <3>3
  <2> QED BY <2>3, <2>4
<1>6. Collecting(g, refs, S)
  <2>1. DOMAIN g = SUBSET S
    OBVIOUS
  <2> HIDE DEF g
  <2> QED BY <2>1, <1>5 DEF Collecting
<1> QED BY <1>3, <1>6

\* Evidence that accounts for the references at some positions: each record was made of
\* one of them, and each of them has a record of its fragment.
Accounts(seen, refs, S) ==
  /\ seen \in Seq({seen[k] : k \in DOMAIN seen})
  /\ \A k \in DOMAIN seen : \E i \in S : seen[k] = Gateway!EvidenceOf(refs[i])
  /\ \A i \in S : \E k \in DOMAIN seen : seen[k].fragment = refs[i].fragment

LEMMA OneMoreReference ==
  ASSUME NEW refs, NEW S, NEW i \in S, NEW seen, Accounts(seen, refs, S \ {i})
  PROVE  Accounts(Gateway!FirstPerFragment(seen, refs[i]), refs, S)
<1> DEFINE e == Gateway!EvidenceOf(refs[i])
           more == Append(seen, e)
<1>1. e.fragment = refs[i].fragment
  BY DEF Gateway!EvidenceOf
<1>2. CASE \E f \in Gateway!Range(seen) : f.fragment = refs[i].fragment
  <2>1. Gateway!FirstPerFragment(seen, refs[i]) = seen
    BY <1>2 DEF Gateway!FirstPerFragment
  <2>2. \E k \in DOMAIN seen : seen[k].fragment = refs[i].fragment
    BY <1>2 DEF Gateway!Range
  <2>3. Accounts(seen, refs, S)
    BY <2>2 DEF Accounts
  <2>4. QED
    BY <2>1, <2>3
<1>3. CASE ~\E f \in Gateway!Range(seen) : f.fragment = refs[i].fragment
  <2>1. Gateway!FirstPerFragment(seen, refs[i]) = more
    BY <1>3 DEF Gateway!FirstPerFragment
  <2> DEFINE V == {seen[k] : k \in DOMAIN seen}
             W == V \cup {e}
  <2>2. seen \in Seq(V) /\ seen \in Seq(W)
    BY DEF Accounts
  <2> HIDE DEF e, V
  <2>3. /\ more \in Seq(W) /\ Len(more) = Len(seen) + 1
        /\ \A k \in 1..Len(seen) : more[k] = seen[k]
        /\ more[Len(seen) + 1] = e
    BY <2>2
  <2> HIDE DEF more
  <2>4. /\ DOMAIN more = 1..(Len(seen) + 1) /\ DOMAIN seen = 1..Len(seen) /\ Len(seen) \in Nat
    BY <2>2, <2>3
  <2>5. more \in Seq({more[k] : k \in DOMAIN more})
    <3>1. more = [k \in 1..(Len(seen) + 1) |-> more[k]]
      BY <2>3, <2>4
    <3>2. QED
      BY <2>3, <2>4
  <2>6. \A k \in DOMAIN more : k \in DOMAIN seen \/ k = Len(seen) + 1
    BY <2>4
  <2>7. \A k \in DOMAIN more : \E j \in S : more[k] = Gateway!EvidenceOf(refs[j])
    BY <2>3, <2>4, <2>6 DEF Accounts, e
  <2>8. ASSUME NEW j \in S PROVE \E k \in DOMAIN more : more[k].fragment = refs[j].fragment
    <3>1. CASE j = i
      <4>1. Len(seen) + 1 \in DOMAIN more
        BY <2>4
      <4>2. QED
        BY <1>1, <2>3, <3>1, <4>1
    <3>2. CASE j # i
      <4>1. PICK k \in DOMAIN seen : seen[k].fragment = refs[j].fragment
        BY <3>2 DEF Accounts
      <4>2. k \in DOMAIN more /\ more[k] = seen[k]
        BY <2>3, <2>4
      <4>3. QED
        BY <4>1, <4>2
    <3>3. QED
      BY <3>1, <3>2
  <2>9. QED
    BY <2>1, <2>5, <2>7, <2>8 DEF Accounts
<1>4. QED
  BY <1>2, <1>3

\* What evidence_by_fragment holds in the end accounts for every reference.
LEMMA EvidenceAccounts ==
  ASSUME NEW refs, NEW n \in Nat, DOMAIN refs = 1..n
  PROVE  Accounts(Gateway!FoldLeft(Gateway!FirstPerFragment, <<>>, refs), refs, 1..n)
<1> DEFINE Body(h) == [T \in SUBSET (1..n) |->
             IF T = {} THEN <<>> ELSE Gateway!FirstPerFragment(h[T \ {Last(T)}], refs[Last(T)])]
           iter == CHOOSE h : h = Body(h)
<1>1. PICK g : Collecting(g, refs, 1..n)
  BY CollectingExists
<1> DEFINE h0 == [T \in SUBSET (1..n) |-> g[T]]
<1>2. h0 = Body(h0)
  <2>1. ASSUME NEW T \in SUBSET (1..n) PROVE h0[T] = Body(h0)[T]
    BY <1>1 DEF Collecting
  <2> QED BY <2>1
<1>3. iter = Body(iter)
  <2> HIDE DEF Body
  <2> QED BY <1>2
<1>4. Collecting(iter, refs, 1..n)
  <2> HIDE DEF iter
  <2> QED BY <1>3 DEF Collecting
<1>5. Gateway!FoldLeft(Gateway!FirstPerFragment, <<>>, refs) = iter[1..n]
  BY DEF Gateway!FoldLeft, Gateway!MapThenFoldSet, Gateway!Max, Last
<1> HIDE DEF iter
<1> DEFINE Bad == {T \in SUBSET (1..n) : ~Accounts(iter[T], refs, T)}
<1>6. ASSUME Bad # {} PROVE FALSE
  <2>1. PICK T : Smallest(Bad, T)
    <3>1. SomeOf(Bad, n)
      BY <1>6 DEF SomeOf
    <3>2. n \in Nat
      OBVIOUS
    <3> HIDE DEF Bad
    <3> QED BY ONLY <3>1, <3>2, SmallestPositions
  <2>1a. T \in Bad /\ \A U \in Bad : U \subseteq T => U = T
    BY <2>1 DEF Smallest
  <2>2. CASE T = {}
    <3>1. iter[T] = <<>>
      BY <1>4, <2>2 DEF Collecting
    <3>2. Accounts(<<>>, refs, {})
      BY DEF Accounts
    <3> QED BY <2>1a, <2>2, <3>1, <3>2
  <2>3. CASE T # {}
    <3>1. Last(T) \in T
      BY <2>1a, <2>3, LastIsIn
    <3>2. Accounts(iter[T \ {Last(T)}], refs, T \ {Last(T)})
      <4>1. T \ {Last(T)} \in SUBSET (1..n) /\ T \ {Last(T)} # T
        BY <3>1, <2>1a
      <4> QED BY <4>1, <2>1a
    <3>3. iter[T] = Gateway!FirstPerFragment(iter[T \ {Last(T)}], refs[Last(T)])
      BY <1>4, <2>1a, <2>3 DEF Collecting
    <3>4. Accounts(iter[T], refs, T)
      BY <3>1, <3>2, <3>3, OneMoreReference
    <3> QED BY <2>1a, <3>4
  <2> QED BY <2>2, <2>3
<1>7. QED
  BY <1>5, <1>6

LEMMA RangeOfBoth ==
  ASSUME NEW V, NEW a \in Seq(V), NEW b \in Seq(V)
  PROVE  /\ a \o b \in Seq(V)
         /\ \A v \in Gateway!Range(a) \cup Gateway!Range(b) : v \in Gateway!Range(a \o b)
<1>1. /\ a \o b \in Seq(V) /\ Len(a \o b) = Len(a) + Len(b)
      /\ \A i \in 1..(Len(a) + Len(b)) : (a \o b)[i] = IF i <= Len(a) THEN a[i] ELSE b[i - Len(a)]
  OBVIOUS
<1>2. /\ DOMAIN a = 1..Len(a) /\ DOMAIN b = 1..Len(b) /\ DOMAIN (a \o b) = 1..(Len(a) + Len(b))
      /\ Len(a) \in Nat /\ Len(b) \in Nat
  BY <1>1
<1>3. ASSUME NEW v \in Gateway!Range(a) PROVE v \in Gateway!Range(a \o b)
  <2>1. PICK i \in DOMAIN a : v = a[i]
    BY DEF Gateway!Range
  <2>2. i \in DOMAIN (a \o b) /\ (a \o b)[i] = v
    BY <1>1, <1>2, <2>1
  <2>3. QED
    BY <2>2 DEF Gateway!Range
<1>4. ASSUME NEW v \in Gateway!Range(b) PROVE v \in Gateway!Range(a \o b)
  <2>1. PICK i \in DOMAIN b : v = b[i]
    BY DEF Gateway!Range
  <2>2. Len(a) + i \in DOMAIN (a \o b) /\ (a \o b)[Len(a) + i] = v
    BY <1>1, <1>2, <2>1
  <2>3. QED
    BY <2>2 DEF Gateway!Range
<1>5. QED
  BY <1>1, <1>3, <1>4

\* A short sequence of sequences, one after the other, is a sequence of all their elements.
LEMMA Flattened ==
  ASSUME NEW V, NEW ss, ss \in Seq(Seq(V)), Len(ss) \in 1..3
  PROVE  /\ Gateway!FlattenSeq(ss) \in Seq(V)
         /\ \A i \in DOMAIN ss : \A v \in Gateway!Range(ss[i]) : v \in Gateway!Range(Gateway!FlattenSeq(ss))
<1> DEFINE n == Len(ss)
           Body(f) == [i \in 1..n |-> IF i = 1 THEN ss[i] ELSE f[i - 1] \o ss[i]]
           flatten == CHOOSE f : f = Body(f)
           f0 == [i \in 1..n |-> IF i = 1 THEN ss[1]
                                 ELSE IF i = 2 THEN ss[1] \o ss[2] ELSE (ss[1] \o ss[2]) \o ss[3]]
<1>0. n \in 1..3 /\ DOMAIN ss = 1..n /\ \A i \in 1..n : ss[i] \in Seq(V)
  OBVIOUS
<1> HIDE DEF n
<1>1. f0 = Body(f0)
  <2>1. ASSUME NEW i \in 1..n PROVE f0[i] = Body(f0)[i]
    <3>1. i = 1 \/ i = 2 \/ i = 3
      BY <1>0
    <3>2. i # 1 => i - 1 \in 1..n
      BY <1>0
    <3>3. QED
      BY <3>1, <3>2
  <2>2. QED
    BY <2>1
<1>2. flatten = Body(flatten)
  <2> HIDE DEF Body
  <2> QED BY <1>1
<1>3. Gateway!FlattenSeq(ss) = flatten[n]
  <2>1. Len(ss) # 0
    BY <1>0 DEF n
  <2>2. QED
    BY <2>1 DEF Gateway!FlattenSeq, n
<1> HIDE DEF flatten
<1>4. \A i \in 1..n : flatten[i] = IF i = 1 THEN ss[i] ELSE flatten[i - 1] \o ss[i]
  BY <1>2
<1> DEFINE Good(i) == /\ flatten[i] \in Seq(V)
                      /\ \A k \in 1..i : \A v \in Gateway!Range(ss[k]) : v \in Gateway!Range(flatten[i])
<1>5. Good(1)
  BY <1>0, <1>4
<1>6. ASSUME NEW i \in 1..n, i # 1, Good(i - 1) PROVE Good(i)
  <2> DEFINE a == flatten[i - 1]
             b == ss[i]
  <2>1. a \in Seq(V) /\ b \in Seq(V) /\ flatten[i] = a \o b
    BY <1>0, <1>4, <1>6
  <2>2. \A v \in Gateway!Range(a) \cup Gateway!Range(b) : v \in Gateway!Range(a \o b)
    BY <2>1, RangeOfBoth
  <2>3. \A k \in 1..i : k = i \/ k \in 1..(i - 1)
    BY <1>0
  <2> QED BY <1>6, <2>1, <2>2, <2>3
<1>7. Good(n)
  <2> HIDE DEF Good
  <2>1. n = 1 \/ n = 2 \/ n = 3
    BY <1>0
  <2>2. ASSUME n = 2 \/ n = 3 PROVE Good(2)
    <3>1. 2 \in 1..n /\ 2 # 1 /\ 2 - 1 = 1
      BY <2>2
    <3>2. QED
      BY <3>1, <1>5, <1>6
  <2>3. ASSUME n = 3 PROVE Good(3)
    <3>1. 3 \in 1..n /\ 3 # 1 /\ 3 - 1 = 2
      BY <2>3
    <3>2. QED
      BY <3>1, <2>2, <2>3, <1>6
  <2>4. QED
    BY <2>1, <2>2, <2>3, <1>5
<1>8. QED
  BY <1>0, <1>3, <1>7

\* A batch whose references have been bound to the fragments of a document.
Grounded(stated, fragments) ==
  /\ Gateway!IsBatch(stated) /\ Len(stated) \in 1..3
  /\ \A i \in DOMAIN stated : stated[i].refs # <<>>
  /\ \A ref \in Gateway!Range(Gateway!References(stated)) : Gateway!Cites(fragments, ref)

\* A claim's references are among those of its batch.
LEMMA ReferencesOfClaims ==
  ASSUME NEW stated, Gateway!IsBatch(stated), Len(stated) \in 1..3
  PROVE  /\ DOMAIN Gateway!References(stated) = 1..Len(Gateway!References(stated))
         /\ Len(Gateway!References(stated)) \in Nat
         /\ \A i \in DOMAIN stated :
              Gateway!Range(stated[i].refs) \subseteq Gateway!Range(Gateway!References(stated))
<1> DEFINE ss == [i \in DOMAIN stated |-> stated[i].refs]
           V == UNION {Gateway!Range(stated[i].refs) : i \in DOMAIN stated}
<1>1. stated \in Seq(Gateway!Range(stated)) /\ DOMAIN stated = 1..Len(stated) /\ Len(stated) \in Nat
  BY DEF Gateway!IsBatch
<1>2. ASSUME NEW i \in DOMAIN stated PROVE stated[i].refs \in Seq(V)
  <2>1. stated[i] \in Gateway!Range(stated)
    BY DEF Gateway!Range
  <2>2. stated[i].refs \in Seq(Gateway!Range(stated[i].refs))
    BY <2>1 DEF Gateway!IsBatch
  <2>3. Gateway!Range(stated[i].refs) \subseteq V
    OBVIOUS
  <2> HIDE DEF V
  <2> QED BY <2>2, <2>3
<1> HIDE DEF V
<1>3. ss \in Seq(Seq(V)) /\ Len(ss) = Len(stated) /\ DOMAIN ss = DOMAIN stated
  BY <1>1, <1>2
<1>4. Gateway!References(stated) = Gateway!FlattenSeq(ss)
  BY DEF Gateway!References
<1>5. \A i \in DOMAIN stated : ss[i] = stated[i].refs
  OBVIOUS
<1> HIDE DEF ss
<1>6. Gateway!FlattenSeq(ss) \in Seq(V)
  BY <1>3, Flattened
<1>7. \A i \in DOMAIN stated : \A v \in Gateway!Range(ss[i]) : v \in Gateway!Range(Gateway!FlattenSeq(ss))
  BY <1>3, Flattened
<1>8. QED
  BY <1>4, <1>5, <1>6, <1>7

\* What a result is made of: the batch that was bound to the document it names.
Drafts(batch, opportunity) ==
  [i \in DOMAIN batch.claims |-> Gateway!CandidateDraft(batch.claims[i], batch, opportunity)]

Came(r, batch) ==
  /\ Grounded(batch.claims, r.fragments)
  /\ Gateway!Detections(r.fragments) = {}
  /\ r.producer = r.asked /\ r.model = Gateway!ModelOf[r.asked]
  /\ r.evidence = Gateway!EvidenceRecords(batch.claims)
  /\ r.candidates = Drafts(batch, r.opportunity)
  /\ r.sections = Gateway!DossierSections(r.candidates)
  /\ r.hash = Gateway!ReproducibilityHash(r.fragments, r.candidates)

GatewayInv ==
  /\ {"gateway", "fixture", "job"} \subseteq DOMAIN proposer
  /\ proposer.gateway \in Gateway!Gateways
  /\ proposer.fixture \in Batches \cup {Gateway!NoAnswer}
  /\ DOMAIN outcome = Jobs
  /\ \A j \in Jobs : outcome[j].kind = "RESULT" => \E batch : Came(outcome[j], batch)

LEMMA GatewayInitially == Gateway!GatewayInit => GatewayInv
<1>1. /\ {"gateway", "fixture", "job"} \subseteq DOMAIN Gateway!Down
      /\ Gateway!Down.gateway = Gateway!Frozen /\ Gateway!Down.fixture = Gateway!NoAnswer
  BY DEF Gateway!Down
<1>2. Gateway!Pending.kind # "RESULT"
  BY DEF Gateway!Pending
<1>3. QED
  BY <1>1, <1>2 DEF Gateway!GatewayInit, GatewayInv, Gateway!Gateways

\* What a gateway answers is well formed and has the claims of a batch.
LEMMA AnswersAreBatches ==
  ASSUME GatewayInv, NEW reply \in Batches, Gateway!Answer(reply) # Gateway!NoAnswer
  PROVE  /\ Gateway!WellFormed(Gateway!Answer(reply))
         /\ Gateway!IsBatch(Gateway!Answer(reply).claims)
<1> DEFINE asked == proposer.gateway
           said == CASE asked = Gateway!DeepSeek -> Gateway!AskDeepSeek(reply)
                     [] asked = Gateway!Local -> Gateway!AskLocal(reply)
                     [] asked = Gateway!Frozen -> proposer.fixture
<1>1. Gateway!Answer(reply) = said /\ Gateway!WellFormed(said)
  BY DEF Gateway!Answer
<1>2. ASSUME NEW b \in Batches PROVE Gateway!IsBatch(b.claims) /\ DOMAIN b = {"producer", "model", "claims"}
  BY BatchesAssumption
<1>3. Gateway!AskDeepSeek(reply).claims = reply.claims
  BY <1>2 DEF Gateway!AskDeepSeek
<1>4. Gateway!AskLocal(reply).claims = reply.claims
  BY DEF Gateway!AskLocal
<1>5. proposer.fixture = Gateway!NoAnswer \/ proposer.fixture \in Batches
  BY DEF GatewayInv
<1>6. ~Gateway!WellFormed(Gateway!NoAnswer)
  <2>1. Gateway!NoAnswer.claims = <<>> /\ Len(<<>>) = 0
    BY DEF Gateway!NoAnswer
  <2>2. QED
    BY <2>1 DEF Gateway!WellFormed
<1>7. asked = Gateway!DeepSeek \/ asked = Gateway!Local \/ asked = Gateway!Frozen
  BY DEF GatewayInv, Gateway!Gateways
<1>8. Gateway!IsBatch(said.claims)
  <2>1. CASE asked = Gateway!DeepSeek
    <3>1. said = Gateway!AskDeepSeek(reply)
      BY <2>1 DEF Gateway!DeepSeek, Gateway!Local, Gateway!Frozen
    <3>2. QED
      BY <3>1, <1>2, <1>3
  <2>2. CASE asked # Gateway!DeepSeek /\ asked = Gateway!Local
    <3>1. said = Gateway!AskLocal(reply)
      BY <2>2 DEF Gateway!DeepSeek, Gateway!Local, Gateway!Frozen
    <3>2. QED
      BY <3>1, <1>2, <1>4
  <2>3. CASE asked # Gateway!DeepSeek /\ asked # Gateway!Local
    <3>1. said = proposer.fixture
      BY <2>3, <1>7
    <3>2. QED
      BY <3>1, <1>1, <1>2, <1>5, <1>6
  <2>4. QED
    BY <2>1, <2>2, <2>3
<1>9. QED
  BY <1>1, <1>8

\* A result came of the batch it was made of.
LEMMA ResultsCame ==
  ASSUME GatewayInv, NEW reply \in Batches, NEW j, Gateway!Pipeline(reply, j).kind = "RESULT"
  PROVE  \E batch : Came(Gateway!Pipeline(reply, j), batch)
<1> DEFINE fragments == proposer.document.fragments
           batch == Gateway!Answer(reply)
           r == Gateway!ResultOf(batch, j)
<1>1. \A kind \in {"FAILED", "QUARANTINED"} : Gateway!Refused(kind).kind # "RESULT"
  BY DEF Gateway!Refused, Gateway!Pending
<1>2. /\ Gateway!Pipeline(reply, j) = r
      /\ Gateway!Detections(fragments) = {}
      /\ batch # Gateway!NoAnswer /\ Gateway!IdentityMatches(batch)
      /\ \A ref \in Gateway!Range(Gateway!References(batch.claims)) : Gateway!Cites(fragments, ref)
  BY <1>1 DEF Gateway!Pipeline
<1>3. Gateway!WellFormed(batch) /\ Gateway!IsBatch(batch.claims)
  BY <1>2, AnswersAreBatches
<1> HIDE DEF batch
<1>4. /\ r.fragments = fragments /\ r.asked = proposer.gateway
      /\ r.producer = batch.producer /\ r.model = batch.model
      /\ r.evidence = Gateway!EvidenceRecords(batch.claims)
      /\ r.opportunity = OpportunityOf[j]
      /\ r.candidates = Drafts(batch, OpportunityOf[j])
      /\ r.sections = Gateway!DossierSections(r.candidates)
      /\ r.hash = Gateway!ReproducibilityHash(fragments, r.candidates)
  BY DEF Gateway!ResultOf, Drafts
<1> HIDE DEF r
<1>5. Grounded(batch.claims, r.fragments)
  BY <1>2, <1>3, <1>4 DEF Grounded, Gateway!WellFormed
<1>6. Came(r, batch)
  BY <1>2, <1>4, <1>5 DEF Came, Gateway!IdentityMatches
<1>7. QED
  BY <1>2, <1>6

LEMMA GatewayKept ==
  ASSUME GatewayInv, [Gateway!GatewayNext]_gatewayVars
  PROVE  GatewayInv'
<1> USE DEF GatewayInv
<1>1. ASSUME NEW s \in Gateway!WorkerSettings, NEW f \in DocumentFiles, NEW b \in Batches,
             Gateway!BuildRuntime(s, f, b)
      PROVE  GatewayInv'
  <2>1. UNCHANGED outcome
    BY <1>1 DEF Gateway!BuildRuntime
  <2>2. \A j \in Jobs : outcome[j].kind = "RESULT" => \E batch : Came(outcome'[j], batch)
    BY <2>1
  <2>3. /\ {"gateway", "fixture", "job"} \subseteq DOMAIN proposer'
        /\ proposer'.gateway \in Gateway!Gateways
        /\ proposer'.fixture \in Batches \cup {Gateway!NoAnswer}
    BY <1>1 DEF Gateway!BuildRuntime, Gateway!GatewayOf, Gateway!Gateways
  <2>4. QED
    BY <2>1, <2>2, <2>3
<1>2. CASE Gateway!Stops
  BY <1>2 DEF Gateway!Stops, Gateway!Down, Gateway!Gateways
<1>3. ASSUME NEW j \in Jobs, Gateway!Deliver(j) PROVE GatewayInv'
  BY <1>3 DEF Gateway!Deliver
<1>4. CASE Gateway!RunOnce
  BY <1>4 DEF Gateway!RunOnce
<1>5. ASSUME NEW reply \in Batches, Gateway!Propose(reply) PROVE GatewayInv'
  <2>1. PICK j \in proposer.job :
           /\ outcome' = [outcome EXCEPT ![j] = Gateway!Pipeline(reply, j)]
           /\ proposer' = [proposer EXCEPT !.job = {}]
    BY <1>5 DEF Gateway!Propose
  <2>2. ASSUME NEW i \in Jobs, outcome'[i].kind = "RESULT" PROVE \E batch : Came(outcome'[i], batch)
    <3>1. CASE i = j
      <4>1. outcome'[i] = Gateway!Pipeline(reply, j)
        BY <2>1, <3>1
      <4>2. QED
        BY <2>2, <4>1, ResultsCame
    <3>2. CASE i # j
      <4>1. outcome'[i] = outcome[i]
        BY <2>1, <3>2
      <4>2. QED
        BY <2>2, <4>1
    <3>3. QED
      BY <3>1, <3>2
  <2>3. DOMAIN outcome' = Jobs
    BY <2>1
  <2>4. /\ {"gateway", "fixture", "job"} \subseteq DOMAIN proposer'
        /\ proposer'.gateway = proposer.gateway /\ proposer'.fixture = proposer.fixture
    BY <2>1
  <2>5. QED
    BY <2>2, <2>3, <2>4
<1>6. CASE UNCHANGED gatewayVars
  BY <1>6 DEF gatewayVars
<1>7. QED
  BY <1>1, <1>2, <1>3, <1>4, <1>5, <1>6 DEF Gateway!GatewayNext

\* Every key of a candidate has its evidence, and every evidence its fragment.
LEMMA EvidenceIsBound ==
  ASSUME NEW r, NEW batch, Came(r, batch)
  PROVE  /\ \A e \in Gateway!Range(r.evidence) : e.fragment \in Gateway!Range(r.fragments) /\ e.quote = e.content
         /\ \A c \in Gateway!Range(r.candidates) : Gateway!HandoffReady(c, r.evidence)
<1> DEFINE refs == Gateway!References(batch.claims)
           n == Len(refs)
           seen == Gateway!EvidenceRecords(batch.claims)
<1>1. /\ DOMAIN refs = 1..n /\ n \in Nat
      /\ \A i \in DOMAIN batch.claims : Gateway!Range(batch.claims[i].refs) \subseteq Gateway!Range(refs)
  BY ReferencesOfClaims DEF Came, Grounded
<1>2. Accounts(seen, refs, 1..n)
  BY <1>1, EvidenceAccounts DEF Gateway!EvidenceRecords
<1>3. r.evidence = seen
  BY DEF Came
<1>4. \A ref \in Gateway!Range(refs) : Gateway!Cites(r.fragments, ref)
  BY DEF Came, Grounded
<1> HIDE DEF refs, seen, n
<1>5. ASSUME NEW e \in Gateway!Range(seen)
      PROVE  e.fragment \in Gateway!Range(r.fragments) /\ e.quote = e.content
  <2>1. PICK k \in DOMAIN seen : e = seen[k]
    BY DEF Gateway!Range
  <2>2. PICK i \in 1..n : e = Gateway!EvidenceOf(refs[i])
    BY <1>2, <2>1 DEF Accounts
  <2>3. refs[i] \in Gateway!Range(refs)
    BY <1>1 DEF Gateway!Range
  <2>4. Gateway!Cites(r.fragments, refs[i])
    BY <1>4, <2>3
  <2>5. QED
    BY <2>2, <2>4 DEF Gateway!EvidenceOf, Gateway!Cites, Gateway!Available
<1>6. ASSUME NEW c \in Gateway!Range(r.candidates) PROVE Gateway!HandoffReady(c, seen)
  <2>1. PICK i \in DOMAIN batch.claims : c = Gateway!CandidateDraft(batch.claims[i], batch, r.opportunity)
    BY DEF Came, Drafts, Gateway!Range
  <2> DEFINE cited == batch.claims[i].refs
  <2>2. c.keys = [k \in DOMAIN cited |-> cited[k].fragment]
    BY <2>1 DEF Gateway!CandidateDraft, Gateway!EvidenceKeys
  <2>3. cited # <<>> /\ cited \in Seq(Gateway!Range(cited))
    <3>1. batch.claims[i] \in Gateway!Range(batch.claims)
      BY DEF Gateway!Range
    <3>2. QED
      BY <3>1 DEF Came, Grounded, Gateway!IsBatch
  <2> HIDE DEF cited
  <2>4. 1 \in DOMAIN cited
    BY <2>3
  <2>5. c.keys # <<>>
    <3>1. DOMAIN c.keys = DOMAIN cited
      BY <2>2
    <3>2. DOMAIN <<>> = {}
      OBVIOUS
    <3>3. QED
      BY <2>4, <3>1, <3>2
  <2>6. ASSUME NEW key \in Gateway!Range(c.keys) PROVE \E e \in Gateway!Range(seen) : e.fragment = key
    <3>1. PICK k \in DOMAIN cited : key = cited[k].fragment
      BY <2>2 DEF Gateway!Range
    <3>2. cited[k] \in Gateway!Range(refs)
      BY <1>1 DEF Gateway!Range, cited
    <3>3. PICK m \in 1..n : refs[m] = cited[k]
      BY <1>1, <3>2 DEF Gateway!Range
    <3>4. PICK s \in DOMAIN seen : seen[s].fragment = refs[m].fragment
      BY <1>2 DEF Accounts
    <3>5. seen[s] \in Gateway!Range(seen)
      BY DEF Gateway!Range
    <3>6. QED
      BY <3>1, <3>3, <3>4, <3>5
  <2>7. QED
    BY <2>5, <2>6 DEF Gateway!HandoffReady
<1>7. QED
  BY <1>3, <1>5, <1>6

\* What two claims cite is the same if the fragments are, because they quote what they cite.
LEMMA SameKeysSameReferences ==
  ASSUME NEW a, NEW b, NEW fragments, NEW others,
         Grounded(a, fragments), Grounded(b, others),
         DOMAIN a = DOMAIN b,
         \A i \in DOMAIN a : Gateway!EvidenceKeys(a[i]) = Gateway!EvidenceKeys(b[i])
  PROVE  Gateway!EvidenceRecords(a) = Gateway!EvidenceRecords(b)
<1>1. ASSUME NEW stated, NEW frags, Grounded(stated, frags), NEW i \in DOMAIN stated
      PROVE  /\ stated[i].refs = [k \in DOMAIN stated[i].refs |-> stated[i].refs[k]]
             /\ \A k \in DOMAIN stated[i].refs :
                  stated[i].refs[k] = [fragment |-> stated[i].refs[k].fragment, quote |-> stated[i].refs[k].fragment]
  <2> DEFINE refs == stated[i].refs
  <2>1. stated[i] \in Gateway!Range(stated)
    BY DEF Gateway!Range
  <2>2. /\ refs \in Seq(Gateway!Range(refs))
        /\ \A ref \in Gateway!Range(refs) : ref = [fragment |-> ref.fragment, quote |-> ref.quote]
    BY <1>1, <2>1 DEF Grounded, Gateway!IsBatch
  <2>3. Gateway!Range(refs) \subseteq Gateway!Range(Gateway!References(stated))
    BY <1>1, ReferencesOfClaims DEF Grounded
  <2>4. \A ref \in Gateway!Range(refs) : ref.quote = ref.fragment
    BY <1>1, <2>3 DEF Grounded, Gateway!Cites
  <2> HIDE DEF refs
  <2>5. \A k \in DOMAIN refs : refs[k] \in Gateway!Range(refs)
    BY DEF Gateway!Range
  <2>6. \A k \in DOMAIN refs : refs[k] = [fragment |-> refs[k].fragment, quote |-> refs[k].fragment]
    <3>1. TAKE k \in DOMAIN refs
    <3>2. refs[k] = [fragment |-> refs[k].fragment, quote |-> refs[k].quote] /\ refs[k].quote = refs[k].fragment
      BY <2>2, <2>4, <2>5
    <3>3. QED
      BY ONLY <3>2, Zenon
  <2>7. refs = [k \in DOMAIN refs |-> refs[k]]
    BY <2>2
  <2>8. QED
    BY <2>6, <2>7 DEF refs
<1>2. ASSUME NEW i \in DOMAIN a PROVE a[i].refs = b[i].refs
  <2> DEFINE x == a[i].refs
             y == b[i].refs
  <2>1. [k \in DOMAIN x |-> x[k].fragment] = [k \in DOMAIN y |-> y[k].fragment]
    BY <1>2 DEF Gateway!EvidenceKeys
  <2>2. /\ x = [k \in DOMAIN x |-> x[k]] /\ y = [k \in DOMAIN y |-> y[k]]
        /\ \A k \in DOMAIN x : x[k] = [fragment |-> x[k].fragment, quote |-> x[k].fragment]
        /\ \A k \in DOMAIN y : y[k] = [fragment |-> y[k].fragment, quote |-> y[k].fragment]
    BY <1>1
  <2> HIDE DEF x, y
  <2>3. DOMAIN x = DOMAIN y /\ \A k \in DOMAIN x : x[k].fragment = y[k].fragment
    BY <2>1
  <2>4. ASSUME NEW k \in DOMAIN x PROVE x[k] = y[k]
    <3>1. /\ x[k] = [fragment |-> x[k].fragment, quote |-> x[k].fragment]
          /\ y[k] = [fragment |-> y[k].fragment, quote |-> y[k].fragment]
          /\ x[k].fragment = y[k].fragment
      BY <2>2, <2>3
    <3>2. QED
      BY ONLY <3>1, Zenon
  <2>5. x = y
    BY <2>2, <2>3, <2>4
  <2>6. QED
    BY <2>5 DEF x, y
<1>3. [i \in DOMAIN a |-> a[i].refs] = [i \in DOMAIN b |-> b[i].refs]
  BY <1>2
<1>4. Gateway!References(a) = Gateway!References(b)
  BY <1>3 DEF Gateway!References
<1>5. QED
  BY <1>4 DEF Gateway!EvidenceRecords

\* Two results of any batches.
LEMMA ResultsTellApart ==
  ASSUME NEW r, NEW batch, Came(r, batch), NEW other, NEW another, Came(other, another)
  PROVE  /\ r.opportunity # other.opportunity =>
              \A c \in Gateway!Range(r.candidates), d \in Gateway!Range(other.candidates) : c.id # d.id
         /\ r.hash = other.hash => r.evidence = other.evidence
<1> DEFINE DraftOf(b, o, i) == Gateway!CandidateDraft(b.claims[i], b, o)
<1>1. \A b, o, i : /\ DraftOf(b, o, i).id[1] = o
                   /\ DraftOf(b, o, i).id[4] = Gateway!EvidenceKeys(b.claims[i])
  BY DEF Gateway!CandidateDraft, Gateway!Fingerprint
<1>2. /\ r.candidates = [i \in DOMAIN batch.claims |-> DraftOf(batch, r.opportunity, i)]
      /\ other.candidates = [i \in DOMAIN another.claims |-> DraftOf(another, other.opportunity, i)]
  BY DEF Came, Drafts
<1> HIDE DEF DraftOf
<1>3. ASSUME r.opportunity # other.opportunity,
             NEW c \in Gateway!Range(r.candidates), NEW d \in Gateway!Range(other.candidates)
      PROVE  c.id # d.id
  <2>1. PICK i : c = DraftOf(batch, r.opportunity, i)
    BY <1>2 DEF Gateway!Range
  <2>2. PICK k : d = DraftOf(another, other.opportunity, k)
    BY <1>2 DEF Gateway!Range
  <2>3. c.id[1] = r.opportunity /\ d.id[1] = other.opportunity
    BY <1>1, <2>1, <2>2
  <2>4. QED
    BY <1>3, <2>3
<1>4. ASSUME r.hash = other.hash PROVE r.evidence = other.evidence
  <2> DEFINE x == [i \in DOMAIN r.candidates |-> r.candidates[i].id]
             y == [i \in DOMAIN other.candidates |-> other.candidates[i].id]
  <2>1. <<r.fragments, x>> = <<other.fragments, y>>
    BY <1>4 DEF Came, Gateway!ReproducibilityHash
  <2>2. x = y
    BY <2>1
  <2>3. /\ DOMAIN x = DOMAIN batch.claims /\ DOMAIN y = DOMAIN another.claims
        /\ \A i \in DOMAIN batch.claims : x[i][4] = Gateway!EvidenceKeys(batch.claims[i])
        /\ \A i \in DOMAIN another.claims : y[i][4] = Gateway!EvidenceKeys(another.claims[i])
    BY <1>1, <1>2
  <2> HIDE DEF x, y
  <2>4. /\ DOMAIN batch.claims = DOMAIN another.claims
        /\ \A i \in DOMAIN batch.claims :
             Gateway!EvidenceKeys(batch.claims[i]) = Gateway!EvidenceKeys(another.claims[i])
    BY <2>2, <2>3
  <2>5. Grounded(batch.claims, r.fragments) /\ Grounded(another.claims, other.fragments)
    BY DEF Came
  <2>6. Gateway!EvidenceRecords(batch.claims) = Gateway!EvidenceRecords(another.claims)
    BY <2>4, <2>5, SameKeysSameReferences
  <2>7. QED
    BY <2>6 DEF Came
<1>5. QED
  BY <1>3, <1>4

LEMMA ResultsAreTraceable == GatewayInv => Gateway!ProposalsAreTraceable
<1> SUFFICES ASSUME GatewayInv PROVE Gateway!ProposalsAreTraceable
  OBVIOUS
<1>1. \A r \in Gateway!Results : \E batch : Came(r, batch)
  BY DEF Gateway!Results, GatewayInv
<1>2. ASSUME NEW r \in Gateway!Results
      PROVE  /\ Gateway!Detections(r.fragments) = {}
             /\ r.producer = r.asked /\ r.model = Gateway!ModelOf[r.asked]
             /\ \A e \in Gateway!Range(r.evidence) :
                  e.fragment \in Gateway!Range(r.fragments) /\ e.quote = e.content
             /\ \A c \in Gateway!Range(r.candidates) :
                  /\ Gateway!HandoffReady(c, r.evidence)
                  /\ \E s \in Gateway!Range(r.sections) : s.candidate = c.id /\ s.keys = c.keys
             /\ \A other \in Gateway!Results :
                  /\ r.opportunity # other.opportunity =>
                       \A c \in Gateway!Range(r.candidates), d \in Gateway!Range(other.candidates) : c.id # d.id
                  /\ r.hash = other.hash => r.evidence = other.evidence
  <2>1. PICK batch : Came(r, batch)
    BY <1>1
  <2>2. /\ Gateway!Detections(r.fragments) = {}
        /\ r.producer = r.asked /\ r.model = Gateway!ModelOf[r.asked]
        /\ r.sections = Gateway!DossierSections(r.candidates)
    BY <2>1 DEF Came
  <2>3. /\ \A e \in Gateway!Range(r.evidence) :
             e.fragment \in Gateway!Range(r.fragments) /\ e.quote = e.content
        /\ \A c \in Gateway!Range(r.candidates) : Gateway!HandoffReady(c, r.evidence)
    BY <2>1, EvidenceIsBound
  <2>4. ASSUME NEW c \in Gateway!Range(r.candidates)
        PROVE  \E s \in Gateway!Range(r.sections) : s.candidate = c.id /\ s.keys = c.keys
    <3>1. PICK i \in DOMAIN r.candidates : c = r.candidates[i]
      BY DEF Gateway!Range
    <3>2. i \in DOMAIN r.sections /\ r.sections[i].candidate = c.id /\ r.sections[i].keys = c.keys
      BY <2>2, <3>1 DEF Gateway!DossierSections
    <3>3. QED
      BY <3>2 DEF Gateway!Range
  <2>5. ASSUME NEW other \in Gateway!Results
        PROVE  /\ r.opportunity # other.opportunity =>
                    \A c \in Gateway!Range(r.candidates), d \in Gateway!Range(other.candidates) : c.id # d.id
               /\ r.hash = other.hash => r.evidence = other.evidence
    <3>1. PICK another : Came(other, another)
      BY <1>1
    <3>2. QED
      BY <2>1, <3>1, ResultsTellApart
  <2> QED
    BY <2>2, <2>3, <2>4, <2>5
<1>3. QED
  BY <1>2 DEF Gateway!ProposalsAreTraceable

\* Whatever the models answered and whenever the worker was restarted with another document,
\* fixture or gateway, a result of the document pipeline (proposal_worker.py) quotes only what
\* its document says, names whom it asked, can be handed on, and shares no candidate with
\* another opportunity: for any documents, batches and jobs.
THEOREM ProposalsStayTraceable == PlatformSpec => []ProposalsAreTraceable
<1>1. PlatformInit => GatewayInv
  BY GatewayInitially DEF PlatformInit
<1>2. GatewayInv /\ [PlatformNext]_platformVars => GatewayInv'
  BY ComponentSteps, GatewayKept
<1>3. GatewayInv => ProposalsAreTraceable
  BY ResultsAreTraceable DEF ProposalsAreTraceable
<1>4. QED
  BY <1>1, <1>2, <1>3, PTL DEF PlatformSpec

--------------------------------------------------------------------------------
(* The authority of a request *)

Stamps == [iat : Nat, exp : Int]

\* What makes the property inductive: but for the signer's lead an assertion is at least as
\* old as the session is gone, because only a session that resolves is asserted and one that
\* is gone does not come back.
AuthorityInv ==
  /\ clock \in Nat /\ gone \in Nat /\ apiConfig.lead \in Nat
  /\ assertion \in Stamps
  /\ grants \in [Reservations -> Stamps]
  /\ held \in [Reservations -> {"NONE", "RESERVED", "SETTLED"}]
  /\ gone <= clock /\ assertion.iat + gone <= clock + apiConfig.lead
  /\ Requests!Resolvable => gone = 0

LEMMA AuthorityInitially == Requests!TimesAreNumbers /\ Requests!RequestInit => AuthorityInv
<1> SUFFICES ASSUME Requests!TimesAreNumbers, Requests!RequestInit PROVE AuthorityInv
  OBVIOUS
<1>1. Requests!Nothing \in Stamps /\ Requests!Nothing.iat = 0
  BY DEF Requests!Nothing, Stamps
<1>2. QED
  BY <1>1 DEF Requests!RequestInit, Requests!TimesAreNumbers, AuthorityInv

LEMMA AuthorityKept ==
  ASSUME Requests!TimesAreNumbers, AuthorityInv, [Requests!RequestNext]_authorityVars
  PROVE  AuthorityInv'
<1> USE DEF AuthorityInv, Stamps
<1>1. ASSUME NEW life \in Lifetimes, Requests!Assert(life) PROVE AuthorityInv'
  <2>1. gone' = 0 /\ assertion' \in Stamps /\ assertion'.iat = clock + apiConfig.lead
    BY <1>1 DEF Requests!Assert, Requests!TimesAreNumbers
  <2>2. QED
    BY <1>1, <2>1 DEF Requests!Assert
<1>2. CASE Requests!SessionEnds
  <2>1. Requests!Resolvable' => Requests!Resolvable
    BY <1>2 DEF Requests!SessionEnds, Requests!Resolvable
  <2>2. QED
    BY <1>2, <2>1 DEF Requests!SessionEnds
<1>3. CASE Requests!Rotate
  <2>1. Requests!Resolvable' => Requests!Resolvable
    BY <1>3 DEF Requests!Rotate, Requests!Resolvable
  <2>2. Requests!Nothing \in Stamps /\ Requests!Nothing.iat = 0
    BY DEF Requests!Nothing
  <2>3. QED
    BY <1>3, <2>1, <2>2 DEF Requests!Rotate
<1>4. CASE Requests!Tick
  BY <1>4 DEF Requests!Tick
<1>5. ASSUME NEW to, Requests!SeatChanges(to) PROVE AuthorityInv'
  <2>1. Requests!Resolvable' => Requests!Resolvable
    BY <1>5 DEF Requests!SeatChanges, Requests!Resolvable
  <2>2. QED
    BY <1>5, <2>1 DEF Requests!SeatChanges
<1>6. ASSUME NEW r \in Reservations, Requests!AuthorizeAI(r) PROVE AuthorityInv'
  <2>1. Requests!Resolvable' => Requests!Resolvable
    <3>1. CASE apiConfig.identity
      BY <1>6, <3>1 DEF Requests!AuthorizeAI, Requests!GovernedAuthorization, Requests!StartPreparedTrial, Requests!Resolvable
    <3>2. CASE ~apiConfig.identity
      BY <1>6, <3>2 DEF Requests!AuthorizeAI, Requests!GovernedAuthorization, Requests!Resolvable
    <3>3. QED
      BY <3>1, <3>2
  <2>2. Requests!BuildCapabilityToken \in Stamps
    BY DEF Requests!BuildCapabilityToken, Requests!TimesAreNumbers
  <2>3. QED
    BY <1>6, <2>1, <2>2 DEF Requests!AuthorizeAI
<1>7. ASSUME NEW r \in Reservations, NEW of \in Reservations, Requests!SettleAI(r, of) PROVE AuthorityInv'
  <2>1. Requests!Resolvable' => Requests!Resolvable
    BY <1>7 DEF Requests!SettleAI, Requests!Resolvable
  <2>2. QED
    BY <1>7, <2>1 DEF Requests!SettleAI
<1>8. CASE Requests!ActivateTrial
  <2>1. Requests!Resolvable' => Requests!Resolvable
    BY <1>8 DEF Requests!ActivateTrial, Requests!Resolvable
  <2>2. QED
    BY <1>8, <2>1 DEF Requests!ActivateTrial
<1>9. CASE Requests!AuthorizationRefused
  <2>1. Requests!Resolvable' => Requests!Resolvable
    BY <1>9 DEF Requests!AuthorizationRefused, Requests!GovernedAuthorization, Requests!StartPreparedTrial, Requests!Resolvable
  <2>2. QED
    BY <1>9, <2>1 DEF Requests!AuthorizationRefused
<1>10. ASSUME UNCHANGED <<apiConfig, clock, session, seat, trial, assertion, grants, held, gone>>
      PROVE AuthorityInv'
  BY <1>10 DEF Requests!Resolvable
<1>11. QED
  BY <1>1, <1>2, <1>3, <1>4, <1>5, <1>6, <1>7, <1>8, <1>9, <1>10
  DEF Requests!RequestNext, authorityVars, Requests!RequireFounderIdentity, Requests!RequireIdentity, Requests!FounderActs, Requests!OtherActs, Requests!Refused

\* A verified assertion is younger than the policy's lifetime and skew, so the session is
\* not gone for longer, but for the signer's lead.
LEMMA VerifiedIsRecent ==
  ASSUME Requests!TimesAreNumbers, AuthorityInv, Requests!VerifyIdentityAssertion(assertion)
  PROVE  gone < MaxAssertionTTL + AssertionSkew + apiConfig.lead
BY DEF Requests!TimesAreNumbers, AuthorityInv, Stamps, Requests!VerifyIdentityAssertion

\* A request is let in only so long after its session last resolved, and a reservation is
\* settled only with a live token of its own, for every lifetime a signer chooses and
\* whatever else the platform does (identity.py, capability_tokens.py).
THEOREM AuthorityStaysBounded == PlatformSpec => AuthorityIsBounded
<1> DEFINE Bounded ==
      /\ incoming = Requests!NoRequest /\ incoming' # Requests!NoRequest => gone < MaxAssertionTTL + AssertionSkew + apiConfig.lead
      /\ \A r \in Reservations :
           held'[r] = "SETTLED" /\ held[r] # "SETTLED" =>
             grants[r] # Requests!Nothing /\ clock < grants[r].exp + GrantSkew
<1>1. ASSUME AuthorityInv, [Requests!RequestNext]_authorityVars PROVE [Bounded]_authorityVars
  <2>1. ASSUME incoming = Requests!NoRequest, incoming' # Requests!NoRequest
        PROVE  gone < MaxAssertionTTL + AssertionSkew + apiConfig.lead
    <3>1. Requests!VerifyIdentityAssertion(assertion)
      BY <1>1, <2>1 DEF Requests!RequestNext, authorityVars, Requests!Assert, Requests!SessionEnds, Requests!Rotate, Requests!Tick, Requests!SeatChanges,
         Requests!RequireIdentity, Requests!RequireFounderIdentity, Requests!Serve, Requests!AuthorizeAI, Requests!AuthorizationRefused, Requests!SettleAI, Requests!ActivateTrial, Requests!FounderActs,
         Requests!OtherActs, Requests!Refused
    <3>2. QED
      BY <1>1, <3>1, TimesAssumption, VerifiedIsRecent
  <2>2. ASSUME NEW r \in Reservations, held'[r] = "SETTLED", held[r] # "SETTLED"
        PROVE  grants[r] # Requests!Nothing /\ clock < grants[r].exp + GrantSkew
    <3>1. PICK s \in Reservations, of \in Reservations : Requests!SettleAI(s, of)
      BY <1>1, <2>2 DEF AuthorityInv, Requests!RequestNext, authorityVars, Requests!Assert, Requests!SessionEnds, Requests!Rotate, Requests!Tick, Requests!SeatChanges,
         Requests!RequireIdentity, Requests!RequireFounderIdentity, Requests!AuthorizeAI, Requests!AuthorizationRefused, Requests!ActivateTrial, Requests!FounderActs, Requests!OtherActs, Requests!Refused
    <3>2. r = s /\ of = s
      BY <1>1, <2>2, <3>1 DEF AuthorityInv, Requests!SettleAI, Requests!VerifyGrant
    <3>3. Requests!VerifyCapabilityToken(grants[r])
      BY <3>1, <3>2 DEF Requests!SettleAI, Requests!VerifyGrant
    <3>4. QED
      BY <1>1, <3>3, TimesAssumption DEF AuthorityInv, Stamps, Requests!VerifyCapabilityToken, Requests!TimesAreNumbers
  <2>3. QED
    BY <2>1, <2>2
<1>2. PlatformInit => AuthorityInv
  BY AuthorityInitially, TimesAssumption DEF PlatformInit
<1>3. AuthorityInv /\ [PlatformNext]_platformVars => AuthorityInv'
  BY ComponentSteps, TimesAssumption, AuthorityKept
<1>4. AuthorityInv /\ [PlatformNext]_platformVars => [Bounded]_(Requests!authorityVars)
  BY <1>1, ComponentSteps DEF authorityVars, Requests!authorityVars
<1>5. QED
  BY <1>2, <1>3, <1>4, PTL DEF PlatformSpec, AuthorityIsBounded, Requests!AuthorityIsBounded
================================================================================
