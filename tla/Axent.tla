-------------------------------- MODULE Axent -------------------------------
(***************************************************************************)
(* AXENT conversations of one tenant: idempotent creation and messages,    *)
(* legal holds, deletion on request or by retention, and the C4 end-to-end *)
(* client that drives them before and after a restart.  A call is a        *)
(* function of the store to a status and a store; calls are transactions,  *)
(* except the purge, which selects its conversations first and locks and   *)
(* deletes them one by one.  The request hash is the request itself, and a *)
(* message keeps its receipt; a title stands for the title and the         *)
(* retention class, which the hash of a creation takes together.           *)
(***************************************************************************)
EXTENDS Integers, Sequences, FiniteSets

CONSTANTS
    Subjects,            \* identities of the tenant
    C4Owner,             \* the one of them the C4 client acts for
    MaxConversations,    \* bound on the conversations ever created
    MaxMessages,         \* bound on the messages of a conversation
    MaxToday             \* bound on the clock

VARIABLES
    store,       \* [made, convs, holds, operational], see StoreInit
    today,
    purge,       \* conversations the running purge selected and has not reached yet
    raced,       \* holds placed on a conversation a running purge had selected (history)
    acked,       \* [conv, request, content] the client was answered 201 for (history)
    purged,      \* [due, held] when a conversation was deleted (history)
    c4,          \* steps the C4 client has taken; 0 before it starts
    c4Conv,      \* the conversation it keeps in its state file
    c4Failed     \* an expectation of the C4 client was not met

axentVars == <<store, today, purge, raced, acked, purged, c4, c4Conv, c4Failed>>

Absent == [owner |-> "NOBODY", request |-> "NONE", title |-> "NONE", until |-> 0, state |-> "ABSENT", messages |-> <<>>]

Conversations == 1..MaxConversations

StoreInit == [made |-> 0, convs |-> [c \in Conversations |-> Absent], holds |-> {}, operational |-> TRUE]

Result(status, db, c) == [status |-> status, db |-> db, conv |-> c]

\* The conversation, if it exists and belongs to the identity.
Owned(db, subject, c) == c \in Conversations /\ db.convs[c].state # "ABSENT" /\ db.convs[c].owner = subject

\* A receipt lives as long as its conversation; request identifiers are the tenant's.
CreateConversation(db, subject, request, title, until) ==
    LET known == {c \in Conversations : db.convs[c].request = request}
        same == {c \in known : db.convs[c].owner = subject /\ db.convs[c].title = title}
        new == db.made + 1
        row == [owner |-> subject, request |-> request, title |-> title, until |-> until,
                state |-> "ACTIVE", messages |-> <<>>]
    IN  IF ~db.operational THEN Result(503, db, 0)
        ELSE IF known # {}
             THEN IF same = {} THEN Result(409, db, 0) ELSE Result(201, db, CHOOSE c \in same : TRUE)
        ELSE IF new > MaxConversations THEN Result(503, db, 0)
        ELSE Result(201, [db EXCEPT !.made = new, !.convs[new] = row], new)

Receipt(db, c, request) == {i \in DOMAIN db.convs[c].messages : db.convs[c].messages[i].request = request}

\* [mutant] The receipt is looked up by request and content.
ReceiptOfContent(db, c, message) ==
    {i \in DOMAIN db.convs[c].messages : db.convs[c].messages[i] = message}

ReceiptOf(db, c, message) == Receipt(db, c, message.request)

AppendMessage(db, subject, c, message) ==
    LET known == ReceiptOf(db, c, message)
    IN  IF ~db.operational THEN Result(503, db, c)
        ELSE IF ~Owned(db, subject, c) \/ db.convs[c].state # "ACTIVE" THEN Result(404, db, c)
        ELSE IF known # {}
             THEN Result(IF \A i \in known : db.convs[c].messages[i] = message THEN 201 ELSE 409, db, c)
        ELSE Result(201, [db EXCEPT !.convs[c].messages = Append(@, message)], c)

\* Neither asks whether the workspace is operational.
ListConversations(db, subject) == {c \in Conversations : Owned(db, subject, c) /\ db.convs[c].state = "ACTIVE"}

ExportConversation(db, subject, c) == Result(IF Owned(db, subject, c) THEN 200 ELSE 404, db, c)

\* The date asked for, not before now, becomes the end of the retention: a later one too.
RequestDeletion(db, subject, c, deleteAfter) ==
    IF ~Owned(db, subject, c) THEN Result(404, db, c)
    ELSE Result(202, [db EXCEPT !.convs[c].state = "DELETION_REQUESTED", !.convs[c].until = deleteAfter], c)

\* One active hold per conversation.
PlaceLegalHold(db, c) ==
    IF db.convs[c].state = "ABSENT" \/ c \in db.holds THEN Result(503, db, c)
    ELSE Result(200, [db EXCEPT !.holds = @ \cup {c}], c)

ReleaseLegalHold(db, c) ==
    IF c \notin db.holds THEN Result(503, db, c) ELSE Result(200, [db EXCEPT !.holds = @ \ {c}], c)

Due(db, c, now) == db.convs[c].state # "ABSENT" /\ db.convs[c].until <= now

\* [mutant] Holds are not looked at.
PurgeDueUnheld(db, now) == {c \in Conversations : Due(db, c, now)}

PurgeDue(db, now) == {c \in Conversations : Due(db, c, now) /\ c \notin db.holds}

\* Messages, receipts and holds go with the row.
Delete(db, gone) ==
    [db EXCEPT !.convs = [c \in Conversations |-> IF c \in gone THEN Absent ELSE @[c]], !.holds = @ \ gone]

-----------------------------------------------------------------------------

\* The C4 client, one expectation after the other; prepare is the first half, verify the
\* second, after the services were restarted.  A step is [db, met].
C4Message(role, content) == [request |-> role, content |-> content]

Met(r, status) == [db |-> r.db, met |-> r.status = status]

\* The client first makes the workspaces active, whatever became of them.
SeedActiveTenants(db) == [db EXCEPT !.operational = TRUE]

\* Holds go past the API, to functions of the database that return a row or raise.
AppFunction(r) == [db |-> r.db, met |-> r.status = 200]

\* So does the client's purge, which takes what is due in one transaction.
PurgeNow(db, now) == [db |-> Delete(db, PurgeDue(db, now)), met |-> TRUE]

ConversationExists(db, c) == db.convs[c].state # "ABSENT"

C4Others == Subjects \ {C4Owner}

C4Prepare(db, c, now) ==
    LET create(title) == CreateConversation(db, C4Owner, "c4", title, now + 1)
        append(message) == AppendMessage(db, C4Owner, c, message)
    IN  <<Met(create("title"), 201),
          [db |-> db, met |-> create("title").conv = c],
          Met(create("conflict"), 409),
          Met(append(C4Message("system", "context")), 201),
          Met(append(C4Message("system", "context")), 201),
          Met(append(C4Message("system", "conflict")), 409),
          Met(append(C4Message("user", "question")), 201),
          Met(append(C4Message("assistant", "answer")), 201),
          [db |-> db, met |-> \A other \in C4Others :
              c \notin ListConversations(db, other) /\ ExportConversation(db, other, c).status = 404]>>

C4Transcript == <<C4Message("system", "context"), C4Message("user", "question"), C4Message("assistant", "answer")>>

C4Verify(db, c, now) ==
    <<[db |-> db, met |-> ExportConversation(db, C4Owner, c).status = 200 /\ db.convs[c].messages = C4Transcript],
      AppFunction(PlaceLegalHold(db, c)),
      Met(RequestDeletion(db, C4Owner, c, now), 202),
      PurgeNow(db, now),
      [db |-> db, met |-> ConversationExists(db, c)],
      AppFunction(ReleaseLegalHold(db, c)),
      PurgeNow(db, now),
      [db |-> db, met |-> /\ ~ConversationExists(db, c)
                          /\ ExportConversation(db, C4Owner, c).status = 404
                          /\ c \notin ListConversations(db, C4Owner)]>>

C4Script(db, c, now) == C4Prepare(db, c, now) \o C4Verify(db, c, now)

C4Steps == 17

-----------------------------------------------------------------------------

AxentInit ==
    /\ store = StoreInit /\ today = 0 /\ purge = {}
    /\ raced = {} /\ acked = {} /\ purged = {}
    /\ c4 = 0 /\ c4Conv = 0 /\ c4Failed = FALSE

Idle == c4 \in {0, C4Steps}

\* The retention class of a title: EPHEMERAL_30D or STANDARD_90D.
RetentionDays(title) == IF title = "a" THEN 1 ELSE 2

\* Creation and messages; the answer may get lost and the call be repeated.
CreateAxentConversation(subject, request, title) ==
    LET r == CreateConversation(store, subject, request, title, today + RetentionDays(title))
    IN  /\ r.status = 201
        /\ store' = r.db
        /\ UNCHANGED <<today, purge, raced, acked, purged, c4, c4Conv, c4Failed>>

AppendAxentMessage(subject, c, message, answered) ==
    LET r == AppendMessage(store, subject, c, message)
    IN  /\ Len(store.convs[c].messages) < MaxMessages \/ r.db = store
        /\ r.status = 201
        /\ store' = r.db
        /\ acked' = IF answered THEN acked \cup {[conv |-> c, message |-> message]} ELSE acked
        /\ UNCHANGED <<today, purge, raced, purged, c4, c4Conv, c4Failed>>

RequestAxentDeletion(subject, c, deleteAfter) ==
    LET r == RequestDeletion(store, subject, c, deleteAfter)
    IN  /\ r.status = 202
        /\ store' = r.db
        /\ UNCHANGED <<today, purge, raced, acked, purged, c4, c4Conv, c4Failed>>

\* The hold waits for nobody: its foreign key only shares the conversation's key.
HoldConversation(c) ==
    LET r == PlaceLegalHold(store, c)
    IN  /\ r.status = 200
        /\ store' = r.db
        /\ raced' = IF c \in purge THEN raced \cup {c} ELSE raced
        /\ UNCHANGED <<today, purge, acked, purged, c4, c4Conv, c4Failed>>

ReleaseConversation(c) ==
    LET r == ReleaseLegalHold(store, c)
    IN  /\ r.status = 200
        /\ store' = r.db
        /\ raced' = raced \ {c}
        /\ UNCHANGED <<today, purge, acked, purged, c4, c4Conv, c4Failed>>

\* The query of the purge takes its snapshot.
PurgeBegins ==
    /\ purge = {} /\ Idle
    /\ purge' = PurgeDue(store, today)
    /\ purge' # {}
    /\ UNCHANGED <<store, today, raced, acked, purged, c4, c4Conv, c4Failed>>

\* A row changed since is looked at again before it is locked, the holds are not.
PurgeReaches(c) ==
    /\ c \in purge
    /\ purge' = purge \ {c}
    /\ LET gone == IF Due(store, c, today) THEN {c} ELSE {}
       IN  /\ store' = Delete(store, gone)
           /\ purged' = IF gone = {} THEN purged ELSE purged \cup
                {[due |-> Due(store, c, today), held |-> c \in store.holds \ raced, lost |-> c \in store.holds]}
           /\ acked' = {a \in acked : a.conv \notin gone}
           /\ raced' = raced \ gone
    /\ UNCHANGED <<today, c4, c4Conv, c4Failed>>

SwitchWorkspace ==
    /\ Idle
    /\ store' = [store EXCEPT !.operational = ~@]
    /\ UNCHANGED <<today, purge, raced, acked, purged, c4, c4Conv, c4Failed>>

TimePasses ==
    /\ Idle /\ today < MaxToday
    /\ today' = today + 1
    /\ UNCHANGED <<store, purge, raced, acked, purged, c4, c4Conv, c4Failed>>

\* The client starts with a completed research run, and stops at the first expectation
\* that is not met.
C4Step ==
    /\ c4 < C4Steps /\ ~c4Failed /\ purge = {}
    /\ c4 = 0 => store.made < MaxConversations
    /\ LET db == IF c4 = 0 THEN SeedActiveTenants(store) ELSE store
           c == IF c4 = 0 THEN db.made + 1 ELSE c4Conv
           step == C4Script(db, c, today)[c4 + 1]
       IN  /\ store' = step.db
           /\ c4Conv' = c
           /\ c4' = c4 + 1
           /\ c4Failed' = ~step.met
           /\ acked' = {a \in acked : step.db.convs[a.conv].state # "ABSENT"}
    /\ UNCHANGED <<today, purge, raced, purged>>

AxentNext ==
    \/ \E s \in Subjects, title \in {"a", "b"} : CreateAxentConversation(s, "r1", title)
    \/ \E s \in Subjects, c \in Conversations, content \in {"x", "y"}, answered \in BOOLEAN :
           store.convs[c].request # "c4" /\ AppendAxentMessage(s, c, [request |-> "m1", content |-> content], answered)
    \/ \E s \in Subjects, c \in Conversations, date \in today..MaxToday :
           store.convs[c].request # "c4" /\ RequestAxentDeletion(s, c, date)
    \/ \E c \in Conversations :
           store.convs[c].request # "c4" /\ (HoldConversation(c) \/ ReleaseConversation(c))
    \/ \E c \in Conversations : PurgeReaches(c)
    \/ PurgeBegins \/ SwitchWorkspace \/ TimePasses \/ C4Step

AxentSpec == AxentInit /\ [][AxentNext]_axentVars

\* A message the client was told is stored is in the transcript once, with its content;
\* a request has one conversation; a conversation is deleted only when it is due, and not
\* under a hold that stood when the purge began; and the C4 client, run among all this,
\* finds its transcript, its isolation and its hold respected.
AxentKeepsItsWord ==
    /\ \A a \in acked :
        /\ Cardinality(Receipt(store, a.conv, a.message.request)) = 1
        /\ \E i \in DOMAIN store.convs[a.conv].messages : store.convs[a.conv].messages[i] = a.message
    /\ \A c, d \in Conversations :
        store.convs[c].state # "ABSENT" /\ store.convs[c].request = store.convs[d].request => c = d
    /\ \A p \in purged : p.due /\ ~p.held
    /\ ~c4Failed

\* "Legal hold blocks both conversation purge and terminal tenant purge."  A hold committed
\* while purge_due_axent_conversations runs does not: the loop has selected its rows before.
HeldConversationSurvives == \A p \in purged : ~p.lost
=============================================================================
