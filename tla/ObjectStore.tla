----------------------------- MODULE ObjectStore ----------------------------
(***************************************************************************)
(* The content-addressed object store with its three backends, one object, *)
(* and what puts it there: processes that start, put and may be killed,    *)
(* like the scheduler's health checks, which all put the same bytes.  The  *)
(* API's readiness probe writes and removes a file of its own.             *)
(***************************************************************************)
EXTENDS Naturals, FiniteSets

CONSTANTS
    Putters,     \* processes that put the object
    Probers      \* readiness requests in flight

VARIABLES
    backend,     \* "memory", "local" or "s3"
    blob,        \* "ABSENT", "WHOLE" or "CORRUPT"
    meta,        \* metadata: "ABSENT", "PARTIAL" or "WHOLE"; in S3 and in memory with the blob
    putting,     \* [Putters -> "READY", "TEMP", "REPLACED", "OPENED", "ORPHANED", "HEADED",
                 \*              "STORED", "REFUSED", "KILLED", "TORN"]
    unlinking,   \* the deleter removed the blob and not yet the metadata
    since,       \* the puts that began after the last deletion (history)
    overtaken,   \* the puts under way when another one was answered (history)
    probeFile,   \* the readiness probe's file exists
    probing,     \* [Probers -> "READY", "WRITTEN", "READY_ANSWERED", "NOT_READY"]
    probesMet    \* two probes were under way at once (history)

objectVars == <<backend, blob, meta, putting, unlinking, since, overtaken, probeFile, probing, probesMet>>

ObjectInit ==
    /\ backend \in {"memory", "local", "s3"}
    /\ blob = "ABSENT" /\ meta = "ABSENT"
    /\ putting = [p \in Putters |-> "READY"] /\ unlinking = FALSE /\ since = {} /\ overtaken = {}
    /\ probeFile = FALSE /\ probing = [r \in Probers |-> "READY"] /\ probesMet = FALSE

\* Data and metadata must be there, and the hash must be the metadata's.
Get == IF blob = "WHOLE" /\ meta = "WHOLE" THEN blob ELSE "ERROR"

VerifyHash == Get # "ERROR"

\* An object that is there already: local and memory compare its bytes, and local verifies
\* it; S3 only looks at its metadata.
Kept == IF backend = "s3" \/ VerifyHash THEN "STORED" ELSE "REFUSED"

Same(p, step) == putting' = [putting EXCEPT ![p] = step]

UnderWay == {p \in Putters : putting[p] \in {"TEMP", "REPLACED", "OPENED"}}

\* [mutant] An object that is there already is written once more.
PutAgain(p) ==
    /\ putting[p] = "READY" /\ since' = since \cup {p}
    /\ Same(p, IF backend = "local" THEN "TEMP" ELSE "HEADED")
    /\ UNCHANGED <<backend, blob, meta, unlinking, overtaken, probeFile, probing, probesMet>>

\* An object that is not there goes to a temporary file in local, and to a conditional put
\* in S3.
PutBegins(p) ==
    /\ putting[p] = "READY" /\ since' = since \cup {p}
    /\ IF blob # "ABSENT"
       THEN /\ Same(p, Kept)
            /\ overtaken' = IF Kept = "STORED" THEN overtaken \cup UnderWay ELSE overtaken
            /\ UNCHANGED <<blob, meta>>
       ELSE IF backend = "memory"
       THEN /\ Same(p, "STORED")
            /\ blob' = "WHOLE" /\ meta' = "WHOLE"
            /\ UNCHANGED overtaken
       ELSE /\ Same(p, IF backend = "local" THEN "TEMP" ELSE "HEADED")
            /\ UNCHANGED <<blob, meta, overtaken>>
    /\ UNCHANGED <<backend, unlinking, probeFile, probing, probesMet>>

\* os.replace of the temporary file.
PutReplaces(p) ==
    /\ putting[p] = "TEMP"
    /\ Same(p, "REPLACED") /\ blob' = "WHOLE"
    /\ UNCHANGED <<backend, meta, unlinking, since, overtaken, probeFile, probing, probesMet>>

\* write_text opens and truncates the metadata file, then writes it.
PutOpensMetadata(p) ==
    /\ putting[p] = "REPLACED"
    /\ Same(p, "OPENED") /\ meta' = "PARTIAL"
    /\ UNCHANGED <<backend, blob, unlinking, since, overtaken, probeFile, probing, probesMet>>

\* What it writes is lost where the file was unlinked meanwhile.
PutWritesMetadata(p) ==
    /\ putting[p] \in {"OPENED", "ORPHANED"}
    /\ Same(p, "STORED") /\ meta' = IF putting[p] = "OPENED" THEN "WHOLE" ELSE meta
    /\ overtaken' = overtaken \cup UnderWay
    /\ UNCHANGED <<backend, blob, unlinking, since, probeFile, probing, probesMet>>

\* put_object with IfNoneMatch "*"
PutIfNoneMatch(p) ==
    /\ putting[p] = "HEADED"
    /\ IF blob = "ABSENT"
       THEN Same(p, "STORED") /\ blob' = "WHOLE" /\ meta' = "WHOLE"
       ELSE Same(p, "REFUSED") /\ UNCHANGED <<blob, meta>>
    /\ UNCHANGED <<backend, unlinking, since, overtaken, probeFile, probing, probesMet>>

Killed(p) ==
    /\ putting[p] \in {"TEMP", "REPLACED", "OPENED", "ORPHANED", "HEADED"}
    /\ Same(p, IF putting[p] = "OPENED" THEN "TORN" ELSE "KILLED")
    /\ UNCHANGED <<backend, blob, meta, unlinking, since, overtaken, probeFile, probing, probesMet>>

\* delete_if_unreferenced with a reference count of 0; local unlinks twice.
DeleteIfUnreferenced ==
    /\ ~unlinking /\ (blob # "ABSENT" \/ meta # "ABSENT")
    /\ blob' = "ABSENT"
    /\ meta' = IF backend = "local" THEN meta ELSE "ABSENT"
    /\ unlinking' = (backend = "local")
    /\ since' = {}
    /\ UNCHANGED <<backend, putting, overtaken, probeFile, probing, probesMet>>

DeleteMetadata ==
    /\ unlinking
    /\ unlinking' = FALSE /\ meta' = "ABSENT" /\ since' = {}
    /\ putting' = [p \in Putters |-> CASE putting[p] = "OPENED" -> "ORPHANED"
                                       [] putting[p] = "TORN" -> "KILLED" [] OTHER -> putting[p]]
    /\ UNCHANGED <<backend, blob, overtaken, probeFile, probing, probesMet>>

\* The stored bytes change under the store.
Tampered ==
    /\ backend # "memory" /\ blob = "WHOLE"
    /\ blob' = "CORRUPT"
    /\ UNCHANGED <<backend, meta, putting, unlinking, since, overtaken, probeFile, probing, probesMet>>

\* GET /readyz writes one file, whoever asks, and removes it.
ProbeWrites(r) ==
    /\ probing[r] = "READY"
    /\ probing' = [probing EXCEPT ![r] = "WRITTEN"]
    /\ probeFile' = TRUE
    /\ probesMet' = (probesMet \/ \E o \in Probers : probing[o] = "WRITTEN")
    /\ UNCHANGED <<backend, blob, meta, putting, unlinking, since, overtaken>>

\* Another request may have removed it: an OSError, and 503.
ProbeUnlinks(r) ==
    /\ probing[r] = "WRITTEN"
    /\ probing' = [probing EXCEPT ![r] = IF probeFile THEN "READY_ANSWERED" ELSE "NOT_READY"]
    /\ probeFile' = FALSE
    /\ UNCHANGED <<backend, blob, meta, putting, unlinking, since, overtaken, probesMet>>

ObjectNext ==
    \/ \E p \in Putters : PutBegins(p) \/ PutReplaces(p) \/ PutOpensMetadata(p) \/ PutWritesMetadata(p)
                          \/ PutIfNoneMatch(p) \/ Killed(p)
    \/ DeleteIfUnreferenced \/ DeleteMetadata \/ Tampered
    \/ \E r \in Probers : ProbeWrites(r) \/ ProbeUnlinks(r)

ObjectSpec == ObjectInit /\ [][ObjectNext]_objectVars

\* A put that was overtaken has truncated the metadata file and not written it: it is about
\* to, or was killed there.
Truncated == \E p \in overtaken : putting[p] \in {"OPENED", "TORN"}

\* A put that was answered leaves an object that can be read back from then on, as long as
\* nobody deletes it or damages its bytes.  One thing can take it away, and nothing else: a
\* put of the same bytes that it overtook and that has just truncated the metadata file,
\* for as long as that put takes to write it, and for good if it is killed there.  What is
\* read is never damaged; a put is refused only next to another one; and the API reports
\* the store as not ready only when two probes met.
StoredObjectsCanBeRead ==
    /\ Get # "CORRUPT"
    /\ (\E p \in since : putting[p] = "STORED") => Get = "WHOLE" \/ Truncated \/ blob = "CORRUPT"
    /\ \A p \in Putters : putting[p] = "REFUSED" => \E q \in Putters \ {p} : putting[q] # "READY"
    /\ (\E r \in Probers : probing[r] = "NOT_READY") => probesMet
=============================================================================
