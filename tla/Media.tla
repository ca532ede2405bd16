------------------------------- MODULE Media -------------------------------
(***************************************************************************)
(* One media asset and its upload session (app/routers/platform_features.py *)
(* and app/storage.py): the resumable upload in chunks or the direct one to *)
(* the object store, the queue of PROCESSING assets that the workers of     *)
(* process_queued_media take with a lease, and the decision of an           *)
(* administrator.                                                           *)
(*                                                                          *)
(* The staged file and the stored objects are not under the transaction: a  *)
(* process that dies between writing one of them and its commit leaves the  *)
(* two apart.  A chunk, a finalize and a complete request hold the lock of  *)
(* the session's row, which no lock of the asset's row goes with; the       *)
(* worker holds none while it works.  A commit writes the columns that got  *)
(* another value than the one that was read.                                *)
(***************************************************************************)
EXTENDS Naturals, Sequences

CONSTANTS
    Block,         \* a file is so many blocks; a chunk is one or more of them
    Worker,        \* media workers
    MaxRetries,    \* the owner's retries: 3
    MaxAuto,       \* automatic attempts: 3
    MaxTaken       \* bound: how often an asset is taken from the queue

VARIABLES
    upload,     \* the row of upload_sessions
    asset,      \* the row of media_assets
    part,       \* the staged file of the session, as its blocks
    store,      \* the client's bytes under the asset's two storage keys
    req,        \* the request that holds the session's lock
    getter,     \* a get_upload_session that has read an expired session
    worker,     \* what each worker is doing
    local,      \* storage_backend(): a directory of the server, or Supabase
    twin,       \* another asset of the owner has the same bytes
    taken,      \* how often a worker took the asset
    overran,    \* a lease ended while its worker was running
    torn        \* a process torn while it was copying the staged file

settings == <<local, twin>>

vars == <<upload, asset, part, store, req, getter, worker, settings, taken, overran, torn>>

Whole == [b \in 1..Block |-> b]

NoRequest == [kind |-> "none", offset |-> 0, size |-> 0, written |-> FALSE, key |-> "upload"]

MediaAsset ==
    [status : {"PENDING_UPLOAD", "UPLOADING", "UPLOADED", "UPLOAD_FAILED", "PROCESSING",
               "READY", "REJECTED", "FAILED", "DELETED"},
     moderation : {"pending", "approved", "rejected"},
     url : BOOLEAN, key : {"upload", "derived"}, source : {"none", "upload", "derived"},
     retries : 0..MaxRetries, auto : Nat, leased : BOOLEAN]

UploadSession ==
    [status : {"PENDING_UPLOAD", "UPLOADING", "UPLOADED", "UPLOAD_FAILED", "PROCESSING",
               "COMPLETED", "EXPIRED", "PROCESSING_FAILED"},
     bytes : Nat, expired : BOOLEAN]

NewAsset ==
    [status |-> "PENDING_UPLOAD", moderation |-> "pending", url |-> FALSE, key |-> "upload",
     source |-> "none", retries |-> 0, auto |-> 0, leased |-> FALSE]

NoWork == [step |-> "idle", read |-> NewAsset, session |-> "none", outcome |-> "none"]

\* The lock of the session's row is free.
Unlocked == req.kind = "none"

\* What a column holds after a transaction that read `read` and set `set`.
Saved(now, read, set) == IF set = read THEN now ELSE set

-----------------------------------------------------------------------------
\* Uploading.  A session is created with its asset; a second request with the
\* checksum of the first is given the same session.

\* The client puts the file where a signed URL lets it, once.
DirectPut ==
    /\ ~local
    /\ asset.key = "upload" /\ store["upload"] = <<>>
    /\ store' = [store EXCEPT !["upload"] = Whole]
    /\ UNCHANGED <<upload, asset, part, req, getter, worker, settings, taken, overran, torn>>

\* (Mutation: a chunk is appended whatever its offset.)
AnyOffset(o) == o \in 0..upload.bytes

OffsetFits(o) == o = upload.bytes

\* A chunk of n blocks at offset o: checks and, where the staged file is not
\* what the session says, its size written back.
ChunkBegin(o, n) ==
    /\ Unlocked
    /\ IF upload.expired
       THEN /\ upload' = [upload EXCEPT !.status = "EXPIRED"]
            /\ UNCHANGED <<asset, req>>
       ELSE /\ OffsetFits(o)
            /\ IF Len(part) # upload.bytes
               THEN /\ IF Len(part) > Block
                       THEN /\ upload' = [upload EXCEPT !.status = "UPLOAD_FAILED"]
                            /\ asset' = [asset EXCEPT !.status = "UPLOAD_FAILED"]
                       ELSE LET status == IF Len(part) = Block THEN "UPLOADED" ELSE "UPLOADING"
                            IN  /\ upload' = [upload EXCEPT !.bytes = Len(part), !.status = status]
                                /\ asset' = [asset EXCEPT !.status = status]
                    /\ UNCHANGED req
               ELSE /\ o + n <= Block
                    /\ req' = [NoRequest EXCEPT !.kind = "chunk", !.offset = o, !.size = n]
                    /\ UNCHANGED <<upload, asset>>
    /\ UNCHANGED <<part, store, getter, worker, settings, taken, overran, torn>>

\* The body has come: all of it is appended, or the process dies on the way.
ChunkWrite ==
    /\ req.kind = "chunk" /\ ~req.written
    /\ \E k \in 1..req.size :
           /\ part' = part \o SubSeq(Whole, req.offset + 1, req.offset + k)
           /\ req' = IF k = req.size THEN [req EXCEPT !.written = TRUE] ELSE NoRequest
    /\ UNCHANGED <<upload, asset, store, getter, worker, settings, taken, overran, torn>>

ChunkCommit ==
    /\ req.kind = "chunk" /\ req.written
    /\ LET bytes == upload.bytes + req.size
           status == IF bytes = Block THEN "UPLOADED" ELSE "UPLOADING"
       IN  /\ upload' = [upload EXCEPT !.bytes = bytes, !.status = status]
           /\ asset' = [asset EXCEPT !.status = status]
    /\ req' = NoRequest
    /\ UNCHANGED <<part, store, getter, worker, settings, taken, overran, torn>>

\* The process dies, or the client goes away: nothing is committed.
RequestDies ==
    /\ ~Unlocked
    /\ req' = NoRequest
    /\ torn' = (torn \/ (local /\ req.kind = "finalize"))
    /\ UNCHANGED <<upload, asset, part, store, getter, worker, settings, taken, overran>>

\* Copying to the directory takes a while; Supabase stores an object or none.
FinalizeBegin ==
    /\ Unlocked
    /\ upload.bytes = Block /\ Len(part) = Block
    /\ req' = [NoRequest EXCEPT !.kind = "finalize", !.key = asset.key]
    /\ store' = IF local THEN [store EXCEPT ![asset.key] = SubSeq(part, 1, 1)] ELSE store
    /\ UNCHANGED <<upload, asset, part, getter, worker, settings, taken, overran, torn>>

\* The object is whole; the staged file goes before the commit.
FinalizeCopied ==
    /\ req.kind = "finalize" /\ ~req.written
    /\ store' = [store EXCEPT ![req.key] = part]
    /\ part' = <<>>
    /\ req' = [req EXCEPT !.written = TRUE]
    /\ UNCHANGED <<upload, asset, getter, worker, settings, taken, overran, torn>>

FinalizeCommit ==
    /\ req.kind = "finalize" /\ req.written
    /\ asset' = [asset EXCEPT !.status = "PROCESSING", !.url = TRUE,
                              !.key = req.key, !.source = req.key]
    /\ upload' = [upload EXCEPT !.status = "PROCESSING", !.bytes = Block]
    /\ req' = NoRequest
    /\ UNCHANGED <<part, store, getter, worker, settings, taken, overran, torn>>

\* The object store refuses the copy, or its answer is lost.
FinalizeFails ==
    /\ ~local
    /\ req.kind = "finalize" /\ ~req.written
    /\ store' \in {store, [store EXCEPT ![req.key] = part]}
    /\ asset' = [asset EXCEPT !.status = "UPLOAD_FAILED"]
    /\ upload' = [upload EXCEPT !.status = "UPLOAD_FAILED"]
    /\ req' = NoRequest
    /\ UNCHANGED <<part, getter, worker, settings, taken, overran, torn>>

\* complete_upload_session: the object was put directly.
Complete ==
    /\ Unlocked
    /\ upload.status # "COMPLETED"
    /\ IF upload.expired
       THEN /\ upload' = [upload EXCEPT !.status = "EXPIRED"]
            /\ asset' = [asset EXCEPT !.status = "UPLOAD_FAILED"]
       ELSE /\ ~local
            /\ upload.status \in {"PENDING_UPLOAD", "UPLOADING", "UPLOAD_FAILED"}
            /\ upload' = [upload EXCEPT !.status = "PROCESSING"]
            /\ asset' = [asset EXCEPT !.status = "PROCESSING", !.url = TRUE, !.source = asset.key]
    /\ UNCHANGED <<part, store, req, getter, worker, settings, taken, overran, torn>>

Expire ==
    /\ ~upload.expired
    /\ upload' = [upload EXCEPT !.expired = TRUE]
    /\ UNCHANGED <<asset, part, store, req, getter, worker, settings, taken, overran, torn>>

\* get_upload_session marks what it finds expired, from what it has read.
GetReads ==
    /\ getter = "none"
    /\ upload.expired /\ upload.status \notin {"COMPLETED", "EXPIRED"}
    /\ getter' = asset.status
    /\ UNCHANGED <<upload, asset, part, store, req, worker, settings, taken, overran, torn>>

GetWrites ==
    /\ getter # "none"
    /\ Unlocked
    /\ upload' = [upload EXCEPT !.status = "EXPIRED"]
    /\ asset' = [asset EXCEPT !.status =
           IF getter \in {"READY", "REJECTED", "DELETED"} THEN @
           ELSE Saved(@, getter, "UPLOAD_FAILED")]
    /\ getter' = "none"
    /\ UNCHANGED <<part, store, req, worker, settings, taken, overran, torn>>

-----------------------------------------------------------------------------
\* The queue.

\* A row that is PROCESSING and not leased is leased for 15 minutes.
Take(w) ==
    /\ worker[w].step = "idle"
    /\ w = CHOOSE v \in Worker : worker[v].step = "idle"
    /\ asset.status = "PROCESSING" /\ asset.url /\ ~asset.leased
    /\ taken < MaxTaken
    /\ taken' = taken + 1
    /\ asset' = [asset EXCEPT !.leased = TRUE]
    /\ worker' = [worker EXCEPT ![w] =
           [step |-> "work", read |-> asset', session |-> upload.status, outcome |-> "none"]]
    /\ UNCHANGED <<upload, part, store, req, getter, settings, overran, torn>>

SourceKey(w) ==
    IF worker[w].read.source # "none" THEN worker[w].read.source ELSE worker[w].read.key

Download(w) == store[SourceKey(w)]

\* The bytes are as long as declared, with the declared checksum and type.
Declared(bytes) == bytes = Whole

\* Another asset of the owner has the deduplication key of the bytes.
Duplicate(bytes) == Declared(bytes) /\ twin

Outcome(w, o) ==
    /\ worker[w].step = "work"
    /\ worker' = [worker EXCEPT ![w].step = "commit", ![w].outcome = o]
    /\ UNCHANGED <<upload, asset, part, req, getter, settings, taken, overran, torn>>

\* The bytes of a duplicate are deleted at once.
FindDuplicate(w) ==
    /\ Duplicate(Download(w))
    /\ store' = [store EXCEPT ![SourceKey(w)] = <<>>]
    /\ Outcome(w, "duplicate")

\* What is not declared, not safe or not an image or a video is refused.
Refuse(w) ==
    /\ ~Duplicate(Download(w))
    /\ Outcome(w, "failed") /\ UNCHANGED store

\* Scanned and encoded: the asset gets a key of its own and its variants.
ProcessAssetBytes(w) ==
    /\ Declared(Download(w)) /\ ~Duplicate(Download(w))
    /\ Outcome(w, "ready") /\ UNCHANGED store

\* The store or the scanner cannot be reached, before the encoded original was
\* stored or after it.
CannotReach(w) ==
    /\ \/ Outcome(w, "transient")
       \/ Declared(Download(w)) /\ Outcome(w, "half")
    /\ UNCHANGED store

\* The asset as the worker leaves it.
Processed(w) ==
    LET a == worker[w].read
        auto == a.auto + 1
    IN  CASE worker[w].outcome = "ready" ->
                 [a EXCEPT !.status = "READY", !.moderation = "approved",
                           !.key = "derived", !.leased = FALSE]
          [] worker[w].outcome = "duplicate" -> [a EXCEPT !.status = "DELETED", !.leased = FALSE]
          [] worker[w].outcome = "failed" -> [a EXCEPT !.status = "FAILED", !.leased = FALSE]
          [] OTHER ->
                 LET again == auto < MaxAuto
                 IN  [a EXCEPT !.status = IF again THEN "PROCESSING" ELSE "FAILED",
                               !.key = IF worker[w].outcome = "half" THEN "derived" ELSE @,
                               !.auto = auto, !.leased = again]

SessionStatus(w) ==
    CASE worker[w].outcome \in {"ready", "duplicate"} -> "COMPLETED"
      [] Processed(w).status = "PROCESSING" -> "PROCESSING"
      [] OTHER -> "PROCESSING_FAILED"

WorkCommit(w) ==
    LET a == Processed(w)
        r == worker[w].read
    IN  /\ worker[w].step = "commit" /\ Unlocked
        /\ asset' = [asset EXCEPT
               !.status = Saved(@, r.status, a.status),
               !.moderation = Saved(@, r.moderation, a.moderation),
               !.key = Saved(@, r.key, a.key),
               !.auto = Saved(@, r.auto, a.auto),
               !.leased = a.leased]
        /\ upload' = [upload EXCEPT
               !.status = Saved(@, worker[w].session, SessionStatus(w)),
               !.bytes = IF worker[w].outcome = "ready" THEN Block ELSE @]
        /\ worker' = [worker EXCEPT ![w] = NoWork]
        /\ UNCHANGED <<part, store, req, getter, settings, taken, overran, torn>>

WorkerDies(w) ==
    /\ worker[w].step # "idle"
    /\ worker' = [worker EXCEPT ![w] = NoWork]
    /\ UNCHANGED <<upload, asset, part, store, req, getter, settings, taken, overran, torn>>

\* Fifteen minutes, or the pause before an automatic attempt, are over.
LeaseEnds ==
    /\ asset.leased
    /\ asset' = [asset EXCEPT !.leased = FALSE]
    /\ overran' = (overran \/ \E w \in Worker : worker[w].step # "idle")
    /\ UNCHANGED <<upload, part, store, req, getter, worker, settings, taken, torn>>

-----------------------------------------------------------------------------
\* The owner and the administrator.

\* (Mutation: the owner may retry for ever.)
MayRetryForever == asset.status \in {"FAILED", "UPLOAD_FAILED"}

MayRetry == asset.status \in {"FAILED", "UPLOAD_FAILED"} /\ asset.retries < MaxRetries

\* retry_media_processing
Retry ==
    /\ MayRetry
    /\ asset' = [asset EXCEPT !.retries = @ + 1, !.auto = 0,
                              !.status = IF asset.url THEN "PROCESSING" ELSE "PENDING_UPLOAD"]
    /\ IF asset.url THEN Unlocked /\ upload' = [upload EXCEPT !.status = "PROCESSING"]
       ELSE UNCHANGED upload
    /\ UNCHANGED <<part, store, req, getter, worker, settings, taken, overran, torn>>

\* (Mutation: an asset may be decided while it is processed.)
Always == asset.url

MayModerate == asset.status \in {"READY", "REJECTED"}

Moderate(decision) ==
    /\ MayModerate
    /\ asset' = [asset EXCEPT
           !.moderation = IF decision = "approve" THEN "approved" ELSE "rejected",
           !.status = IF decision = "approve" THEN "READY" ELSE "REJECTED"]
    /\ UNCHANGED <<upload, part, store, req, getter, worker, settings, taken, overran, torn>>

-----------------------------------------------------------------------------
\* create_upload_session has committed the two rows.
Init ==
    /\ asset = NewAsset
    /\ upload = [status |-> "PENDING_UPLOAD", bytes |-> 0, expired |-> FALSE]
    /\ part = <<>>
    /\ store = [k \in {"upload", "derived"} |-> <<>>]
    /\ req = NoRequest
    /\ getter = "none"
    /\ worker = [w \in Worker |-> NoWork]
    /\ local \in BOOLEAN
    /\ twin \in BOOLEAN
    /\ taken = 0
    /\ overran = FALSE
    /\ torn = FALSE

Next ==
    \/ DirectPut \/ ChunkWrite \/ ChunkCommit \/ RequestDies
    \/ \E o \in 0..Block, n \in 1..Block : ChunkBegin(o, n)
    \/ FinalizeBegin \/ FinalizeCopied \/ FinalizeCommit \/ FinalizeFails
    \/ Complete \/ Expire \/ GetReads \/ GetWrites \/ Retry \/ LeaseEnds
    \/ \E w \in Worker : Take(w) \/ FindDuplicate(w) \/ Refuse(w) \/ ProcessAssetBytes(w)
                       \/ CannotReach(w) \/ WorkCommit(w) \/ WorkerDies(w)
    \/ \E d \in {"approve", "reject"} : Moderate(d)

Spec == Init /\ [][Next]_vars

-----------------------------------------------------------------------------
TypeOK ==
    /\ asset \in MediaAsset
    /\ upload \in UploadSession

\* A queued asset's source object is the whole file of the client or is gone:
\* whatever chunks were lost, repeated or torn, finalize_resumable_upload never
\* hands a worker a file with a hole or with blocks out of order.
SourceIsWhole ==
    asset.status = "PROCESSING" /\ asset.source # "none" /\ ~torn /\ req.kind # "finalize" =>
        store[asset.source] \in {<<>>, Whole}

\* What publishing sees as READY has passed the scan or an administrator: no
\* retry, late chunk, expiry or moderation between the steps of a worker leaves
\* READY beside a moderation that is pending or rejected.
ReadyIsApproved == ~overran /\ asset.status = "READY" => asset.moderation = "approved"
=============================================================================
