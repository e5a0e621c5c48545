-------------------------- MODULE GatewayProperties -------------------------
(***************************************************************************)
(* What the gateway promises about originals, and the fairness under which *)
(* its liveness properties hold.                                           *)
(***************************************************************************)
EXTENDS OssGateway

CONSTANT Refused  \* an object the store refuses to delete for ever, or None

\* An association never leads to another face's picture: the object of a row
\* of "images" is stored and is the picture that face was registered with
\* (complete_upload from add_face, from recover and from a migration).
PicturesMatch ==
  \A f \in Face : images[f] # None => store[images[f]] = picture[f]

\* The original of a registered face is never lost, whatever call timed out
\* or whenever the gateway crashed: its object is stored, and the journal
\* associates it or still holds the intent recover() completes.
OriginalKept ==
  \A f \in Face :
    subject[f] # None /\ picture[f] \in Key =>
      /\ store[picture[f]] = picture[f]
      /\ \/ images[f] = picture[f]
         \/ \E u \in uploads : u.key = picture[f]

\* Every stored object is reachable from the journal, so that a failed upload,
\* a deleted face or a crash leaves nothing behind that no flush would delete.
NoOrphan ==
  \A k \in Key : store[k] # None =>
    \/ \E f \in Face : images[f] = k
    \/ \E u \in uploads : u.key = k
    \/ \E d \in deletes : k \in d.keys

\* A face the backend has deleted keeps its association only while a prepared
\* delete still waits to confirm it.
NoStaleImage ==
  \A f \in Face : images[f] # None /\ subject[f] = None =>
    \E d \in prepared_deletes : f \in d.faces

\* Whatever is written behind the gateway's back, commits late or is cut off
\* by a crash, no two faces share an object, and no object that was handed to
\* the outbox is a face's: it is deleted once, and only for its own row.
RowsOwnObjects ==
  \A f \in Face : images[f] # None =>
    /\ \A g \in Face : images[g] = images[f] => g = f
    /\ \A d \in ready_deletes : images[f] \notin d.keys

\* x-facesdk-object-delete is "completed" only if the objects of the delete are
\* gone: the header is computed from the whole outbox after the last flush.
CompletedMeansErased ==
  \A r \in Request :
    At(r, "drain") /\ rows[r] = {} /\ local[r].plan # None /\ deletes = {} =>
      \A k \in local[r].plan.keys : store[k] = None

\* The service never has two unconfirmed operations: recover()'s result keeps
\* every write out until the one before it is settled.
OneIntent ==
  \A x, y \in uploads \cup prepared_deletes : x = y

\* A read that found an association gets the picture of the face it asked for,
\* although the worker deletes objects while the read is under way.
ReadsOwnOriginal ==
  \A r \in Request :
    At(r, "get") => store[local[r].key] = picture[local[r].face]

\* "Subject create/rename and other recognition requests share the service
\* lock, so they cannot race an upload's recovery snapshot" (app.py:355): the
\* only new face a recovery snapshot can show is the one the upload made.
SnapshotShowsUploadOnly ==
  \A r \in Request :
    At(r, "settle") => \A f \in Added(r) : picture[f] = local[r].upload.key
-----------------------------------------------------------------------------
(***************************************************************************)
(* The life of an object key as the journal tells it, and the refinement.  *)
(***************************************************************************)
Stage(k) ==
  CASE \E f \in Face : images[f] = k -> "held"
    [] \E u \in uploads : u.key = k -> "claimed"
    [] \E d \in ready_deletes : k \in d.keys -> "condemned"
    [] k \notin minted \/ \E r \in Request : At(r, "begin") /\ local[r].upload.key = k -> "fresh"
    [] OTHER -> "gone"

Archive == INSTANCE Archive WITH
  registered <- [f \in Face |-> IF subject[f] = None THEN None ELSE picture[f]],
  original <- images,
  stage <- [k \in Key |-> Stage(k)],
  object <- store

\* The gateway implements the archive: whatever handlers, flush threads, late
\* calls and crashes do, an object is erased only after its key was condemned,
\* a key is condemned only while no registered face has its picture, and a face
\* is associated with a key only if the key holds its very picture.
KeepsArchive == Archive!Spec
-----------------------------------------------------------------------------
(***************************************************************************)
(* Fairness.  Every await of a handler ends, by an answer, an error or one *)
(* of the timeouts of httpx and boto3; asyncio.Lock wakes its waiters in   *)
(* order; the worker polls for ever.                                       *)
(***************************************************************************)
Progress ==
  /\ \A r \in Request : WF_vars(Recover(r)) /\ WF_vars(Serve(r))
  /\ \A r \in Request : SF_vars(Acquire(r))
  /\ \A t \in Task : WF_vars(Flush(t))
  /\ WF_vars(WorkerTick)

\* The store is not down for ever: the worker's select comes to a row with
\* object k, and its delete is accepted, if it is tried again and again.
StoreRecovers ==
  \A k \in Key :
    /\ SF_vars(FlushRead(Worker) /\ \E d \in rows'[Worker] : k \in d.keys)
    /\ SF_vars(\E d \in rows[Worker] : k \in d.keys /\ FlushRow(Worker, d))

\* The backend answers a recovery read if it is asked again and again, and
\* executes the mutations it has received.
BackendRecovers ==
  /\ \A r \in Request : SF_vars(RecoverSnapshot(r))
  /\ \A r \in Request : SF_vars(RecoverPlans(r))

LiveSpec == Spec /\ Progress

Queued(k) == \E d \in ready_deletes : k \in d.keys

\* Every request that has arrived leaves the gateway, whatever fails: no lock
\* is kept by a handler that raised, and no handler waits for another.
RequestsEnd ==
  \A r \in Request : pc[r] = "queued" ~> pc[r] = "idle"

\* The outbox drains if the store recovers: the objects of a ready row are
\* eventually deleted, over outages, failed flushes and crashes of the gateway.
OutboxDrains ==
  StoreRecovers =>
    \A k \in Key : Queued(k) ~> store[k] = None

\* A face whose registration was never answered is associated, or deleted, if
\* the backend recovers and authenticated requests keep arriving.
UploadsRecover ==
  BackendRecovers /\ []<>(\E r \in Request : At(r, "uploads")) =>
    \A f \in Face :
      subject[f] # None /\ picture[f] \in Key
        ~> images[f] = picture[f] \/ subject[f] = None
-----------------------------------------------------------------------------
(***************************************************************************)
(* One object that the store refuses to delete, for ever.  SQLite returns  *)
(* the rows of the outbox in the order of their insertion; here the row of *)
(* the refused object is the oldest.                                       *)
(***************************************************************************)
\* A flush fails at the refused object only, and there it always fails.
RefusedStep ==
  \A t \in Task : pc[t] = "drain" =>
    /\ rows'[t] = {} /\ rows[t] # {} /\ pc'[t] = "drain" =>
         \E d \in rows[t] : Refused \in d.keys
    /\ row'[t] # None => Refused \notin row'[t].keys

StuckSpec == Init /\ [][Next /\ RefusedStep]_vars /\ Progress

\* "If the deletion from OSS fails, the header x-facesdk-object-delete: pending
\* says that physical cleanup is pending; the background retries every 5
\* seconds" (docs/object-storage.md:49): every other object that was queued
\* after the refused one is deleted eventually.
OthersRetried ==
  [](\A k \in Key : Queued(k) => Queued(Refused)) =>
    \A k \in Key \ {Refused} : Queued(k) ~> store[k] = None
=============================================================================
