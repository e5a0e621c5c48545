----------------------------- MODULE OssGateway -----------------------------
(***************************************************************************)
(* The gateway process (app.py): one handler task per request and one      *)
(* worker that flushes the outbox, over the journal, the object store and  *)
(* the recognition backend.  A step is what a task does between two awaits;*)
(* pc says which await it has reached:                                     *)
(*                                                                         *)
(*   queued   waiting for the service lock       put     storing an object *)
(*   uploads  recover: next upload intent        await   a mutation sent   *)
(*   settle   recover: snapshot of one subject   plan    ids to delete     *)
(*   confirm  recover: snapshot of all faces     get     reading an object *)
(*   dispatch recovered, about to serve          fetch   image from the DB *)
(*   begin    ids before an upload                                         *)
(*   flush, drain, unqueue   inside Journal.flush, on a pool thread        *)
(***************************************************************************)
EXTENDS CompreFace, ObjectStore, Journal

VARIABLES
  pc,        \* pc[t]: the point task t has reached
  lock,      \* owner of the service's asyncio.Lock
  local,     \* local[r]: the variables of request r's handler
  rows,      \* rows[t]: outbox rows a flush has read and not reached
  row,       \* row[t]: the row whose objects are gone, still in the table
  minted,    \* object keys generated so far
  crashes    \* crashes so far

gatewayVars == <<pc, lock, local, rows, row, minted, crashes>>
vars == <<backendVars, storeVars, journalVars, gatewayVars>>

Point == {"idle", "queued", "uploads", "settle", "confirm", "dispatch",
          "begin", "put", "await", "plan", "get", "fetch",
          "flush", "drain", "unqueue"}

Local == [unresolved: BOOLEAN, todo: SUBSET UploadRow, ids: SUBSET Face,
          from: SUBSET Subject, upload: UploadRow \cup {None},
          plan: DeleteRow \cup {None}, face: Face \cup {None},
          key: Key \cup {None}, reply: {"none", "ok", "rejected"}]

NoLocal == [unresolved |-> FALSE, todo |-> {}, ids |-> {}, from |-> {},
            upload |-> None, plan |-> None, face |-> None, key |-> None,
            reply |-> "none"]

GatewayTypeOK ==
  /\ pc \in [Task -> Point]
  /\ lock \in Request \cup {None}
  /\ local \in [Request -> Local]
  /\ rows \in [Task -> SUBSET DeleteRow]
  /\ row \in [Task -> DeleteRow \cup {None}]
  /\ minted \subseteq Key
  /\ crashes \in 0..MaxCrash

TypeOK == BackendTypeOK /\ StoreTypeOK /\ JournalTypeOK /\ GatewayTypeOK

Init ==
  /\ BackendInit /\ StoreInit /\ JournalInit
  /\ pc = [t \in Task |-> "idle"]
  /\ lock = None
  /\ local = [r \in Request |-> NoLocal]
  /\ rows = [t \in Task |-> {}]
  /\ row = [t \in Task |-> None]
  /\ minted = {}
  /\ crashes = 0

At(r, p) == pc[r] = p

\* Assignments to the variables of one handler.
Keep(r, variables) == local' = [local EXCEPT ![r] = variables]

GoTo(t, p) == pc' = [pc EXCEPT ![t] = p]

\* The handler returns or raises, leaving "async with lock".
Release(r) ==
  /\ GoTo(r, "idle")
  /\ lock' = None
  /\ Keep(r, NoLocal)

\* What a step of a request that calls neither flush nor uuid4 leaves alone.
flushVars == <<rows, row, minted, crashes>>

-----------------------------------------------------------------------------
(* Arrival, the lock and recovery.                                         *)

Arrive(r) ==
  /\ pc[r] = "idle"
  /\ GoTo(r, "queued")
  /\ UNCHANGED <<lock, local, flushVars, backendVars, storeVars, journalVars>>

\* Mutant: a handler does not wait for the lock.
Acquire_unlocked(r) ==
  /\ pc[r] = "queued"
  /\ lock' = r
  /\ Keep(r, [NoLocal EXCEPT !.todo = uploads])
  /\ GoTo(r, "uploads")
  /\ UNCHANGED <<flushVars, backendVars, storeVars, journalVars>>

Acquire(r) ==
  /\ pc[r] = "queued"
  /\ lock = None
  /\ lock' = r
  /\ Keep(r, [NoLocal EXCEPT !.todo = uploads])
  /\ GoTo(r, "uploads")
  /\ UNCHANGED <<flushVars, backendVars, storeVars, journalVars>>

\* An intent without a subject is an interrupted migration.
RecoverMigration(r) ==
  /\ At(r, "uploads")
  /\ \E u \in local[r].todo :
       /\ u.subject = None
       /\ discard_upload(u)
       /\ Keep(r, [local[r] EXCEPT !.todo = @ \ {u}])
  /\ UNCHANGED <<pc, lock, flushVars, backendVars, storeVars>>

RecoverSnapshot(r) ==
  /\ At(r, "uploads")
  /\ \E u \in local[r].todo :
       /\ u.subject # None
       /\ Keep(r, [local[r] EXCEPT !.todo = @ \ {u}, !.upload = u,
                                 !.ids = FacesOf({u.subject})])
  /\ GoTo(r, "settle")
  /\ UNCHANGED <<lock, flushVars, backendVars, storeVars, journalVars>>

\* Mutant: faces the subject had before the upload count as added.
Added_all(r) == local[r].ids

Added(r) == local[r].ids \ local[r].upload.previous

\* Exactly one new face, and the insert of its row is accepted.
SettleAdopt(r) ==
  /\ At(r, "settle")
  /\ \E f \in Added(r) :
       /\ Added(r) = {f}
       /\ complete_upload(local[r].upload, f)
  /\ Keep(r, [local[r] EXCEPT !.upload = None, !.ids = {}])
  /\ GoTo(r, "uploads")
  /\ UNCHANGED <<lock, flushVars, backendVars, storeVars>>

\* Mutant: absence in one snapshot is taken for a failed upload.
SettlePending_discards(r) ==
  /\ At(r, "settle")
  /\ Added(r) = {}
  /\ discard_upload(local[r].upload)
  /\ Keep(r, [local[r] EXCEPT !.upload = None, !.ids = {}])
  /\ GoTo(r, "uploads")
  /\ UNCHANGED <<lock, flushVars, backendVars, storeVars>>

\* No new face in this snapshot: the upload may still commit.
SettlePending(r) ==
  /\ At(r, "settle")
  /\ Added(r) = {}
  /\ Keep(r, [local[r] EXCEPT !.unresolved = TRUE, !.upload = None, !.ids = {}])
  /\ GoTo(r, "uploads")
  /\ UNCHANGED <<lock, flushVars, backendVars, storeVars, journalVars>>

\* Several new faces: GatewayError, the journal has to be reconciled.
SettleAmbiguous(r) ==
  /\ At(r, "settle")
  /\ \E f, g \in Added(r) : f # g
  /\ Release(r)
  /\ UNCHANGED <<flushVars, backendVars, storeVars, journalVars>>

\* The new face already has a row: the INSERT raises IntegrityError.
SettleConflict(r) ==
  /\ At(r, "settle")
  /\ \E f \in Added(r) : Added(r) = {f} /\ images[f] # None
  /\ Release(r)
  /\ UNCHANGED <<flushVars, backendVars, storeVars, journalVars>>

RecoverPlans(r) ==
  /\ At(r, "uploads")
  /\ local[r].todo = {}
  /\ IF prepared_deletes = {}
     THEN GoTo(r, "flush") /\ UNCHANGED local
     ELSE /\ GoTo(r, "confirm")
          /\ Keep(r, [local[r] EXCEPT !.ids = FacesOf(Subject)])
  /\ UNCHANGED <<lock, flushVars, backendVars, storeVars, journalVars>>

\* Mutant: a delete counts as executed once one of its targets is gone.
Confirmed_some(r) ==
  {d \in prepared_deletes : d.faces # {} /\ ~(d.faces \subseteq local[r].ids)}

\* Prepared deletes none of whose targets is registered any more.
Confirmed(r) ==
  {d \in prepared_deletes : d.faces # {} /\ d.faces \cap local[r].ids = {}}

Confirm(r) ==
  /\ At(r, "confirm")
  /\ finish_delete(Confirmed(r))
  /\ Keep(r, [local[r] EXCEPT !.ids = {},
                 !.unresolved = @ \/ Confirmed(r) # prepared_deletes])
  /\ GoTo(r, "flush")
  /\ UNCHANGED <<lock, flushVars, backendVars, storeVars>>

\* Mutant: the lock is not released when the handler raises.
RecoverFails_locked(r) ==
  /\ At(r, "uploads")
  /\ (\E u \in local[r].todo : u.subject # None) \/ prepared_deletes # {}
  /\ GoTo(r, "idle")
  /\ UNCHANGED <<lock, local, flushVars, backendVars, storeVars, journalVars>>

\* A read of the backend fails during recovery; the handler raises.
RecoverFails(r) ==
  /\ At(r, "uploads")
  /\ (\E u \in local[r].todo : u.subject # None) \/ prepared_deletes # {}
  /\ Release(r)
  /\ UNCHANGED <<flushVars, backendVars, storeVars, journalVars>>

Recover(r) ==
  \/ RecoverMigration(r) \/ RecoverSnapshot(r) \/ RecoverPlans(r)
  \/ SettleAdopt(r) \/ SettlePending(r) \/ SettleAmbiguous(r)
  \/ SettleConflict(r) \/ Confirm(r) \/ RecoverFails(r)

-----------------------------------------------------------------------------
(* Journal.flush, run on a pool thread by the worker and by handlers.      *)

WorkerTick ==
  /\ pc[Worker] = "idle"
  /\ GoTo(Worker, "flush")
  /\ UNCHANGED <<lock, local, flushVars, backendVars, storeVars, journalVars>>

\* The rows one SELECT ... LIMIT returns.
FlushRead(t) ==
  /\ pc[t] = "flush"
  /\ \E D \in SUBSET ready_deletes :
       /\ Cardinality(D) <= FlushLimit
       /\ Cardinality(D) < FlushLimit => D = ready_deletes
       /\ rows' = [rows EXCEPT ![t] = D]
  /\ GoTo(t, "drain")
  /\ UNCHANGED <<lock, local, row, minted, crashes,
                 backendVars, storeVars, journalVars>>

\* Every object of one row is deleted.
FlushRow(t, d) ==
  /\ pc[t] = "drain"
  /\ d \in rows[t]
  /\ DeleteObjects(d.keys)
  /\ rows' = [rows EXCEPT ![t] = @ \ {d}]
  /\ row' = [row EXCEPT ![t] = d]
  /\ GoTo(t, "unqueue")
  /\ UNCHANGED <<lock, local, minted, crashes, backendVars, journalVars>>

FlushUnqueue(t) ==
  /\ pc[t] = "unqueue"
  /\ deletes' = deletes \ {row[t]}
  /\ row' = [row EXCEPT ![t] = None]
  /\ GoTo(t, "drain")
  /\ UNCHANGED <<lock, local, rows, minted, crashes, images, uploads,
                 backendVars, storeVars>>

\* Mutant: the row of a failed delete leaves the outbox.
FlushFails_forgets(t) ==
  /\ pc[t] = "drain"
  /\ \E d \in rows[t] : deletes' = deletes \ {d}
  /\ rows' = [rows EXCEPT ![t] = {}]
  /\ UNCHANGED <<pc, lock, local, row, minted, crashes, images, uploads,
                 backendVars, storeVars>>

\* store.delete raises at some object of a row; flush swallows the error and
\* the remaining rows wait for another flush.
FlushFails(t) ==
  /\ pc[t] = "drain"
  /\ \E d \in rows[t] : \E K \in SUBSET d.keys : DeleteObjects(K)
  /\ rows' = [rows EXCEPT ![t] = {}]
  /\ UNCHANGED <<pc, lock, local, row, minted, crashes,
                 backendVars, journalVars>>

\* The recovery of a request goes on to serve it; a flush at the end of an
\* upload or a delete is followed by the return of the handler.
FlushEnds(t) ==
  /\ pc[t] = "drain"
  /\ rows[t] = {}
  /\ IF t = Worker
     THEN GoTo(t, "idle") /\ UNCHANGED <<lock, local>>
     ELSE IF local[t].upload = None /\ local[t].plan = None
     THEN GoTo(t, "dispatch") /\ UNCHANGED <<lock, local>>
     ELSE Release(t)
  /\ UNCHANGED <<flushVars, backendVars, storeVars, journalVars>>

Flush(t) ==
  \/ FlushRead(t) \/ FlushUnqueue(t) \/ FlushFails(t) \/ FlushEnds(t)
  \/ \E d \in rows[t] : FlushRow(t, d)

-----------------------------------------------------------------------------
(* Serving a request.                                                      *)

\* A request without effect: searches, lists, refused input, an image that is
\* not registered, and the 503 every write gets while unresolved.
Respond(r) ==
  /\ At(r, "dispatch")
  /\ Release(r)
  /\ UNCHANGED <<flushVars, backendVars, storeVars, journalVars>>

\* Gateway.image: the ids, then the association.
OpenImage(r, f) ==
  /\ At(r, "dispatch")
  /\ f \in FacesOf(Subject)
  /\ Keep(r, [local[r] EXCEPT !.ids = FacesOf(Subject), !.face = f,
                            !.key = images[f]])
  /\ GoTo(r, IF images[f] # None THEN "get" ELSE "fetch")
  /\ UNCHANGED <<lock, flushVars, backendVars, storeVars, journalVars>>

\* The object, or the database's copy, is returned; or an error is.  The
\* database has a copy of a legacy face only.
ServeImage(r) ==
  /\ \/ At(r, "get")
     \/ At(r, "fetch")
  /\ Release(r)
  /\ UNCHANGED <<flushVars, backendVars, storeVars, journalVars>>

\* An image found in the database is copied to the store on its first read.
BeginMigration(r) ==
  /\ At(r, "fetch")
  /\ ~local[r].unresolved
  /\ subject[local[r].face] # None
  /\ local[r].face \in Legacy
  /\ \E k \in Key \ minted :
       /\ minted' = minted \cup {k}
       /\ begin_upload(k, None, local[r].ids)
       /\ puts' = puts \cup {[key |-> k, picture |-> picture[local[r].face]]}
       /\ Keep(r, [local[r] EXCEPT
            !.upload = [key |-> k, subject |-> None, previous |-> local[r].ids]])
  /\ GoTo(r, "put")
  /\ UNCHANGED <<lock, rows, row, crashes, backendVars, store>>

\* Bounds: a client sends a mutation only while few are in flight or queued.
Room == Cardinality(calls) < MaxCalls /\ Cardinality(deletes) < MaxRows

\* add_face: the ids of the subject before the upload, and the new key.
AddFace(r, s) ==
  /\ At(r, "dispatch")
  /\ ~local[r].unresolved /\ Room
  /\ \E k \in Key \ minted :
       /\ minted' = minted \cup {k}
       /\ Keep(r, [local[r] EXCEPT
            !.upload = [key |-> k, subject |-> s, previous |-> FacesOf({s})]])
  /\ GoTo(r, "begin")
  /\ UNCHANGED <<lock, rows, row, crashes, backendVars, storeVars, journalVars>>

BeginAdd(r) ==
  /\ At(r, "begin")
  /\ LET u == local[r].upload
     IN  /\ begin_upload(u.key, u.subject, u.previous)
         /\ puts' = puts \cup {[key |-> u.key, picture |-> u.key]}
  /\ GoTo(r, "put")
  /\ UNCHANGED <<lock, local, flushVars, backendVars, store>>

\* Sending a mutation of the backend.
Send(r, c) ==
  /\ calls' = calls \cup {[c EXCEPT !.by = r]}
  /\ GoTo(r, "await")
  /\ UNCHANGED <<subject, picture>>

AddCall(u) ==
  [op |-> "add", by |-> None, key |-> u.key, to |-> u.subject,
   from |-> {}, ids |-> {}]
DeleteCall(S, F) ==
  [op |-> "delete", by |-> None, key |-> None, to |-> None,
   from |-> S, ids |-> F]
RenameCall(a, b) ==
  [op |-> "rename", by |-> None, key |-> None, to |-> b,
   from |-> {a}, ids |-> {}]

\* put_object returned: register the face, or associate the migrated image.
PutSucceeds(r) ==
  /\ At(r, "put")
  /\ \A p \in puts : p.key # local[r].upload.key
  /\ IF local[r].upload.subject # None
     THEN /\ Send(r, AddCall(local[r].upload))
          /\ UNCHANGED <<journalVars, lock, local>>
     ELSE /\ complete_upload(local[r].upload, local[r].face)
          /\ Release(r)
          /\ UNCHANGED backendVars
  /\ UNCHANGED <<flushVars, storeVars>>

\* put_object raised or timed out.  A migration keeps its intent.
PutFails(r) ==
  /\ At(r, "put")
  /\ AbandonPut(local[r].upload.key)
  /\ IF local[r].upload.subject # None
     THEN /\ discard_upload(local[r].upload)
          /\ GoTo(r, "flush")
          /\ UNCHANGED <<lock, local>>
     ELSE Release(r) /\ UNCHANGED journalVars
  /\ UNCHANGED <<flushVars, backendVars>>

\* DELETE of one face or POST of a list: the targets are named.
DeleteFaces(r, F) ==
  /\ At(r, "dispatch")
  /\ ~local[r].unresolved /\ Room
  /\ F \subseteq issued
  /\ plan_delete(F)
  /\ Send(r, DeleteCall({}, F))
  /\ Keep(r, [local[r] EXCEPT !.plan = DeletePlan(F)])
  /\ UNCHANGED <<lock, flushVars, storeVars>>

\* Mutant: only the first page of the ids is read.
DeleteSubjects_page(r, S) ==
  /\ At(r, "dispatch")
  /\ ~local[r].unresolved /\ Room
  /\ \E page \in SUBSET FacesOf(S) :
       /\ Cardinality(page) = 1
       /\ Keep(r, [local[r] EXCEPT !.ids = page, !.from = S])
  /\ GoTo(r, "plan")
  /\ UNCHANGED <<lock, flushVars, backendVars, storeVars, journalVars>>

\* DELETE of a subject, of a subject's faces or of all faces: the targets are
\* the faces listed when the request is served.
DeleteSubjects(r, S) ==
  /\ At(r, "dispatch")
  /\ ~local[r].unresolved /\ Room
  /\ Keep(r, [local[r] EXCEPT !.ids = FacesOf(S), !.from = S])
  /\ GoTo(r, "plan")
  /\ UNCHANGED <<lock, flushVars, backendVars, storeVars, journalVars>>

PlanSubjects(r) ==
  /\ At(r, "plan")
  /\ plan_delete(local[r].ids)
  /\ Send(r, DeleteCall(local[r].from, {}))
  /\ Keep(r, [local[r] EXCEPT !.plan = DeletePlan(local[r].ids), !.ids = {}])
  /\ UNCHANGED <<lock, flushVars, storeVars>>

\* A subject rename is proxied like any other recognition request.
Rename(r, a, b) ==
  /\ At(r, "dispatch")
  /\ ~local[r].unresolved /\ Room
  /\ a # b
  /\ Send(r, RenameCall(a, b))
  /\ UNCHANGED <<lock, local, flushVars, storeVars, journalVars>>

-----------------------------------------------------------------------------
(* The answer to a mutation.                                               *)

Answered(r, reply) == At(r, "await") /\ local[r].reply = reply

AddSucceeded(r) ==
  /\ Answered(r, "ok")
  /\ local[r].upload # None
  /\ complete_upload(local[r].upload, local[r].face)
  /\ Release(r)
  /\ UNCHANGED <<flushVars, backendVars, storeVars>>

\* Mutant: the object of a refused upload is not queued for deletion.
AddRejected_forgets(r) ==
  /\ Answered(r, "rejected")
  /\ local[r].upload # None
  /\ uploads' = uploads \ {local[r].upload}
  /\ GoTo(r, "flush")
  /\ UNCHANGED <<lock, local, images, deletes, flushVars, backendVars, storeVars>>

AddRejected(r) ==
  /\ Answered(r, "rejected")
  /\ local[r].upload # None
  /\ discard_upload(local[r].upload)
  /\ GoTo(r, "flush")
  /\ UNCHANGED <<lock, local, flushVars, backendVars, storeVars>>

DeleteSucceeded(r) ==
  /\ Answered(r, "ok")
  /\ local[r].plan # None
  /\ finish_delete({local[r].plan})
  /\ GoTo(r, "flush")
  /\ UNCHANGED <<lock, local, flushVars, backendVars, storeVars>>

DeleteRejected(r) ==
  /\ Answered(r, "rejected")
  /\ local[r].plan # None
  /\ discard_delete(local[r].plan)
  /\ Release(r)
  /\ UNCHANGED <<flushVars, backendVars, storeVars>>

RenameAnswered(r) ==
  /\ At(r, "await")
  /\ local[r].upload = None /\ local[r].plan = None
  /\ local[r].reply # "none"
  /\ Release(r)
  /\ UNCHANGED <<flushVars, backendVars, storeVars, journalVars>>

\* Calls nobody waits for any more: those that may be late stay in flight.
Abandoned(C) == {[c EXCEPT !.by = None] : c \in {x \in C : x.op \in Late}}

\* Mutant: an unanswered call is taken for a failed one.
Unanswered_discards(r) ==
  /\ At(r, "await")
  /\ LET mine == {c \in calls : c.by = r}
     IN  calls' = (calls \ mine) \cup Abandoned(mine)
  /\ IF local[r].upload # None THEN discard_upload(local[r].upload)
     ELSE discard_delete(local[r].plan)
  /\ Release(r)
  /\ UNCHANGED <<subject, picture, flushVars, storeVars>>

\* A network error, a timeout or a 5xx, whether or not the backend executed
\* the call: any intent stays in the journal.
Unanswered(r) ==
  /\ At(r, "await")
  /\ LET mine == {c \in calls : c.by = r}
     IN  calls' = (calls \ mine) \cup Abandoned(mine)
  /\ Release(r)
  /\ UNCHANGED <<subject, picture, flushVars, storeVars, journalVars>>

Serve(r) ==
  \/ Respond(r) \/ ServeImage(r) \/ BeginMigration(r) \/ BeginAdd(r)
  \/ PutSucceeds(r) \/ PutFails(r) \/ PlanSubjects(r)
  \/ AddSucceeded(r) \/ AddRejected(r)
  \/ DeleteSucceeded(r) \/ DeleteRejected(r)
  \/ RenameAnswered(r) \/ Unanswered(r)
  \/ \E f \in Face : OpenImage(r, f)
  \/ \E s \in Subject : AddFace(r, s)
  \/ \E F \in SUBSET Face : DeleteFaces(r, F)
  \/ \E S \in {{s} : s \in Subject} \cup {Subject} : DeleteSubjects(r, S)
  \/ \E a, b \in Subject : Rename(r, a, b)

-----------------------------------------------------------------------------
(* The backend, the store, the administrator and crashes.                  *)

\* The task awaiting call c, if there is one, receives the reply.
Answer(c, reply, f) ==
  /\ local' = IF c.by = None THEN local
              ELSE [local EXCEPT ![c.by] = [@ EXCEPT !.reply = reply, !.face = f]]
  /\ UNCHANGED <<pc, lock, flushVars>>

BackendStep ==
  /\ \E c \in calls :
       \/ \E f \in Face : CommitAdd(c, f) /\ Answer(c, "ok", f)
       \/ CommitDelete(c) /\ Answer(c, "ok", None)
       \/ CommitRename(c) /\ Answer(c, "ok", None)
       \/ DropCall(c) /\ Answer(c, "rejected", None)
  /\ UNCHANGED <<storeVars, journalVars>>

\* Writes of clients that do not go through the gateway.
BypassAdd(f, s) ==
  /\ "add" \in Bypass
  /\ picture[f] = None
  /\ subject' = [subject EXCEPT ![f] = s]
  /\ picture' = [picture EXCEPT ![f] = f]
  /\ UNCHANGED <<calls, storeVars, journalVars, gatewayVars>>

BypassDelete(F) ==
  /\ "delete" \in Bypass
  /\ F \subseteq FacesOf(Subject) /\ F # {}
  /\ subject' = [f \in Face |-> IF f \in F THEN None ELSE subject[f]]
  /\ UNCHANGED <<picture, calls, storeVars, journalVars, gatewayVars>>

StoreStep ==
  /\ \E p \in puts : PutLands(p)
  /\ UNCHANGED <<backendVars, journalVars, gatewayVars>>

\* Mutant: the outbox does not survive the process.
Crash_volatile ==
  /\ crashes < MaxCrash
  /\ crashes' = crashes + 1
  /\ pc' = [t \in Task |-> "idle"]
  /\ lock' = None
  /\ local' = [r \in Request |-> NoLocal]
  /\ rows' = [t \in Task |-> {}]
  /\ row' = [t \in Task |-> None]
  /\ calls' = Abandoned(calls)
  /\ puts' = IF "put" \in Late THEN puts ELSE {}
  /\ deletes' = prepared_deletes
  /\ UNCHANGED <<subject, picture, store, minted, images, uploads>>

Crash ==
  /\ crashes < MaxCrash
  /\ crashes' = crashes + 1
  /\ pc' = [t \in Task |-> "idle"]
  /\ lock' = None
  /\ local' = [r \in Request |-> NoLocal]
  /\ rows' = [t \in Task |-> {}]
  /\ row' = [t \in Task |-> None]
  /\ calls' = Abandoned(calls)
  /\ puts' = IF "put" \in Late THEN puts ELSE {}
  /\ UNCHANGED <<subject, picture, store, minted, journalVars>>

\* An administrator settles an intent with the gateway stopped, after every
\* request of the backend and the store has ended.
Quiet ==
  /\ \A t \in Task : pc[t] = "idle"
  /\ calls = {} /\ puts = {}

ReconcileUpload ==
  /\ Quiet
  /\ \E u \in uploads :
       /\ u.subject # None
       /\ FacesOf({u.subject}) \subseteq u.previous
       /\ discard_upload(u)
  /\ UNCHANGED <<backendVars, storeVars, gatewayVars>>

ReconcileUndeleted ==
  /\ Quiet
  /\ \E d \in prepared_deletes :
       /\ d.faces \subseteq FacesOf(Subject)
       /\ discard_delete(d)
  /\ UNCHANGED <<backendVars, storeVars, gatewayVars>>

ReconcileDeleted ==
  /\ Quiet
  /\ \E d \in prepared_deletes : finish_delete_of(d, d.faces \ FacesOf(Subject))
  /\ UNCHANGED <<backendVars, storeVars, gatewayVars>>

Reconcile == ReconcileUpload \/ ReconcileUndeleted \/ ReconcileDeleted

Environment ==
  \/ BackendStep \/ StoreStep \/ Crash \/ Reconcile
  \/ \E f \in Face, s \in Subject : BypassAdd(f, s)
  \/ \E F \in SUBSET Face : BypassDelete(F)

Next ==
  \/ \E r \in Request : Arrive(r) \/ Acquire(r) \/ Recover(r) \/ Serve(r)
  \/ WorkerTick
  \/ \E t \in Task : Flush(t)
  \/ Environment

Spec == Init /\ [][Next]_vars
=============================================================================
