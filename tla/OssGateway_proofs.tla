-------------------------- MODULE OssGateway_proofs -------------------------
(***************************************************************************)
(* Type correctness of the gateway, mutual exclusion of its handlers, and  *)
(* the gate of recover(): the service never has two unconfirmed operations.*)
(*                                                                         *)
(* OneIntent is not inductive.  A write starts after "unresolved" was      *)
(* false, so the induction has to know what that flag promises at every    *)
(* point of a handler: which intents the handler has not looked at yet,    *)
(* which one is its own, and that there is no other.  It also has to know  *)
(* that no other handler is past the lock at the same time.                *)
(***************************************************************************)
EXTENDS GatewayProperties, TLAPS

\* The picture of a legacy face stays the database's copy.
LegacyPictures == \A f \in Legacy : picture[f] = f

TypeInv == TypeOK /\ LegacyPictures

\* Only the owner of the lock is past it.
Outside(p) == p \in {"idle", "queued"}
OwnerInside == \A r \in Request : Outside(pc[r]) \/ lock = r

Mine(x) == IF x = None THEN {} ELSE {x}

\* Upload intents that may exist when a handler with variables l is at p and
\* all it has seen so far is resolved.
Foreseen(p, l) ==
  CASE p = "uploads"           -> l.todo
    [] p = "settle"            -> l.todo \cup Mine(l.upload)
    [] p \in {"put", "await"}  -> Mine(l.upload)
    [] OTHER                   -> {}

\* What a handler with variables l at point p relies on, of the upload intents
\* U and the prepared deletes D: no intent it has not foreseen, and at most one
\* of its own once the gate has let it through.
Promise(p, l, U, D) ==
  /\ ~Outside(p) /\ ~l.unresolved => U \subseteq Foreseen(p, l)
  /\ ~l.unresolved /\ p \in {"flush", "drain", "unqueue", "dispatch", "begin",
                             "plan", "put", "get", "fetch"} => D = {}
  /\ ~l.unresolved /\ p = "await" => D \subseteq Mine(l.plan)
  /\ p \in {"begin", "plan", "put", "await"} => ~l.unresolved
  /\ p \in {"settle", "begin", "put"} => l.upload # None
  /\ p \in {"uploads", "confirm", "dispatch", "plan", "get", "fetch"} =>
       l.upload = None
  /\ p \in {"uploads", "settle", "confirm", "dispatch", "begin", "plan",
            "put", "get", "fetch"} => l.plan = None
  /\ p = "await" => l.upload = None \/ l.plan = None

HandlerOK(r) == Promise(pc[r], local[r], uploads, prepared_deletes)

IInv ==
  /\ TypeInv
  /\ OwnerInside
  /\ \A r \in Request : HandlerOK(r)
  /\ OneIntent

-----------------------------------------------------------------------------
(* Records.                                                                *)

\* Assigning one variable of a handler keeps the record of them well typed.
LEMMA LocalUpdate ==
  ASSUME NEW l \in Local
  PROVE  /\ \A x \in BOOLEAN : [l EXCEPT !.unresolved = x] \in Local
         /\ \A x \in SUBSET UploadRow : [l EXCEPT !.todo = x] \in Local
         /\ \A x \in SUBSET Face : [l EXCEPT !.ids = x] \in Local
         /\ \A x \in SUBSET Subject : [l EXCEPT !.from = x] \in Local
         /\ \A x \in UploadRow \cup {None} : [l EXCEPT !.upload = x] \in Local
         /\ \A x \in DeleteRow \cup {None} : [l EXCEPT !.plan = x] \in Local
         /\ \A x \in Face \cup {None} : [l EXCEPT !.face = x] \in Local
         /\ \A x \in Key \cup {None} : [l EXCEPT !.key = x] \in Local
         /\ \A x \in {"none", "ok", "rejected"} :
              [l EXCEPT !.reply = x] \in Local
  BY DEF Local

LEMMA LocalFields ==
  ASSUME NEW l \in Local
  PROVE  /\ l.unresolved \in BOOLEAN
         /\ l.todo \in SUBSET UploadRow
         /\ l.ids \in SUBSET Face
         /\ l.from \in SUBSET Subject
         /\ l.upload \in UploadRow \cup {None}
         /\ l.plan \in DeleteRow \cup {None}
         /\ l.face \in Face \cup {None}
         /\ l.key \in Key \cup {None}
  BY DEF Local

LEMMA NoLocalType == NoLocal \in Local
  BY DEF NoLocal, Local

-----------------------------------------------------------------------------
(* Steps of the handler that owns the lock.                                *)

LEMMA Facts ==
  ASSUME IInv, NEW r \in Request
  PROVE  /\ local[r] \in Local /\ pc[r] \in Point
         /\ TypeInv /\ OneIntent
         /\ BackendTypeOK /\ StoreTypeOK /\ JournalTypeOK /\ GatewayTypeOK
         /\ Promise(pc[r], local[r], uploads, prepared_deletes)
         /\ Outside(pc[r]) \/ lock = r
  BY DEF IInv, HandlerOK, OwnerInside, TypeInv, TypeOK, GatewayTypeOK, Task

\* While the owner moves to p with variables v, every other handler stays
\* outside the lock: only the owner's own promises are left to prove.
LEMMA OwnerMoves ==
  ASSUME IInv, NEW r \in Request, ~Outside(pc[r]),
         NEW p \in Point, NEW v \in Local, GoTo(r, p), Keep(r, v),
         UNCHANGED <<lock, rows, row, crashes>>, minted' \subseteq Key,
         BackendTypeOK', LegacyPictures', StoreTypeOK', JournalTypeOK',
         Promise(p, v, uploads', prepared_deletes'), OneIntent'
  PROVE  IInv'
<1>1. lock = r /\ GatewayTypeOK
  BY Facts
<1>2. pc'[r] = p /\ local'[r] = v
  BY <1>1 DEF GatewayTypeOK, GoTo, Keep, Task
<1>3. ASSUME NEW q \in Request \ {r}
      PROVE  HandlerOK(q)' /\ Outside(pc'[q])
  <2>1. Outside(pc[q])
    BY <1>1, Facts
  <2>2. pc'[q] = pc[q]
    BY <1>1 DEF GoTo, GatewayTypeOK, Task
  <2> QED
    BY <2>1, <2>2 DEF Outside, HandlerOK, Promise
<1>4. HandlerOK(r)'
  BY <1>2 DEF HandlerOK
<1>5. OwnerInside'
  BY <1>1, <1>3 DEF OwnerInside
<1>6. GatewayTypeOK'
  BY <1>1 DEF GatewayTypeOK, GoTo, Keep, Task
<1> QED
  BY <1>3, <1>4, <1>5, <1>6 DEF IInv, TypeInv, TypeOK

\* When the owner leaves, every handler is outside.
LEMMA OwnerLeaves ==
  ASSUME IInv, NEW r \in Request, ~Outside(pc[r]), Release(r),
         UNCHANGED <<rows, row, minted, crashes>>,
         BackendTypeOK', LegacyPictures', StoreTypeOK', JournalTypeOK',
         OneIntent'
  PROVE  IInv'
<1>1. lock = r /\ GatewayTypeOK
  BY Facts
<1>2. ASSUME NEW q \in Request PROVE Outside(pc'[q])
  <2>1. CASE q = r
    BY <1>1, <2>1 DEF Release, GoTo, GatewayTypeOK, Task, Outside
  <2>2. CASE q # r
    <3>1. Outside(pc[q])
      BY <1>1, <2>2, Facts
    <3> QED
      BY <1>1, <2>2, <3>1 DEF Release, GoTo, GatewayTypeOK, Task, Outside
  <2> QED BY <2>1, <2>2
<1>3. ASSUME NEW q \in Request PROVE HandlerOK(q)'
  BY <1>2 DEF Outside, HandlerOK, Promise
<1>4. GatewayTypeOK'
  BY <1>1, NoLocalType DEF GatewayTypeOK, Release, GoTo, Keep, Task, Point
<1> QED
  BY <1>2, <1>3, <1>4 DEF IInv, OwnerInside, TypeInv, TypeOK

LEMMA BackendKept ==
  ASSUME TypeInv, UNCHANGED backendVars
  PROVE  BackendTypeOK' /\ LegacyPictures'
  BY DEF TypeInv, TypeOK, BackendTypeOK, LegacyPictures, backendVars

LEMMA StoreKept ==
  ASSUME TypeInv, UNCHANGED storeVars
  PROVE  StoreTypeOK'
  BY DEF TypeInv, TypeOK, StoreTypeOK, storeVars

-----------------------------------------------------------------------------
(* The methods of the journal.                                             *)

LEMMA DiscardUpload ==
  ASSUME JournalTypeOK, NEW u \in UploadRow, discard_upload(u)
  PROVE  /\ JournalTypeOK'
         /\ uploads' = uploads \ {u}
         /\ prepared_deletes' = prepared_deletes
<1> DEFINE e == [faces |-> {}, keys |-> {u.key}, ready |-> TRUE]
<1>1. e \in DeleteRow /\ e.ready
  BY DEF UploadRow, DeleteRow
<1>2. deletes' = deletes \cup {e} /\ uploads' = uploads \ {u} /\ images' = images
  BY DEF discard_upload
<1> HIDE DEF e
<1> QED
  BY <1>1, <1>2 DEF JournalTypeOK, prepared_deletes

LEMMA CompleteUpload ==
  ASSUME JournalTypeOK, NEW u \in UploadRow, NEW f, complete_upload(u, f)
  PROVE  /\ JournalTypeOK'
         /\ uploads' = uploads \ {u}
         /\ prepared_deletes' = prepared_deletes
  BY DEF JournalTypeOK, complete_upload, prepared_deletes, UploadRow

LEMMA BeginUpload ==
  ASSUME JournalTypeOK, NEW u \in UploadRow,
         begin_upload(u.key, u.subject, u.previous)
  PROVE  /\ JournalTypeOK'
         /\ uploads' = uploads \cup {u}
         /\ prepared_deletes' = prepared_deletes
  BY DEF JournalTypeOK, begin_upload, prepared_deletes, UploadRow

LEMMA PlanDelete ==
  ASSUME JournalTypeOK, NEW F \in SUBSET Face, plan_delete(F)
  PROVE  /\ DeletePlan(F) \in DeleteRow
         /\ JournalTypeOK'
         /\ uploads' = uploads
         /\ prepared_deletes' = prepared_deletes \cup {DeletePlan(F)}
<1>1. DeletePlan(F) \in DeleteRow
  BY DEF JournalTypeOK, DeletePlan, DeleteRow
<1>2. DeletePlan(F).ready = FALSE
  BY DEF DeletePlan
<1>3. deletes' = deletes \cup {DeletePlan(F)} /\ UNCHANGED <<images, uploads>>
  BY DEF plan_delete
<1> QED
  BY <1>1, <1>2, <1>3 DEF JournalTypeOK, prepared_deletes

LEMMA FinishDelete ==
  ASSUME JournalTypeOK, NEW D \in SUBSET DeleteRow, finish_delete(D)
  PROVE  /\ JournalTypeOK'
         /\ uploads' = uploads
         /\ prepared_deletes' = prepared_deletes \ D
<1>1. \A d \in D : [d EXCEPT !.ready = TRUE] \in DeleteRow
                   /\ [d EXCEPT !.ready = TRUE].ready
  BY DEF DeleteRow
<1> QED
  BY <1>1 DEF JournalTypeOK, finish_delete, prepared_deletes

LEMMA FinishDeleteOf ==
  ASSUME JournalTypeOK, NEW d \in DeleteRow, NEW F, finish_delete_of(d, F)
  PROVE  /\ JournalTypeOK'
         /\ uploads' = uploads
         /\ prepared_deletes' = prepared_deletes \ {d}
<1> DEFINE e == [DeletePlan(d.faces \cap F) EXCEPT !.ready = TRUE]
           K == {images[f] : f \in d.faces \cap F} \ {None}
<1>1. d.faces \cap F \in SUBSET Face
  BY DEF DeleteRow
<1>2. K \in SUBSET Key
  BY <1>1 DEF JournalTypeOK
<1>3. DeletePlan(d.faces \cap F) \in DeleteRow
  BY <1>1, <1>2 DEF DeletePlan, DeleteRow
<1>4. \A p \in DeleteRow : [p EXCEPT !.ready = TRUE] \in DeleteRow /\ [p EXCEPT !.ready = TRUE].ready
  BY DEF DeleteRow
<1>5. e \in DeleteRow /\ e.ready
  BY <1>3, <1>4, Zenon
<1> QED
  BY <1>5 DEF JournalTypeOK, finish_delete_of, prepared_deletes

LEMMA DiscardDelete ==
  ASSUME JournalTypeOK, NEW d, discard_delete(d)
  PROVE  /\ JournalTypeOK'
         /\ uploads' = uploads
         /\ prepared_deletes' = prepared_deletes \ {d}
  BY DEF JournalTypeOK, discard_delete, prepared_deletes

LEMMA JournalKept ==
  ASSUME JournalTypeOK, UNCHANGED journalVars
  PROVE  /\ JournalTypeOK'
         /\ uploads' = uploads /\ prepared_deletes' = prepared_deletes
  BY DEF journalVars, JournalTypeOK, prepared_deletes
-----------------------------------------------------------------------------
(* recover().                                                              *)

LEMMA RecoverMigrationStep ==
  ASSUME IInv, NEW r \in Request, RecoverMigration(r)
  PROVE  IInv'
<1> DEFINE l == local[r]
<1>1. pc[r] = "uploads" /\ ~Outside(pc[r])
  BY DEF RecoverMigration, At, Outside
<1>2. PICK u \in l.todo :
        discard_upload(u) /\ Keep(r, [l EXCEPT !.todo = l.todo \ {u}])
  BY DEF RecoverMigration
<1> DEFINE v == [l EXCEPT !.todo = l.todo \ {u}]
<1>3. l \in Local /\ u \in UploadRow
  BY Facts, LocalFields
<1>4. v \in Local
  BY <1>3, LocalFields, LocalUpdate
<1>5. /\ v.todo = l.todo \ {u} /\ v.unresolved = l.unresolved
      /\ v.upload = l.upload /\ v.plan = l.plan
  BY <1>3 DEF Local
<1>6. /\ GoTo(r, "uploads") /\ UNCHANGED <<lock, rows, row, crashes, minted>>
      /\ UNCHANGED <<backendVars, storeVars>>
  BY <1>1, Facts DEF RecoverMigration, GoTo, GatewayTypeOK, flushVars
<1>7. /\ JournalTypeOK' /\ uploads' = uploads \ {u}
      /\ prepared_deletes' = prepared_deletes
  BY <1>2, <1>3, DiscardUpload, Facts
<1> HIDE DEF l, v
<1>8. Promise("uploads", v, uploads', prepared_deletes')
  BY <1>1, <1>5, <1>7, Facts DEF Promise, Foreseen, Outside, l
<1>9. OneIntent'
  BY <1>7, Facts DEF OneIntent
<1> QED
  BY <1>1, <1>2, <1>4, <1>6, <1>7, <1>8, <1>9, OwnerMoves, BackendKept,
     StoreKept, Facts DEF l, v, Point, GatewayTypeOK

LEMMA RecoverSnapshotStep ==
  ASSUME IInv, NEW r \in Request, RecoverSnapshot(r)
  PROVE  IInv'
<1> DEFINE l == local[r]
<1>1. pc[r] = "uploads" /\ ~Outside(pc[r])
  BY DEF RecoverSnapshot, At, Outside
<1>2. PICK u \in l.todo :
        Keep(r, [l EXCEPT !.todo = l.todo \ {u}, !.upload = u,
                          !.ids = FacesOf({u.subject})])
  BY DEF RecoverSnapshot
<1> DEFINE v == [l EXCEPT !.todo = l.todo \ {u}, !.upload = u,
                          !.ids = FacesOf({u.subject})]
<1>3. l \in Local /\ u \in UploadRow
  BY Facts, LocalFields
<1>4. v \in Local
  BY <1>3, LocalFields, LocalUpdate DEF FacesOf
<1>5. /\ v.todo = l.todo \ {u} /\ v.unresolved = l.unresolved
      /\ v.upload = u /\ v.plan = l.plan
  BY <1>3 DEF Local
<1>6. /\ GoTo(r, "settle") /\ UNCHANGED <<lock, rows, row, crashes, minted>>
      /\ UNCHANGED <<backendVars, storeVars, journalVars>>
  BY DEF RecoverSnapshot, flushVars
<1>7. u # None
  BY <1>2, <1>3, NoRowAssumption
<1> HIDE DEF l, v
<1>8. Promise("settle", v, uploads, prepared_deletes)
  BY <1>1, <1>5, <1>7, Facts DEF Promise, Foreseen, Outside, Mine, l
<1> QED
  BY <1>1, <1>2, <1>4, <1>6, <1>8, OwnerMoves, BackendKept,
     StoreKept, JournalKept, Facts DEF l, v, Point, GatewayTypeOK, OneIntent

LEMMA SettleAdoptStep ==
  ASSUME IInv, NEW r \in Request, SettleAdopt(r)
  PROVE  IInv'
<1> DEFINE l == local[r]
           v == [l EXCEPT !.upload = None, !.ids = {}]
<1>1. pc[r] = "settle" /\ ~Outside(pc[r]) /\ l \in Local /\ l.upload # None
  BY Facts DEF SettleAdopt, At, Outside, Promise
<1>2. l.upload \in UploadRow
  BY <1>1, LocalFields
<1>3. v \in Local
  BY <1>1, LocalUpdate
<1>4. /\ v.todo = l.todo /\ v.unresolved = l.unresolved
      /\ v.upload = None /\ v.plan = l.plan
  BY <1>1 DEF Local
<1>5. /\ GoTo(r, "uploads") /\ Keep(r, v)
      /\ UNCHANGED <<lock, rows, row, crashes, minted>>
      /\ UNCHANGED <<backendVars, storeVars>>
  BY DEF SettleAdopt, flushVars
<1>6. /\ JournalTypeOK' /\ uploads' = uploads \ {l.upload}
      /\ prepared_deletes' = prepared_deletes
  BY <1>2, CompleteUpload, Facts DEF SettleAdopt
<1> HIDE DEF l, v
<1>7. Promise("uploads", v, uploads', prepared_deletes')
  BY <1>1, <1>4, <1>6, Facts DEF Promise, Foreseen, Outside, Mine, l
<1>8. OneIntent'
  BY <1>6, Facts DEF OneIntent
<1> QED
  BY <1>1, <1>3, <1>5, <1>6, <1>7, <1>8, OwnerMoves, BackendKept,
     StoreKept, Facts DEF l, Point, GatewayTypeOK

LEMMA SettlePendingStep ==
  ASSUME IInv, NEW r \in Request, SettlePending(r)
  PROVE  IInv'
<1> DEFINE l == local[r]
           v == [l EXCEPT !.unresolved = TRUE, !.upload = None, !.ids = {}]
<1>1. pc[r] = "settle" /\ ~Outside(pc[r]) /\ l \in Local
  BY Facts DEF SettlePending, At, Outside
<1>2. v \in Local
  BY <1>1, LocalUpdate
<1>3. v.unresolved /\ v.upload = None /\ v.plan = l.plan
  BY <1>1 DEF Local
<1>4. /\ GoTo(r, "uploads") /\ Keep(r, v)
      /\ UNCHANGED <<lock, rows, row, crashes, minted>>
      /\ UNCHANGED <<backendVars, storeVars, journalVars>>
  BY DEF SettlePending, flushVars
<1> HIDE DEF l, v
<1>5. Promise("uploads", v, uploads, prepared_deletes)
  BY <1>1, <1>3, Facts DEF Promise, Outside, l
<1> QED
  BY <1>1, <1>2, <1>4, <1>5, OwnerMoves, BackendKept, StoreKept,
     JournalKept, Facts DEF l, Point, GatewayTypeOK, OneIntent

LEMMA RecoverPlansStep ==
  ASSUME IInv, NEW r \in Request, RecoverPlans(r)
  PROVE  IInv'
<1> DEFINE l == local[r]
<1>1. /\ pc[r] = "uploads" /\ ~Outside(pc[r]) /\ l \in Local /\ l.todo = {}
      /\ UNCHANGED <<lock, rows, row, crashes, minted>>
      /\ UNCHANGED <<backendVars, storeVars, journalVars>>
  BY Facts DEF RecoverPlans, At, Outside, flushVars
<1>2. CASE prepared_deletes = {}
  <2>1. GoTo(r, "flush") /\ Keep(r, l)
    BY <1>2, Facts DEF RecoverPlans, Keep, GatewayTypeOK
  <2>2. Promise("flush", l, uploads, prepared_deletes)
    BY <1>1, <1>2, Facts DEF Promise, Foreseen, Outside
  <2> QED
    BY <1>1, <2>1, <2>2, OwnerMoves, BackendKept, StoreKept,
       JournalKept, Facts DEF Point, GatewayTypeOK, OneIntent
<1>3. CASE prepared_deletes # {}
  <2> DEFINE v == [l EXCEPT !.ids = FacesOf(Subject)]
  <2>1. GoTo(r, "confirm") /\ Keep(r, v)
    BY <1>3 DEF RecoverPlans
  <2>2. v \in Local
    BY <1>1, LocalUpdate DEF FacesOf
  <2>3. /\ v.unresolved = l.unresolved /\ v.upload = l.upload
        /\ v.plan = l.plan
    BY <1>1 DEF Local
  <2> HIDE DEF v
  <2>4. Promise("confirm", v, uploads, prepared_deletes)
    BY <1>1, <2>3, Facts DEF Promise, Foreseen, Outside
  <2> QED
    BY <1>1, <2>1, <2>2, <2>4, OwnerMoves, BackendKept, StoreKept,
       JournalKept, Facts DEF Point, GatewayTypeOK, OneIntent
<1> QED BY <1>2, <1>3

\* Whatever the confirmation leaves prepared makes the handler unresolved.
LEMMA ConfirmStep ==
  ASSUME IInv, NEW r \in Request, Confirm(r)
  PROVE  IInv'
<1> DEFINE l == local[r]
           b == l.unresolved \/ Confirmed(r) # prepared_deletes
           v == [l EXCEPT !.ids = {}, !.unresolved = b]
<1>1. pc[r] = "confirm" /\ ~Outside(pc[r]) /\ l \in Local
  BY Facts DEF Confirm, At, Outside
<1>2. v \in Local
  BY <1>1, LocalUpdate, LocalFields
<1>3. v.unresolved = b /\ v.upload = l.upload /\ v.plan = l.plan
  BY <1>1 DEF Local
<1>4. /\ GoTo(r, "flush") /\ Keep(r, v)
      /\ UNCHANGED <<lock, rows, row, crashes, minted>>
      /\ UNCHANGED <<backendVars, storeVars>>
  BY DEF Confirm, flushVars
<1>5. /\ JournalTypeOK' /\ uploads' = uploads
      /\ prepared_deletes' = prepared_deletes \ Confirmed(r)
  <2>1. Confirmed(r) \in SUBSET DeleteRow
    BY Facts DEF Confirmed, prepared_deletes, JournalTypeOK
  <2> QED
    BY <2>1, FinishDelete, Facts DEF Confirm
<1> HIDE DEF l, v
<1>6. Promise("flush", v, uploads', prepared_deletes')
  BY <1>1, <1>3, <1>5, Facts DEF Promise, Foreseen, Outside, l
<1>7. OneIntent'
  BY <1>5, Facts DEF OneIntent
<1> QED
  BY <1>1, <1>2, <1>4, <1>5, <1>6, <1>7, OwnerMoves, BackendKept,
     StoreKept, Facts DEF Point, GatewayTypeOK

\* A handler that returns or raises without touching the journal.
LEMMA LeavingStep ==
  ASSUME IInv, NEW r \in Request, ~Outside(pc[r]), Release(r),
         UNCHANGED <<flushVars, backendVars, storeVars, journalVars>>
  PROVE  IInv'
<1>1. OneIntent'
  BY Facts, JournalKept DEF OneIntent
<1> QED
  BY <1>1, OwnerLeaves, BackendKept, StoreKept, JournalKept, Facts
  DEF flushVars

LEMMA RecoverStep ==
  ASSUME IInv, NEW r \in Request, Recover(r)
  PROVE  IInv'
<1>1. CASE SettleAmbiguous(r) \/ SettleConflict(r) \/ RecoverFails(r)
  BY <1>1, LeavingStep
  DEF SettleAmbiguous, SettleConflict, RecoverFails, At, Outside
<1> QED
  BY <1>1, RecoverMigrationStep, RecoverSnapshotStep, RecoverPlansStep,
     SettleAdoptStep, SettlePendingStep, ConfirmStep DEF Recover

-----------------------------------------------------------------------------
(* Steps that leave every handler on its side of the lock.                 *)

\* Handlers stay where they are, or move inside flush; intents may only go.
LEMMA HandlersStay ==
  ASSUME IInv, GatewayTypeOK', UNCHANGED <<lock, local, uploads>>,
         \A q \in Request :
           \/ pc'[q] = pc[q]
           \/ {pc[q], pc'[q]} \subseteq {"flush", "drain", "unqueue"},
         prepared_deletes' \subseteq prepared_deletes,
         BackendTypeOK', LegacyPictures', StoreTypeOK', JournalTypeOK'
  PROVE  IInv'
<1>1. ASSUME NEW q \in Request
      PROVE  HandlerOK(q)' /\ (Outside(pc'[q]) \/ lock' = q)
  <2>1. CASE pc'[q] = pc[q]
    <3>1. Promise(pc[q], local[q], uploads, prepared_deletes')
      BY Facts DEF Promise
    <3> QED
      BY <2>1, <3>1, Facts DEF HandlerOK
  <2>2. CASE {pc[q], pc'[q]} \subseteq {"flush", "drain", "unqueue"}
    <3>1. ~Outside(pc[q])
      BY <2>2 DEF Outside
    <3>2. Promise(pc'[q], local[q], uploads, prepared_deletes')
      BY <2>2, <3>1, Facts DEF Promise, Foreseen, Outside
    <3> QED
      BY <3>1, <3>2, Facts DEF HandlerOK
  <2> QED BY <2>1, <2>2
<1>2. OneIntent'
  BY DEF OneIntent, IInv
<1> QED
  BY <1>1, <1>2 DEF IInv, TypeInv, TypeOK, OwnerInside

LEMMA WorkerStep ==
  ASSUME IInv, NEW p \in Point, GoTo(Worker, p),
         UNCHANGED <<lock, local, flushVars, backendVars, storeVars, journalVars>>
  PROVE  IInv'
<1>1. GatewayTypeOK'
  BY DEF GatewayTypeOK, GoTo, Task, flushVars, IInv, TypeInv, TypeOK
<1>2. \A q \in Request : pc'[q] = pc[q]
  BY WorkerAssumption DEF GoTo, GatewayTypeOK, Task, IInv, TypeInv, TypeOK
<1> QED
  BY <1>1, <1>2, HandlersStay, BackendKept, StoreKept, JournalKept
  DEF IInv, TypeInv, TypeOK, journalVars

LEMMA FlushStep ==
  ASSUME IInv, NEW t \in Task, Flush(t)
  PROVE  IInv'
<1> USE DEF IInv, TypeInv, TypeOK
<1>1. ASSUME NEW p \in {"flush", "drain", "unqueue"}, GoTo(t, p),
             pc[t] \in {"flush", "drain", "unqueue"}
      PROVE  /\ pc' \in [Task -> Point]
             /\ \A q \in Request :
                  \/ pc'[q] = pc[q]
                  \/ {pc[q], pc'[q]} \subseteq {"flush", "drain", "unqueue"}
  BY <1>1 DEF GoTo, GatewayTypeOK, Task, Point
<1>2. CASE FlushRead(t)
  <2>1. rows' \in [Task -> SUBSET DeleteRow]
    BY <1>2 DEF FlushRead, GatewayTypeOK, JournalTypeOK, ready_deletes
  <2>2. /\ UNCHANGED <<lock, local, row, minted, crashes>>
        /\ UNCHANGED <<backendVars, storeVars, journalVars>>
        /\ GoTo(t, "drain") /\ pc[t] = "flush"
    BY <1>2 DEF FlushRead
  <2> QED
    BY <1>1, <2>1, <2>2, HandlersStay, BackendKept, StoreKept, JournalKept
    DEF GatewayTypeOK, journalVars
<1>3. ASSUME NEW d \in rows[t], FlushRow(t, d)
      PROVE  IInv'
  <2>1. d \in DeleteRow
    BY DEF GatewayTypeOK
  <2>2. /\ rows' \in [Task -> SUBSET DeleteRow]
        /\ row' \in [Task -> DeleteRow \cup {None}]
    BY <1>3, <2>1 DEF FlushRow, GatewayTypeOK
  <2>3. /\ UNCHANGED <<lock, local, minted, crashes, backendVars, journalVars>>
        /\ GoTo(t, "unqueue") /\ pc[t] = "drain"
    BY <1>3 DEF FlushRow
  <2>4. StoreTypeOK'
    BY <1>3 DEF FlushRow, DeleteObjects, StoreTypeOK
  <2> QED
    BY <1>1, <2>2, <2>3, <2>4, HandlersStay, BackendKept, JournalKept
    DEF GatewayTypeOK, journalVars
<1>4. CASE FlushUnqueue(t)
  <2>1. row' \in [Task -> DeleteRow \cup {None}]
    BY <1>4 DEF FlushUnqueue, GatewayTypeOK
  <2>2. /\ UNCHANGED <<lock, local, rows, minted, crashes, images, uploads>>
        /\ UNCHANGED <<backendVars, storeVars>>
        /\ GoTo(t, "drain") /\ pc[t] = "unqueue"
    BY <1>4 DEF FlushUnqueue
  <2>3. JournalTypeOK' /\ prepared_deletes' \subseteq prepared_deletes
    BY <1>4 DEF FlushUnqueue, JournalTypeOK, prepared_deletes
  <2> QED
    BY <1>1, <2>1, <2>2, <2>3, HandlersStay, BackendKept, StoreKept
    DEF GatewayTypeOK
<1>5. CASE FlushFails(t)
  <2>1. rows' \in [Task -> SUBSET DeleteRow]
    BY <1>5 DEF FlushFails, GatewayTypeOK
  <2>2. UNCHANGED <<pc, lock, local, row, minted, crashes, backendVars,
                    journalVars>>
    BY <1>5 DEF FlushFails
  <2>3. StoreTypeOK'
    BY <1>5 DEF FlushFails, DeleteObjects, StoreTypeOK
  <2> QED
    BY <2>1, <2>2, <2>3, HandlersStay, BackendKept, JournalKept
    DEF GatewayTypeOK, journalVars
<1>6. CASE FlushEnds(t)
  <2>1. /\ pc[t] = "drain" /\ ~Outside(pc[t])
        /\ UNCHANGED <<flushVars, backendVars, storeVars, journalVars>>
    BY <1>6 DEF FlushEnds, Outside
  <2>2. CASE t = Worker
    BY <1>6, <2>1, <2>2, WorkerStep DEF FlushEnds, Point
  <2>3. CASE t # Worker /\ local[t].upload = None /\ local[t].plan = None
    <3>1. t \in Request
      BY <2>3 DEF Task
    <3>2. GoTo(t, "dispatch") /\ Keep(t, local[t]) /\ UNCHANGED lock
      BY <1>6, <2>3, <3>1 DEF FlushEnds, Keep, GatewayTypeOK
    <3>3. Promise("dispatch", local[t], uploads, prepared_deletes)
      BY <2>1, <2>3, <3>1, Facts DEF Promise, Foreseen, Outside
    <3> QED
      BY <2>1, <3>1, <3>2, <3>3, OwnerMoves, BackendKept, StoreKept,
         JournalKept, Facts DEF Point, GatewayTypeOK, OneIntent, flushVars
  <2>4. CASE t # Worker /\ ~(local[t].upload = None /\ local[t].plan = None)
    <3>1. t \in Request /\ Release(t)
      BY <1>6, <2>4 DEF Task, FlushEnds
    <3> QED
      BY <2>1, <3>1, LeavingStep
  <2> QED BY <2>2, <2>3, <2>4
<1> QED
  BY <1>2, <1>3, <1>4, <1>5, <1>6 DEF Flush

LEMMA ArriveStep ==
  ASSUME IInv, NEW r \in Request, Arrive(r)
  PROVE  IInv'
<1>1. GatewayTypeOK'
  BY Facts DEF Arrive, GatewayTypeOK, GoTo, Task, Point, flushVars
<1>2. ASSUME NEW q \in Request
      PROVE  HandlerOK(q)' /\ (Outside(pc'[q]) \/ lock' = q)
  <2>1. CASE q = r
    <3>1. pc'[q] = "queued"
      BY <2>1, Facts DEF Arrive, GatewayTypeOK, GoTo, Task
    <3> QED
      BY <3>1 DEF HandlerOK, Promise, Outside
  <2>2. CASE q # r
    <3>1. pc'[q] = pc[q]
      BY <2>2, Facts DEF Arrive, GatewayTypeOK, GoTo, Task
    <3> QED
      BY <3>1, Facts, JournalKept DEF HandlerOK, Arrive
  <2> QED BY <2>1, <2>2
<1> QED
  BY <1>1, <1>2, BackendKept, StoreKept, JournalKept
  DEF IInv, TypeInv, TypeOK, OwnerInside, OneIntent, Arrive

\* The new owner reads the table of intents: all of them are still to do.
LEMMA AcquireStep ==
  ASSUME IInv, NEW r \in Request, Acquire(r)
  PROVE  IInv'
<1> DEFINE v == [NoLocal EXCEPT !.todo = uploads]
<1>1. /\ lock = None /\ lock' = r /\ GoTo(r, "uploads") /\ Keep(r, v)
      /\ UNCHANGED <<flushVars, backendVars, storeVars, journalVars>>
  BY DEF Acquire
<1>2. v \in Local
  BY Facts, NoLocalType, LocalUpdate DEF JournalTypeOK
<1>3. v.todo = uploads /\ v.upload = None /\ v.plan = None
  BY DEF NoLocal
<1> HIDE DEF v
<1>4. Promise("uploads", v, uploads, prepared_deletes)
  BY <1>3 DEF Promise, Foreseen, Outside
<1>5. pc'[r] = "uploads" /\ local'[r] = v /\ GatewayTypeOK'
  BY <1>1, <1>2, Facts
  DEF GoTo, Keep, GatewayTypeOK, Task, Point, flushVars
<1>6. ASSUME NEW q \in Request \ {r}
      PROVE  HandlerOK(q)' /\ Outside(pc'[q])
  <2>1. Outside(pc[q])
    BY <1>1, NoneAssumption, Facts
  <2>2. pc'[q] = pc[q]
    BY <1>1, Facts DEF GoTo, GatewayTypeOK, Task
  <2> QED
    BY <2>1, <2>2 DEF Outside, HandlerOK, Promise
<1>7. HandlerOK(r)'
  BY <1>1, <1>4, <1>5, Facts, JournalKept DEF HandlerOK
<1> QED
  BY <1>1, <1>5, <1>6, <1>7, BackendKept, StoreKept, JournalKept
  DEF IInv, TypeInv, TypeOK, OwnerInside, OneIntent

-----------------------------------------------------------------------------
(* Serving a request.                                                      *)

\* Nothing the gate lets through finds an intent in the journal.
LEMMA GateOpen ==
  ASSUME IInv, NEW r \in Request, ~local[r].unresolved,
         pc[r] \in {"dispatch", "begin", "plan", "fetch"}
  PROVE  uploads = {} /\ prepared_deletes = {}
  BY Facts DEF Promise, Foreseen, Outside

LEMMA OpenImageStep ==
  ASSUME IInv, NEW r \in Request, NEW f \in Face, OpenImage(r, f)
  PROVE  IInv'
<1> DEFINE l == local[r]
           v == [l EXCEPT !.ids = FacesOf(Subject), !.face = f,
                          !.key = images[f]]
           p == IF images[f] # None THEN "get" ELSE "fetch"
<1>1. pc[r] = "dispatch" /\ ~Outside(pc[r]) /\ l \in Local
  BY Facts DEF OpenImage, At, Outside
<1>2. v \in Local
  <2>1. images[f] \in Key \cup {None}
    BY Facts DEF JournalTypeOK
  <2> QED
    BY <1>1, <2>1, LocalUpdate DEF FacesOf
<1>3. /\ v.unresolved = l.unresolved /\ v.upload = l.upload
      /\ v.plan = l.plan
  BY <1>1 DEF Local
<1>4. /\ GoTo(r, p) /\ Keep(r, v)
      /\ UNCHANGED <<lock, rows, row, crashes, minted>>
      /\ UNCHANGED <<backendVars, storeVars, journalVars>>
  BY DEF OpenImage, flushVars
<1>5. p \in {"get", "fetch"}
  OBVIOUS
<1> HIDE DEF l, v, p
<1>6. Promise(p, v, uploads, prepared_deletes)
  BY <1>1, <1>3, <1>5, Facts DEF Promise, Foreseen, Outside, l
<1>7. p \in Point
  BY <1>5 DEF Point
<1> QED
  BY <1>1, <1>2, <1>4, <1>6, <1>7, OwnerMoves, BackendKept, StoreKept,
     JournalKept, Facts DEF GatewayTypeOK, OneIntent

LEMMA BeginMigrationStep ==
  ASSUME IInv, NEW r \in Request, BeginMigration(r)
  PROVE  IInv'
<1> DEFINE l == local[r]
<1>1. /\ pc[r] = "fetch" /\ ~Outside(pc[r]) /\ l \in Local
      /\ ~l.unresolved /\ l.face \in Legacy
  BY Facts DEF BeginMigration, At, Outside
<1>2. PICK k \in Key \ minted :
        /\ minted' = minted \cup {k}
        /\ begin_upload(k, None, l.ids)
        /\ puts' = puts \cup {[key |-> k, picture |-> picture[l.face]]}
        /\ Keep(r, [l EXCEPT
             !.upload = [key |-> k, subject |-> None, previous |-> l.ids]])
  BY DEF BeginMigration
<1> DEFINE u == [key |-> k, subject |-> None, previous |-> l.ids]
           v == [l EXCEPT !.upload = u]
<1>3. u \in UploadRow /\ u # None
  BY <1>1, LocalFields, NoRowAssumption DEF UploadRow
<1>4. v \in Local
  BY <1>1, <1>3, LocalUpdate
<1>5. v.unresolved = l.unresolved /\ v.upload = u /\ v.plan = l.plan
  BY <1>1 DEF Local
<1>6. /\ JournalTypeOK' /\ uploads' = uploads \cup {u}
      /\ prepared_deletes' = prepared_deletes
  BY <1>2, <1>3, BeginUpload, Facts
<1>7. StoreTypeOK'
  <2>1. picture[l.face] \in Picture
    BY <1>1, Facts, LegacyAssumption DEF TypeInv, LegacyPictures, Picture
  <2> QED
    BY <1>2, <2>1, Facts DEF StoreTypeOK, BeginMigration, Put
<1>8. /\ GoTo(r, "put") /\ Keep(r, v) /\ UNCHANGED <<lock, rows, row, crashes>>
      /\ UNCHANGED backendVars /\ minted' \subseteq Key
  BY <1>2, Facts DEF BeginMigration, GatewayTypeOK
<1> HIDE DEF l, u, v
<1>9. uploads = {} /\ prepared_deletes = {}
  BY <1>1, GateOpen DEF l
<1>10. Promise("put", v, uploads', prepared_deletes')
  BY <1>1, <1>3, <1>5, <1>6, <1>9, Facts
  DEF Promise, Foreseen, Outside, Mine, l
<1>11. OneIntent'
  BY <1>6, <1>9 DEF OneIntent
<1> QED
  BY <1>1, <1>4, <1>6, <1>7, <1>8, <1>10, <1>11, OwnerMoves, BackendKept,
     Facts DEF Point

LEMMA AddFaceStep ==
  ASSUME IInv, NEW r \in Request, NEW s \in Subject, AddFace(r, s)
  PROVE  IInv'
<1> DEFINE l == local[r]
<1>1. /\ pc[r] = "dispatch" /\ ~Outside(pc[r]) /\ l \in Local /\ ~l.unresolved
      /\ GoTo(r, "begin") /\ UNCHANGED <<lock, rows, row, crashes>>
      /\ UNCHANGED <<backendVars, storeVars, journalVars>>
  BY Facts DEF AddFace, At, Outside
<1>2. PICK k \in Key \ minted :
        /\ minted' = minted \cup {k}
        /\ Keep(r, [l EXCEPT
             !.upload = [key |-> k, subject |-> s, previous |-> FacesOf({s})]])
  BY DEF AddFace
<1> DEFINE u == [key |-> k, subject |-> s, previous |-> FacesOf({s})]
           v == [l EXCEPT !.upload = u]
<1>3. u \in UploadRow /\ u # None
  BY NoRowAssumption DEF UploadRow, FacesOf
<1>4. v \in Local
  BY <1>1, <1>3, LocalUpdate
<1>5. v.unresolved = l.unresolved /\ v.upload = u /\ v.plan = l.plan
  BY <1>1 DEF Local
<1>6. Keep(r, v) /\ minted' \subseteq Key
  BY <1>2, Facts DEF GatewayTypeOK
<1> HIDE DEF l, u, v
<1>7. Promise("begin", v, uploads, prepared_deletes)
  BY <1>1, <1>3, <1>5, Facts DEF Promise, Foreseen, Outside, l
<1> QED
  BY <1>1, <1>4, <1>6, <1>7, OwnerMoves, BackendKept, StoreKept,
     JournalKept, Facts DEF Point, OneIntent

LEMMA BeginAddStep ==
  ASSUME IInv, NEW r \in Request, BeginAdd(r)
  PROVE  IInv'
<1> DEFINE l == local[r]
           u == l.upload
<1>1. /\ pc[r] = "begin" /\ ~Outside(pc[r]) /\ l \in Local /\ ~l.unresolved
      /\ u # None
  BY Facts DEF BeginAdd, At, Outside, Promise
<1>2. u \in UploadRow
  BY <1>1, LocalFields
<1>3. /\ JournalTypeOK' /\ uploads' = uploads \cup {u}
      /\ prepared_deletes' = prepared_deletes
  BY <1>2, BeginUpload, Facts DEF BeginAdd
<1>4. StoreTypeOK'
  BY <1>2, Facts DEF StoreTypeOK, BeginAdd, Put, Picture, UploadRow
<1>5. /\ GoTo(r, "put") /\ Keep(r, l)
      /\ UNCHANGED <<lock, rows, row, crashes, minted, backendVars>>
  BY Facts DEF BeginAdd, Keep, GatewayTypeOK, flushVars
<1> HIDE DEF u
<1>6. uploads = {} /\ prepared_deletes = {}
  BY <1>1, GateOpen
<1>7. Promise("put", l, uploads', prepared_deletes')
  BY <1>1, <1>3, <1>6, Facts DEF Promise, Foreseen, Outside, Mine, u
<1>8. OneIntent'
  BY <1>3, <1>6 DEF OneIntent
<1> QED
  BY <1>1, <1>3, <1>4, <1>5, <1>7, <1>8, OwnerMoves, BackendKept, Facts
  DEF Point, GatewayTypeOK

LEMMA SendType ==
  ASSUME TypeInv, NEW r \in Request, NEW c \in Call, Send(r, c)
  PROVE  BackendTypeOK' /\ LegacyPictures' /\ GoTo(r, "await")
<1>1. [c EXCEPT !.by = r] \in Call
  BY DEF Call
<1> QED
  BY <1>1 DEF TypeInv, TypeOK, BackendTypeOK, LegacyPictures, Send

LEMMA CallTypes ==
  /\ \A u \in UploadRow : AddCall(u) \in Call
  /\ \A S \in SUBSET Subject, F \in SUBSET Face : DeleteCall(S, F) \in Call
  /\ \A a, b \in Subject : RenameCall(a, b) \in Call
  BY DEF AddCall, DeleteCall, RenameCall, Call, UploadRow

LEMMA PutSucceedsStep ==
  ASSUME IInv, NEW r \in Request, PutSucceeds(r)
  PROVE  IInv'
<1> DEFINE l == local[r]
           u == l.upload
<1>1. /\ pc[r] = "put" /\ ~Outside(pc[r]) /\ l \in Local /\ ~l.unresolved
      /\ u # None /\ UNCHANGED <<flushVars, storeVars>>
  BY Facts DEF PutSucceeds, At, Outside, Promise
<1>2. u \in UploadRow
  BY <1>1, LocalFields
<1>3. CASE u.subject # None
  <2>1. Send(r, AddCall(u)) /\ UNCHANGED <<journalVars, lock, local>>
    BY <1>3 DEF PutSucceeds
  <2>2. BackendTypeOK' /\ LegacyPictures' /\ GoTo(r, "await") /\ Keep(r, l)
    BY <1>2, <2>1, CallTypes, SendType, Facts DEF Keep, GatewayTypeOK
  <2>3. Promise("await", l, uploads, prepared_deletes)
    BY <1>1, Facts DEF Promise, Foreseen, Outside, Mine
  <2> QED
    BY <1>1, <2>1, <2>2, <2>3, OwnerMoves, StoreKept, JournalKept, Facts
    DEF Point, GatewayTypeOK, OneIntent, flushVars
<1>4. CASE u.subject = None
  <2>1. /\ complete_upload(u, l.face) /\ Release(r) /\ UNCHANGED backendVars
    BY <1>4 DEF PutSucceeds
  <2>2. /\ JournalTypeOK' /\ uploads' = uploads \ {u}
        /\ prepared_deletes' = prepared_deletes
    BY <1>2, <2>1, CompleteUpload, Facts
  <2>3. OneIntent'
    BY <2>2, Facts DEF OneIntent
  <2> QED
    BY <1>1, <2>1, <2>2, <2>3, OwnerLeaves, BackendKept, StoreKept, Facts
    DEF flushVars
<1> QED BY <1>3, <1>4

LEMMA PutFailsStep ==
  ASSUME IInv, NEW r \in Request, PutFails(r)
  PROVE  IInv'
<1> DEFINE l == local[r]
           u == l.upload
<1>1. /\ pc[r] = "put" /\ ~Outside(pc[r]) /\ l \in Local /\ ~l.unresolved
      /\ u # None /\ UNCHANGED <<flushVars, backendVars>>
  BY Facts DEF PutFails, At, Outside, Promise
<1>2. u \in UploadRow
  BY <1>1, LocalFields
<1>3. StoreTypeOK'
  BY Facts DEF PutFails, AbandonPut, StoreTypeOK
<1>4. CASE u.subject # None
  <2>1. /\ discard_upload(u) /\ GoTo(r, "flush") /\ UNCHANGED lock /\ Keep(r, l)
    BY <1>4, Facts DEF PutFails, Keep, GatewayTypeOK
  <2>2. /\ JournalTypeOK' /\ uploads' = uploads \ {u}
        /\ prepared_deletes' = prepared_deletes
    BY <1>2, <2>1, DiscardUpload, Facts
  <2>3. Promise("flush", l, uploads', prepared_deletes')
    BY <1>1, <2>2, Facts DEF Promise, Foreseen, Outside, Mine
  <2>4. OneIntent'
    BY <2>2, Facts DEF OneIntent
  <2> QED
    BY <1>1, <1>3, <2>1, <2>2, <2>3, <2>4, OwnerMoves, BackendKept, Facts
    DEF Point, GatewayTypeOK, flushVars
<1>5. CASE u.subject = None
  <2>1. Release(r) /\ UNCHANGED journalVars
    BY <1>5 DEF PutFails
  <2>2. OneIntent'
    BY <2>1, Facts, JournalKept DEF OneIntent
  <2> QED
    BY <1>1, <1>3, <2>1, <2>2, OwnerLeaves, BackendKept, JournalKept, Facts
    DEF flushVars
<1> QED BY <1>4, <1>5

LEMMA DeleteFacesStep ==
  ASSUME IInv, NEW r \in Request, NEW F \in SUBSET Face, DeleteFaces(r, F)
  PROVE  IInv'
<1> DEFINE l == local[r]
           d == DeletePlan(F)
           v == [l EXCEPT !.plan = d]
<1>1. /\ pc[r] = "dispatch" /\ ~Outside(pc[r]) /\ l \in Local /\ ~l.unresolved
      /\ l.upload = None /\ UNCHANGED <<lock, flushVars, storeVars>>
      /\ Keep(r, v) /\ Send(r, DeleteCall({}, F))
  BY Facts DEF DeleteFaces, At, Outside, Promise
<1>2. /\ JournalTypeOK' /\ uploads' = uploads /\ d \in DeleteRow
      /\ prepared_deletes' = prepared_deletes \cup {d}
  BY PlanDelete, Facts DEF DeleteFaces
<1>3. v \in Local
  BY <1>1, <1>2, LocalUpdate
<1>4. v.unresolved = l.unresolved /\ v.upload = None /\ v.plan = d /\ d # None
  BY <1>1, <1>2, NoRowAssumption DEF Local
<1>5. BackendTypeOK' /\ LegacyPictures' /\ GoTo(r, "await")
  BY <1>1, CallTypes, SendType, Facts
<1>6. uploads = {} /\ prepared_deletes = {}
  BY <1>1, GateOpen
<1> HIDE DEF d, v
<1>7. Promise("await", v, uploads', prepared_deletes')
  BY <1>1, <1>2, <1>4, <1>6, Facts DEF Promise, Foreseen, Outside, Mine
<1>8. OneIntent'
  BY <1>2, <1>6 DEF OneIntent
<1> QED
  BY <1>1, <1>2, <1>3, <1>5, <1>7, <1>8, OwnerMoves, StoreKept, Facts
  DEF Point, GatewayTypeOK, flushVars

LEMMA DeleteSubjectsStep ==
  ASSUME IInv, NEW r \in Request, NEW S \in SUBSET Subject,
         DeleteSubjects(r, S)
  PROVE  IInv'
<1> DEFINE l == local[r]
           v == [l EXCEPT !.ids = FacesOf(S), !.from = S]
<1>1. /\ pc[r] = "dispatch" /\ ~Outside(pc[r]) /\ l \in Local /\ ~l.unresolved
      /\ GoTo(r, "plan") /\ Keep(r, v)
      /\ UNCHANGED <<lock, flushVars, backendVars, storeVars, journalVars>>
  BY Facts DEF DeleteSubjects, At, Outside
<1>2. v \in Local
  BY <1>1, LocalUpdate DEF FacesOf
<1>3. /\ v.unresolved = l.unresolved /\ v.upload = l.upload
      /\ v.plan = l.plan
  BY <1>1 DEF Local
<1> HIDE DEF v
<1>4. Promise("plan", v, uploads, prepared_deletes)
  BY <1>1, <1>3, Facts DEF Promise, Foreseen, Outside
<1> QED
  BY <1>1, <1>2, <1>4, OwnerMoves, BackendKept, StoreKept,
     JournalKept, Facts DEF Point, GatewayTypeOK, OneIntent, flushVars

LEMMA PlanSubjectsStep ==
  ASSUME IInv, NEW r \in Request, PlanSubjects(r)
  PROVE  IInv'
<1> DEFINE l == local[r]
           d == DeletePlan(l.ids)
           v == [l EXCEPT !.plan = d, !.ids = {}]
<1>1. /\ pc[r] = "plan" /\ ~Outside(pc[r]) /\ l \in Local /\ ~l.unresolved
      /\ l.upload = None /\ UNCHANGED <<lock, flushVars, storeVars>>
      /\ Keep(r, v) /\ Send(r, DeleteCall(l.from, {}))
  BY Facts DEF PlanSubjects, At, Outside, Promise
<1>2. l.ids \in SUBSET Face /\ l.from \in SUBSET Subject
  BY <1>1, LocalFields
<1>3. /\ JournalTypeOK' /\ uploads' = uploads /\ d \in DeleteRow
      /\ prepared_deletes' = prepared_deletes \cup {d}
  BY <1>2, PlanDelete, Facts DEF PlanSubjects
<1>4. v \in Local
  BY <1>1, <1>3, LocalUpdate
<1>5. v.unresolved = l.unresolved /\ v.upload = None /\ v.plan = d /\ d # None
  BY <1>1, <1>3, NoRowAssumption DEF Local
<1>6. BackendTypeOK' /\ LegacyPictures' /\ GoTo(r, "await")
  <2>1. DeleteCall(l.from, {}) \in Call
    BY <1>2, CallTypes
  <2> QED
    BY <1>1, <2>1, SendType, Facts
<1>7. uploads = {} /\ prepared_deletes = {}
  BY <1>1, GateOpen
<1> HIDE DEF d, v
<1>8. Promise("await", v, uploads', prepared_deletes')
  BY <1>1, <1>3, <1>5, <1>7, Facts DEF Promise, Foreseen, Outside, Mine
<1>9. OneIntent'
  BY <1>3, <1>7 DEF OneIntent
<1> QED
  BY <1>1, <1>3, <1>4, <1>6, <1>8, <1>9, OwnerMoves, StoreKept, Facts
  DEF Point, GatewayTypeOK, flushVars

LEMMA RenameStep ==
  ASSUME IInv, NEW r \in Request, NEW a \in Subject, NEW b \in Subject,
         Rename(r, a, b)
  PROVE  IInv'
<1> DEFINE l == local[r]
<1>1. /\ pc[r] = "dispatch" /\ ~Outside(pc[r]) /\ l \in Local /\ ~l.unresolved
      /\ l.upload = None /\ Keep(r, l) /\ Send(r, RenameCall(a, b))
      /\ UNCHANGED <<lock, flushVars, storeVars, journalVars>>
  BY Facts DEF Rename, At, Outside, Promise, Keep, GatewayTypeOK
<1>2. BackendTypeOK' /\ LegacyPictures' /\ GoTo(r, "await")
  BY <1>1, CallTypes, SendType, Facts
<1>3. uploads = {} /\ prepared_deletes = {}
  BY <1>1, GateOpen
<1>4. Promise("await", l, uploads, prepared_deletes)
  BY <1>1, <1>3 DEF Promise, Foreseen, Outside, Mine
<1> QED
  BY <1>1, <1>2, <1>4, OwnerMoves, StoreKept, JournalKept, Facts
  DEF Point, GatewayTypeOK, OneIntent, flushVars

\* The answer to a mutation settles the intent it belongs to.
LEMMA AnswerStep ==
  ASSUME IInv, NEW r \in Request,
         AddSucceeded(r) \/ AddRejected(r) \/ DeleteSucceeded(r)
           \/ DeleteRejected(r)
  PROVE  IInv'
<1> DEFINE l == local[r]
           u == l.upload
           d == l.plan
<1>1. /\ pc[r] = "await" /\ ~Outside(pc[r]) /\ l \in Local /\ ~l.unresolved
      /\ UNCHANGED <<flushVars, backendVars, storeVars>>
  BY Facts DEF AddSucceeded, AddRejected, DeleteSucceeded, DeleteRejected,
               Answered, At, Outside, Promise
<1>2. /\ u # None => u \in UploadRow /\ d = None
      /\ d # None => d \in DeleteRow /\ u = None
      /\ uploads \subseteq Mine(u) /\ prepared_deletes \subseteq Mine(d)
  BY <1>1, LocalFields, Facts DEF Promise, Foreseen, Outside
<1>3. CASE AddSucceeded(r)
  <2>1. u # None /\ complete_upload(u, l.face) /\ Release(r)
    BY <1>3 DEF AddSucceeded
  <2>2. JournalTypeOK' /\ uploads' = uploads \ {u}
        /\ prepared_deletes' = prepared_deletes
    BY <1>2, <2>1, CompleteUpload, Facts
  <2>3. OneIntent'
    BY <2>2, Facts DEF OneIntent
  <2> QED
    BY <1>1, <2>1, <2>2, <2>3, OwnerLeaves, BackendKept, StoreKept, Facts
    DEF flushVars
<1>4. CASE AddRejected(r)
  <2>1. /\ u # None /\ discard_upload(u) /\ GoTo(r, "flush") /\ Keep(r, l)
        /\ UNCHANGED lock
    BY <1>4, Facts DEF AddRejected, Keep, GatewayTypeOK
  <2>2. JournalTypeOK' /\ uploads' = uploads \ {u}
        /\ prepared_deletes' = prepared_deletes
    BY <1>2, <2>1, DiscardUpload, Facts
  <2>3. uploads' = {} /\ prepared_deletes' = {}
    BY <1>2, <2>1, <2>2 DEF Mine
  <2>4. Promise("flush", l, uploads', prepared_deletes')
    BY <2>3 DEF Promise, Foreseen
  <2>5. OneIntent'
    BY <2>3 DEF OneIntent
  <2> QED
    BY <1>1, <2>1, <2>2, <2>4, <2>5, OwnerMoves, BackendKept, StoreKept, Facts
    DEF Point, GatewayTypeOK, flushVars
<1>5. CASE DeleteSucceeded(r)
  <2>1. /\ d # None /\ finish_delete({d}) /\ GoTo(r, "flush") /\ Keep(r, l)
        /\ UNCHANGED lock
    BY <1>5, Facts DEF DeleteSucceeded, Keep, GatewayTypeOK
  <2>2. JournalTypeOK' /\ uploads' = uploads
        /\ prepared_deletes' = prepared_deletes \ {d}
    BY <1>2, <2>1, FinishDelete, Facts
  <2>3. uploads' = {} /\ prepared_deletes' = {}
    BY <1>2, <2>1, <2>2 DEF Mine
  <2>4. Promise("flush", l, uploads', prepared_deletes')
    BY <2>3 DEF Promise, Foreseen
  <2>5. OneIntent'
    BY <2>3 DEF OneIntent
  <2> QED
    BY <1>1, <2>1, <2>2, <2>4, <2>5, OwnerMoves, BackendKept, StoreKept, Facts
    DEF Point, GatewayTypeOK, flushVars
<1>6. CASE DeleteRejected(r)
  <2>1. discard_delete(d) /\ Release(r)
    BY <1>6 DEF DeleteRejected
  <2>2. JournalTypeOK' /\ uploads' = uploads
        /\ prepared_deletes' = prepared_deletes \ {d}
    BY <2>1, DiscardDelete, Facts
  <2>3. OneIntent'
    BY <2>2, Facts DEF OneIntent
  <2> QED
    BY <1>1, <2>1, <2>2, <2>3, OwnerLeaves, BackendKept, StoreKept, Facts
    DEF flushVars
<1> QED BY <1>3, <1>4, <1>5, <1>6

LEMMA AbandonedType ==
  ASSUME NEW C \in SUBSET Call
  PROVE  Abandoned(C) \subseteq Call
<1>1. \A c \in Call : [c EXCEPT !.by = None] \in Call
  BY DEF Call
<1> QED
  BY <1>1 DEF Abandoned

LEMMA UnansweredStep ==
  ASSUME IInv, NEW r \in Request, Unanswered(r)
  PROVE  IInv'
<1> DEFINE mine == {c \in calls : c.by = r}
<1>1. /\ ~Outside(pc[r]) /\ Release(r)
      /\ calls' = (calls \ mine) \cup Abandoned(mine)
      /\ UNCHANGED <<subject, picture, flushVars, storeVars, journalVars>>
  BY DEF Unanswered, At, Outside
<1>2. BackendTypeOK' /\ LegacyPictures'
  <2>1. Abandoned(mine) \subseteq Call
    BY AbandonedType, Facts DEF BackendTypeOK
  <2> HIDE DEF mine
  <2> QED
    BY <1>1, <2>1, Facts DEF BackendTypeOK, TypeInv, LegacyPictures
<1>3. OneIntent'
  BY <1>1, Facts, JournalKept DEF OneIntent
<1> QED
  BY <1>1, <1>2, <1>3, OwnerLeaves, StoreKept, JournalKept, Facts DEF flushVars

LEMMA ServeStep ==
  ASSUME IInv, NEW r \in Request, Serve(r)
  PROVE  IInv'
<1>1. CASE Respond(r) \/ ServeImage(r) \/ RenameAnswered(r)
  BY <1>1, LeavingStep DEF Respond, ServeImage, RenameAnswered, At, Outside
<1>2. ASSUME NEW S \in {{s} : s \in Subject} \cup {Subject},
             DeleteSubjects(r, S)
      PROVE  IInv'
  <2>1. S \in SUBSET Subject
    OBVIOUS
  <2> QED
    BY <1>2, <2>1, DeleteSubjectsStep
<1> QED
  BY <1>1, <1>2, OpenImageStep, BeginMigrationStep, AddFaceStep, BeginAddStep,
     PutSucceedsStep, PutFailsStep, DeleteFacesStep, PlanSubjectsStep,
     RenameStep, AnswerStep, UnansweredStep DEF Serve

-----------------------------------------------------------------------------
(* The environment.                                                        *)

\* A reply reaches the variables of a handler, none of which its promises use.
LEMMA AnswerKeepsPromises ==
  ASSUME IInv, NEW c \in Call, NEW x \in {"ok", "rejected"},
         NEW f \in Face \cup {None}, Answer(c, x, f), UNCHANGED journalVars,
         BackendTypeOK', LegacyPictures', StoreTypeOK'
  PROVE  IInv'
<1>1. /\ GatewayTypeOK /\ UNCHANGED <<pc, lock, flushVars>>
      /\ c.by \in Request \cup {None}
  BY DEF Answer, Call, IInv, TypeInv, TypeOK
<1>2. ASSUME NEW q \in Request
      PROVE  /\ local'[q] \in Local
             /\ local'[q].unresolved = local[q].unresolved
             /\ local'[q].todo = local[q].todo
             /\ local'[q].upload = local[q].upload
             /\ local'[q].plan = local[q].plan
  <2> DEFINE v == [local[q] EXCEPT !.reply = x, !.face = f]
  <2>1. local'[q] = local[q] \/ local'[q] = v
    BY <1>1 DEF Answer, GatewayTypeOK
  <2>2. /\ v \in Local /\ v.unresolved = local[q].unresolved
        /\ v.todo = local[q].todo
        /\ v.upload = local[q].upload /\ v.plan = local[q].plan
    <3>1. local[q] \in Local
      BY Facts
    <3>2. v \in Local
      BY <3>1, LocalUpdate
    <3> QED
      BY <3>1, <3>2 DEF Local
  <2> HIDE DEF v
  <2> QED
    BY <2>1, <2>2, Facts
<1>3. local' \in [Request -> Local]
  <2>1. local' = [q \in Request |-> local'[q]]
    BY <1>1 DEF Answer, GatewayTypeOK
  <2> QED
    BY <1>2, <2>1
<1>4. GatewayTypeOK'
  BY <1>1, <1>3 DEF GatewayTypeOK, flushVars
<1>5. ASSUME NEW q \in Request
      PROVE  HandlerOK(q)' /\ (Outside(pc'[q]) \/ lock' = q)
  BY <1>1, <1>2, Facts, JournalKept DEF HandlerOK, Promise, Foreseen
<1> QED
  BY <1>4, <1>5, JournalKept, Facts
  DEF IInv, TypeInv, TypeOK, OwnerInside, OneIntent

LEMMA BackendStepStep ==
  ASSUME IInv, BackendStep
  PROVE  IInv'
<1> USE DEF IInv, TypeInv, TypeOK
<1>1. PICK c \in calls :
        \/ \E f \in Face : CommitAdd(c, f) /\ Answer(c, "ok", f)
        \/ CommitDelete(c) /\ Answer(c, "ok", None)
        \/ CommitRename(c) /\ Answer(c, "ok", None)
        \/ DropCall(c) /\ Answer(c, "rejected", None)
  BY DEF BackendStep
<1>2. c \in Call /\ UNCHANGED journalVars /\ StoreTypeOK'
  BY StoreKept DEF BackendTypeOK, BackendStep
<1>3. ASSUME NEW f \in Face, CommitAdd(c, f)
      PROVE  BackendTypeOK' /\ LegacyPictures'
  <2>1. f \notin Legacy
    BY <1>3, NoneAssumption DEF CommitAdd, LegacyPictures
  <2> QED
    BY <1>2, <1>3, <2>1, LegacyAssumption
    DEF CommitAdd, BackendTypeOK, LegacyPictures, Call, Picture
<1>4. ASSUME CommitDelete(c) \/ CommitRename(c) \/ DropCall(c)
      PROVE  BackendTypeOK' /\ LegacyPictures'
  <2>1. c.to \in Subject \cup {None}
    BY <1>2 DEF Call
  <2>2. CASE CommitDelete(c)
    BY <2>2 DEF CommitDelete, BackendTypeOK, LegacyPictures
  <2>3. CASE CommitRename(c)
    BY <2>1, <2>3 DEF CommitRename, BackendTypeOK, LegacyPictures
  <2>4. CASE DropCall(c)
    BY <2>4 DEF DropCall, BackendTypeOK, LegacyPictures
  <2> QED BY <1>4, <2>2, <2>3, <2>4
<1> QED
  BY <1>1, <1>2, <1>3, <1>4, AnswerKeepsPromises

\* Steps of the environment that neither the journal nor a handler sees.
LEMMA UnseenStep ==
  ASSUME IInv, UNCHANGED <<journalVars, gatewayVars>>,
         BackendTypeOK', LegacyPictures', StoreTypeOK'
  PROVE  IInv'
<1>1. GatewayTypeOK'
  BY DEF gatewayVars, GatewayTypeOK, IInv, TypeInv, TypeOK
<1> QED
  BY <1>1, HandlersStay, JournalKept
  DEF gatewayVars, journalVars, IInv, TypeInv, TypeOK

LEMMA BypassStep ==
  ASSUME IInv,
         \/ \E f \in Face, s \in Subject : BypassAdd(f, s)
         \/ \E F \in SUBSET Face : BypassDelete(F)
  PROVE  IInv'
<1> USE DEF IInv, TypeInv, TypeOK
<1>1. ASSUME NEW f \in Face, NEW s \in Subject, BypassAdd(f, s)
      PROVE  IInv'
  <2>1. f \notin Legacy
    BY <1>1, NoneAssumption DEF BypassAdd, LegacyPictures
  <2>2. BackendTypeOK' /\ LegacyPictures'
    BY <1>1, <2>1, LegacyAssumption
    DEF BypassAdd, BackendTypeOK, LegacyPictures, Picture
  <2> QED
    BY <1>1, <2>2, UnseenStep, StoreKept DEF BypassAdd
<1>2. ASSUME NEW F \in SUBSET Face, BypassDelete(F)
      PROVE  IInv'
  <2>1. BackendTypeOK' /\ LegacyPictures'
    BY <1>2 DEF BypassDelete, BackendTypeOK, LegacyPictures
  <2> QED
    BY <1>2, <2>1, UnseenStep, StoreKept DEF BypassDelete
<1> QED BY <1>1, <1>2

LEMMA StoreStepStep ==
  ASSUME IInv, StoreStep
  PROVE  IInv'
<1>1. StoreTypeOK'
  BY Facts DEF StoreStep, PutLands, StoreTypeOK, Put, IInv, TypeInv, TypeOK
<1> QED
  BY <1>1, UnseenStep, BackendKept DEF StoreStep, IInv

\* Every handler is outside after a crash; the journal survives.
LEMMA CrashStep ==
  ASSUME IInv, Crash
  PROVE  IInv'
<1> USE DEF IInv, TypeInv, TypeOK
<1>1. GatewayTypeOK'
  BY NoLocalType, BoundAssumption DEF Crash, GatewayTypeOK, Task, Point
<1>2. BackendTypeOK' /\ LegacyPictures'
  BY AbandonedType DEF Crash, BackendTypeOK, LegacyPictures
<1>3. StoreTypeOK'
  BY DEF Crash, StoreTypeOK
<1>4. \A q \in Request : pc'[q] = "idle"
  BY DEF Crash, Task
<1>5. \A q \in Request : HandlerOK(q)' /\ Outside(pc'[q])
  BY <1>4 DEF HandlerOK, Promise, Outside
<1> QED
  BY <1>1, <1>2, <1>3, <1>5, JournalKept DEF Crash, OwnerInside, OneIntent

\* With the gateway stopped, removing an intent concerns no handler.
LEMMA ReconcileStep ==
  ASSUME IInv, Reconcile
  PROVE  IInv'
<1> USE DEF IInv, TypeInv, TypeOK
<1>1. /\ UNCHANGED <<backendVars, storeVars, gatewayVars>>
      /\ \A q \in Request : pc[q] = "idle"
  BY DEF Reconcile, ReconcileUpload, ReconcileUndeleted, ReconcileDeleted,
         Quiet, Task
<1>2. /\ JournalTypeOK' /\ uploads' \subseteq uploads
      /\ prepared_deletes' \subseteq prepared_deletes
  <2>1. CASE ReconcileUpload
    <3>1. PICK u \in uploads : discard_upload(u)
      BY <2>1 DEF ReconcileUpload
    <3> QED
      BY <3>1, DiscardUpload DEF JournalTypeOK
  <2>2. CASE ReconcileUndeleted
    <3>1. PICK d \in prepared_deletes : discard_delete(d)
      BY <2>2 DEF ReconcileUndeleted
    <3> QED
      BY <3>1, DiscardDelete
  <2>3. CASE ReconcileDeleted
    <3>1. PICK d \in prepared_deletes :
            finish_delete_of(d, d.faces \ FacesOf(Subject))
      BY <2>3 DEF ReconcileDeleted
    <3>2. d \in DeleteRow
      BY DEF prepared_deletes, JournalTypeOK
    <3> QED
      BY <3>1, <3>2, FinishDeleteOf
  <2> QED BY <2>1, <2>2, <2>3 DEF Reconcile
<1>3. GatewayTypeOK' /\ \A q \in Request : pc'[q] = "idle"
  BY <1>1 DEF gatewayVars, GatewayTypeOK
<1>4. \A q \in Request : HandlerOK(q)' /\ Outside(pc'[q])
  BY <1>3 DEF HandlerOK, Promise, Outside
<1>5. OneIntent'
  BY <1>2 DEF OneIntent
<1> QED
  BY <1>1, <1>2, <1>3, <1>4, <1>5, BackendKept, StoreKept DEF OwnerInside

LEMMA EnvironmentStep ==
  ASSUME IInv, Environment
  PROVE  IInv'
  BY BackendStepStep, StoreStepStep, CrashStep, ReconcileStep, BypassStep
  DEF Environment

-----------------------------------------------------------------------------
(* The theorems.                                                           *)

LEMMA InitOK == Init => IInv
<1> SUFFICES ASSUME Init PROVE IInv
    OBVIOUS
<1>1. BackendTypeOK /\ LegacyPictures
  BY LegacyAssumption
  DEF Init, BackendInit, BackendTypeOK, LegacyPictures, Picture
<1>2. StoreTypeOK /\ JournalTypeOK /\ uploads = {} /\ prepared_deletes = {}
  BY DEF Init, StoreInit, StoreTypeOK, JournalInit, JournalTypeOK,
         prepared_deletes
<1>3. GatewayTypeOK
  BY NoLocalType, BoundAssumption DEF Init, GatewayTypeOK, Point
<1>4. \A q \in Request : HandlerOK(q) /\ Outside(pc[q])
  BY DEF Init, Task, HandlerOK, Promise, Outside
<1> QED
  BY <1>1, <1>2, <1>3, <1>4 DEF IInv, TypeInv, TypeOK, OwnerInside, OneIntent

LEMMA StepOK == IInv /\ [Next]_vars => IInv'
<1> SUFFICES ASSUME IInv, [Next]_vars PROVE IInv'
    OBVIOUS
<1>1. CASE UNCHANGED vars
  <2>1. UNCHANGED <<backendVars, storeVars, journalVars, gatewayVars>>
    BY <1>1 DEF vars
  <2> QED
    BY <2>1, UnseenStep, BackendKept, StoreKept DEF IInv
<1>2. CASE WorkerTick
  BY <1>2, WorkerStep DEF WorkerTick, Point
<1>3. CASE Next /\ ~WorkerTick
  BY <1>3, ArriveStep, AcquireStep, RecoverStep, ServeStep, FlushStep,
     EnvironmentStep DEF Next
<1> QED BY <1>1, <1>2, <1>3

LEMMA Inductive == Spec => []IInv
  BY InitOK, StepOK, PTL DEF Spec

\* Every variable of the gateway, the journal, the store and the backend keeps
\* its type in every behaviour, for any number of requests, faces and keys.
THEOREM TypeCorrect == Spec => []TypeOK
<1>1. IInv => TypeOK
  BY DEF IInv, TypeInv
<1> QED
  BY <1>1, Inductive, PTL

\* recover() and the lock serialise the writes of a service: whatever crashes,
\* times out, commits late or bypasses the gateway, at most one operation is
\* ever unconfirmed.
THEOREM WritesGated == Spec => []OneIntent
<1>1. IInv => OneIntent
  BY DEF IInv
<1> QED
  BY <1>1, Inductive, PTL

-----------------------------------------------------------------------------
(***************************************************************************)
(* No object is ever orphaned, for any number of requests, faces, keys and *)
(* crashes, any writers that bypass the gateway, and any backend calls     *)
(* that commit late; only a put must not outlive its request.              *)
(*                                                                         *)
(* NoOrphan is not inductive: a flush removes a row of the outbox because  *)
(* its objects are gone, so nothing may store them again; and a delete     *)
(* removes associations because its row lists their objects.  Both follow  *)
(* from what has become of a key.  A key is in use until its intent is     *)
(* settled and retired from then on, and only retired keys are found in    *)
(* associations and in the outbox.                                         *)
(***************************************************************************)

\* No upload uses k any more, or will.
Retired(k) ==
  /\ k \in minted
  /\ \A u \in uploads : u.key # k
  /\ \A r \in Request : At(r, "begin") => local[r].upload.key # k

LiveKeys ==
  /\ \A u \in uploads : u.key \in minted
  /\ \A r \in Request : At(r, "begin") => local[r].upload.key \in minted

ImagesApart ==
  /\ \A f \in Face, k \in Key : images[f] = k => Retired(k)
  /\ \A f, g \in Face : images[f] # None /\ images[f] = images[g] => f = g

\* Rows of the outbox, in the table or read by a flush.
Outgoing ==
  {d \in DeleteRow : d \in ready_deletes \/ \E t \in Task : d \in rows[t] \/ d = row[t]}

OutgoingApart ==
  \A d \in Outgoing :
    d.ready /\ \A k \in d.keys : Retired(k) /\ \A f \in Face : images[f] # k

\* A prepared delete lists the objects its faces have now.
PlansExact ==
  \A d \in prepared_deletes : d.keys = {images[f] : f \in d.faces} \ {None}

RowsErased ==
  \A t \in Task : row[t] # None => \A k \in row[t].keys : store[k] = None

\* Only the handler that waits for a put has one under way.
PutsOwned ==
  \A p \in puts : \E r \in Request : At(r, "put") /\ local[r].upload.key = p.key

\* No mutation has been sent for the request yet.
Unsent(p, l) ==
  \/ p \in {"uploads", "settle", "confirm", "dispatch", "begin", "put", "plan", "fetch"}
  \/ p \in {"flush", "drain", "unqueue"} /\ l.upload = None /\ l.plan = None

\* The handler that waits for an answer has sent one mutation.
CallsOwned ==
  /\ \A c \in calls : c.by # None =>
       /\ At(c.by, "await") /\ local[c.by].reply = "none"
       /\ local[c.by].upload # None => c.op = "add"
  /\ \A c, d \in calls : c.by # None /\ c.by = d.by => c = d

\* What a handler with variables l at point p counts on: that its intents are
\* in the tables, and that it knows the face whose image it has stored.
Holds(p, l, U, D) ==
  /\ p \in {"uploads", "settle"} => l.todo \subseteq U
  /\ p = "settle" => l.upload \notin l.todo
  /\ p \in {"settle", "put", "await"} /\ l.upload # None => l.upload \in U
  /\ p = "await" /\ l.plan # None => l.plan \in D
  /\ p = "fetch" \/ (p = "put" /\ l.upload.subject = None) => l.face \in Face
  /\ p = "await" /\ l.upload # None /\ l.reply = "ok" => l.face \in Face
  /\ p = "begin" => l.upload.subject # None
  /\ Unsent(p, l) => l.reply = "none"

HandlerHolds(r) == Holds(pc[r], local[r], uploads, prepared_deletes)

TablesOK == ImagesApart /\ OutgoingApart /\ PlansExact /\ RowsErased /\ NoOrphan
TasksOK == LiveKeys /\ PutsOwned /\ CallsOwned /\ \A r \in Request : HandlerHolds(r)

JInv == TablesOK /\ TasksOK

\* Keys do not come back, and no flush has begun or ended.
Retiring == \A k \in Key : Retired(k) => Retired(k)'
NoFlush == UNCHANGED <<rows, row, store>>

-----------------------------------------------------------------------------
(* The methods of the journal.                                             *)

LEMMA RowsDiffer ==
  ASSUME NEW u \in UploadRow
  PROVE  u \notin DeleteRow
<1>1. DOMAIN u = {"key", "subject", "previous"}
  BY DEF UploadRow
<1>2. ASSUME u \in DeleteRow PROVE DOMAIN u = {"faces", "keys", "ready"}
  BY <1>2 DEF DeleteRow
<1>3. "key" \notin {"faces", "keys", "ready"}
  OBVIOUS
<1> QED
  BY <1>1, <1>2, <1>3

\* A method that adds the ready row e, or none, to the outbox.
LEMMA OutgoingGrows ==
  ASSUME NEW e, NoFlush, ready_deletes' \subseteq ready_deletes \cup {e}
  PROVE  Outgoing' \subseteq Outgoing \cup {e}
  BY DEF Outgoing, NoFlush

LEMMA TablesKept ==
  ASSUME TypeOK, TablesOK, Retiring, UNCHANGED <<journalVars, store>>,
         \A t \in Task : rows'[t] \subseteq rows[t] /\ row'[t] \in {row[t], None}
  PROVE  TablesOK'
<1>1. UNCHANGED <<images, uploads, deletes>>
  BY DEF journalVars
<1>2. Outgoing' \subseteq Outgoing
  BY <1>1, NoRowAssumption DEF Outgoing, ready_deletes
<1>3. ImagesApart'
  BY <1>1 DEF TypeOK, TablesOK, JournalTypeOK, ImagesApart, Retiring
<1>4. OutgoingApart'
  BY <1>1, <1>2 DEF TablesOK, OutgoingApart, Retiring, Outgoing, DeleteRow
<1>5. PlansExact' /\ RowsErased' /\ NoOrphan'
  BY <1>1 DEF TablesOK, PlansExact, prepared_deletes, RowsErased, NoOrphan
<1> QED
  BY <1>3, <1>4, <1>5 DEF TablesOK

LEMMA TablesBegin ==
  ASSUME TypeOK, TablesOK, Retiring, NoFlush, NEW k, NEW s, NEW previous,
         begin_upload(k, s, previous)
  PROVE  TablesOK'
<1>1. UNCHANGED <<images, deletes>> /\ uploads \subseteq uploads'
  BY DEF begin_upload
<1>2. Outgoing' \subseteq Outgoing
  BY <1>1 DEF Outgoing, ready_deletes, NoFlush
<1>3. ImagesApart'
  BY <1>1 DEF TypeOK, TablesOK, JournalTypeOK, ImagesApart, Retiring
<1>4. OutgoingApart'
  BY <1>1, <1>2 DEF TablesOK, OutgoingApart, Retiring, Outgoing, DeleteRow
<1>5. PlansExact' /\ RowsErased' /\ NoOrphan'
  BY <1>1 DEF TablesOK, PlansExact, prepared_deletes, RowsErased, NoOrphan, NoFlush
<1> QED
  BY <1>3, <1>4, <1>5 DEF TablesOK

\* The only intent becomes an association: its key was in no other place.
LEMMA TablesComplete ==
  ASSUME TypeOK, OneIntent, TablesOK, Retiring, NoFlush,
         NEW u \in uploads, NEW f \in Face, complete_upload(u, f), Retired(u.key)'
  PROVE  TablesOK'
<1>1. /\ images' = [images EXCEPT ![f] = u.key] /\ images[f] = None
      /\ uploads' = uploads \ {u} /\ deletes' = deletes
      /\ images \in [Face -> Key \cup {None}] /\ u \in UploadRow /\ u.key \in Key
  BY DEF complete_upload, TypeOK, JournalTypeOK, UploadRow
<1>2. ~Retired(u.key) /\ prepared_deletes = {}
  <2>1. ASSUME NEW d \in prepared_deletes PROVE FALSE
    <3>1. u = d /\ d \in DeleteRow
      BY DEF OneIntent, prepared_deletes, TypeOK, JournalTypeOK
    <3> QED
      BY <1>1, <3>1, RowsDiffer
  <2> QED
    BY <2>1 DEF Retired
<1>3. Outgoing' \subseteq Outgoing
  BY <1>1 DEF Outgoing, ready_deletes, NoFlush
<1>4. ImagesApart'
  <2>1. \A g \in Face : images'[g] = IF g = f THEN u.key ELSE images[g]
    BY <1>1
  <2>2. \A g \in Face : images[g] # u.key
    BY <1>1, <1>2, NoneAssumption DEF TablesOK, ImagesApart
  <2>3. \A g \in Face, k \in Key : images'[g] = k => Retired(k)'
    BY <1>1, <2>1 DEF TablesOK, ImagesApart, Retiring
  <2> QED
    BY <2>1, <2>2, <2>3 DEF TablesOK, ImagesApart
<1>5. OutgoingApart'
  <2>1. ASSUME NEW d \in Outgoing, NEW k \in d.keys
        PROVE  d.ready /\ Retired(k)' /\ \A g \in Face : images'[g] # k
    BY <1>1, <1>2 DEF TablesOK, OutgoingApart, Retiring, Outgoing, DeleteRow
  <2>2. \A d \in Outgoing : d.ready
    BY DEF TablesOK, OutgoingApart
  <2> QED
    BY <1>3, <2>1, <2>2 DEF OutgoingApart
<1>6. PlansExact' /\ RowsErased'
  BY <1>1, <1>2 DEF TablesOK, PlansExact, prepared_deletes, RowsErased, NoFlush
<1>7. NoOrphan'
  <2>1. \A g \in Face : images[g] # None => images'[g] = images[g]
    BY <1>1
  <2>2. images'[f] = u.key
    BY <1>1
  <2>3. ASSUME NEW k \in Key, store[k] # None, \E g \in Face : images[g] = k
        PROVE  \E g \in Face : images'[g] = k
    BY <2>1, <2>3, NoneAssumption
  <2> QED
    BY <1>1, <2>2, <2>3 DEF TablesOK, NoOrphan, NoFlush
<1> QED
  BY <1>4, <1>5, <1>6, <1>7 DEF TablesOK
\* A ready row e joins the outbox: its keys are retired and in no association.
LEMMA OutgoingJoins ==
  ASSUME TablesOK, Retiring, NoFlush, NEW e \in DeleteRow, e.ready,
         ready_deletes' \subseteq ready_deletes \cup {e},
         \A f \in Face : images'[f] \in {images[f], None},
         \A k \in e.keys : Retired(k)' /\ \A f \in Face : images'[f] # k
  PROVE  OutgoingApart'
<1>1. Outgoing' \subseteq Outgoing \cup {e}
  BY OutgoingGrows
<1>2. ASSUME NEW d \in Outgoing, NEW k \in d.keys
      PROVE  d.ready /\ Retired(k)' /\ \A f \in Face : images'[f] # k
  <2>1. k \in Key /\ k # None
    BY NoneAssumption DEF Outgoing, DeleteRow
  <2> QED
    BY <1>2, <2>1 DEF TablesOK, OutgoingApart, Retiring
<1>3. \A d \in Outgoing : d.ready
  BY DEF TablesOK, OutgoingApart
<1> QED
  BY <1>1, <1>2, <1>3 DEF OutgoingApart

LEMMA TablesDiscard ==
  ASSUME TypeOK, OneIntent, TablesOK, Retiring, NoFlush,
         NEW u \in uploads, discard_upload(u), Retired(u.key)'
  PROVE  TablesOK'
<1> DEFINE e == [faces |-> {}, keys |-> {u.key}, ready |-> TRUE]
<1>1. /\ deletes' = deletes \cup {e} /\ uploads' = uploads \ {u} /\ images' = images
      /\ images \in [Face -> Key \cup {None}] /\ u \in UploadRow /\ u.key \in Key
  BY DEF discard_upload, TypeOK, JournalTypeOK, UploadRow
<1>2. e \in DeleteRow /\ e.ready /\ e.keys = {u.key}
  BY <1>1 DEF DeleteRow
<1> HIDE DEF e
<1>3. \A f \in Face : images[f] # u.key
  BY <1>1 DEF TablesOK, ImagesApart, Retired
<1>4. ImagesApart'
  BY <1>1 DEF TablesOK, ImagesApart, Retiring
<1>5. OutgoingApart'
  BY <1>1, <1>2, <1>3, OutgoingJoins DEF ready_deletes
<1>6. prepared_deletes' = prepared_deletes
  BY <1>1, <1>2 DEF prepared_deletes
<1>7. PlansExact' /\ RowsErased'
  BY <1>1, <1>6 DEF TablesOK, PlansExact, RowsErased, NoFlush
<1>8. NoOrphan'
  BY <1>1, <1>2 DEF TablesOK, NoOrphan, NoFlush
<1> QED
  BY <1>4, <1>5, <1>7, <1>8 DEF TablesOK

LEMMA TablesPlan ==
  ASSUME TypeOK, TablesOK, Retiring, NoFlush, NEW F \in SUBSET Face, plan_delete(F)
  PROVE  TablesOK'
<1> DEFINE e == DeletePlan(F)
<1>1. deletes' = deletes \cup {e} /\ UNCHANGED <<images, uploads>>
  BY DEF plan_delete
<1>2. /\ e \in DeleteRow /\ e.ready = FALSE /\ e.faces = F
      /\ e.keys = {images[f] : f \in F} \ {None}
  BY DEF DeletePlan, DeleteRow, TypeOK, JournalTypeOK
<1> HIDE DEF e
<1>3. ImagesApart'
  BY <1>1 DEF TablesOK, ImagesApart, Retiring
<1>4. ready_deletes' = ready_deletes
  BY <1>1, <1>2 DEF ready_deletes
<1>5. Outgoing' = Outgoing
  BY <1>4 DEF Outgoing, NoFlush
<1>6. OutgoingApart'
  BY <1>1, <1>5 DEF TablesOK, OutgoingApart, Retiring, Outgoing, DeleteRow
<1>7. prepared_deletes' = prepared_deletes \cup {e}
  BY <1>1, <1>2 DEF prepared_deletes
<1>8. PlansExact'
  BY <1>1, <1>2, <1>7 DEF TablesOK, PlansExact
<1>9. RowsErased' /\ NoOrphan'
  BY <1>1 DEF TablesOK, RowsErased, NoOrphan, NoFlush
<1> QED
  BY <1>3, <1>6, <1>8, <1>9 DEF TablesOK

\* A prepared delete leaves the table: its objects are those of associations.
LEMMA TablesDiscardDelete ==
  ASSUME TypeOK, TablesOK, Retiring, NoFlush,
         NEW d \in prepared_deletes, discard_delete(d)
  PROVE  TablesOK'
<1>1. deletes' = deletes \ {d} /\ UNCHANGED <<images, uploads>> /\ d.faces \subseteq Face
  BY DEF discard_delete, prepared_deletes, TypeOK, JournalTypeOK, DeleteRow
<1>2. ImagesApart'
  BY <1>1 DEF TypeOK, JournalTypeOK, TablesOK, ImagesApart, Retiring
<1>3. Outgoing' \subseteq Outgoing
  BY <1>1 DEF Outgoing, ready_deletes, NoFlush
<1>4. OutgoingApart'
  BY <1>1, <1>3 DEF TablesOK, OutgoingApart, Retiring, Outgoing, DeleteRow
<1>5. PlansExact' /\ RowsErased'
  BY <1>1 DEF TablesOK, PlansExact, prepared_deletes, RowsErased, NoFlush
<1>6. \A k \in d.keys : \E f \in Face : images[f] = k
  BY <1>1 DEF TablesOK, PlansExact
<1>7. NoOrphan'
  BY <1>1, <1>6 DEF TablesOK, NoOrphan, NoFlush
<1> QED
  BY <1>2, <1>4, <1>5, <1>7 DEF TablesOK

\* The one prepared delete d is finished for the faces F of its own: their
\* associations go, and their objects are queued.
LEMMA TablesFinished ==
  ASSUME TypeOK, OneIntent, TablesOK, Retiring, NoFlush, UNCHANGED uploads,
         NEW d \in prepared_deletes, NEW F \in SUBSET d.faces, NEW e \in DeleteRow,
         e.ready, e.keys = {images[f] : f \in F} \ {None},
         images' = [f \in Face |-> IF f \in F THEN None ELSE images[f]],
         deletes' = (deletes \ {d}) \cup {e}
  PROVE  TablesOK'
<1>1. /\ images \in [Face -> Key \cup {None}] /\ d \in DeleteRow /\ ~d.ready
      /\ d.faces \subseteq Face /\ F \subseteq Face
  BY DEF TypeOK, JournalTypeOK, prepared_deletes, DeleteRow
<1>2. ImagesApart'
  BY <1>1, NoneAssumption DEF TablesOK, ImagesApart, Retiring
<1>3. ASSUME NEW k \in e.keys PROVE Retired(k)' /\ \A f \in Face : images'[f] # k
  <2>1. PICK f \in F : images[f] = k
    BY <1>3
  <2>2. k \in Key /\ k # None
    BY <1>3 DEF DeleteRow
  <2> QED
    BY <1>1, <2>1, <2>2 DEF TablesOK, ImagesApart, Retiring
<1>4. OutgoingApart'
  <2>1. ready_deletes' \subseteq ready_deletes \cup {e}
    BY DEF ready_deletes
  <2> QED
    BY <1>1, <1>3, <2>1, OutgoingJoins
<1>5. prepared_deletes' = {}
  <2>1. prepared_deletes = {d}
    BY DEF OneIntent
  <2> QED
    BY <2>1 DEF prepared_deletes
<1>6. PlansExact' /\ RowsErased'
  BY <1>5 DEF TablesOK, PlansExact, RowsErased, NoFlush
<1>7. ASSUME NEW k \in Key, store[k] # None
      PROVE  \/ \E f \in Face : images'[f] = k
             \/ \E u \in uploads : u.key = k
             \/ \E x \in deletes' : k \in x.keys
  <2>1. CASE \E f \in Face : images[f] = k
    <3>1. PICK f \in Face : images[f] = k
      BY <2>1
    <3>2. CASE f \in F
      BY <3>1, <3>2, NoneAssumption
    <3>3. CASE f \notin F
      BY <1>1, <3>1, <3>3
    <3> QED BY <3>2, <3>3
  <2>2. CASE \E x \in deletes : k \in x.keys
    <3>1. k \in d.keys => \E f \in Face : images[f] = k
      BY <1>1 DEF TablesOK, PlansExact
    <3> QED
      BY <2>1, <2>2, <3>1
  <2> QED
    BY <1>7, <2>1, <2>2 DEF TablesOK, NoOrphan
<1>8. NoOrphan'
  BY <1>7 DEF NoOrphan, NoFlush
<1> QED
  BY <1>2, <1>4, <1>6, <1>8 DEF TablesOK

LEMMA TablesFinish ==
  ASSUME TypeOK, OneIntent, TablesOK, Retiring, NoFlush,
         NEW D \in SUBSET prepared_deletes, finish_delete(D)
  PROVE  TablesOK'
<1>1. CASE D = {}
  <2>1. UNCHANGED <<images, uploads, deletes>>
    BY <1>1 DEF finish_delete, TypeOK, JournalTypeOK
  <2> QED
    BY <2>1, TablesKept DEF journalVars, NoFlush
<1>2. ASSUME NEW d \in D PROVE TablesOK'
  <2>1. D = {d} /\ d \in prepared_deletes
    BY DEF OneIntent
  <2> DEFINE e == [d EXCEPT !.ready = TRUE]
  <2>2. d \in DeleteRow
    BY <2>1 DEF prepared_deletes, TypeOK, JournalTypeOK
  <2>3. e \in DeleteRow /\ e.ready /\ e.keys = d.keys
    BY <2>2 DEF DeleteRow
  <2>4. /\ images' = [f \in Face |-> IF f \in d.faces THEN None ELSE images[f]]
        /\ deletes' = (deletes \ {d}) \cup {e} /\ UNCHANGED uploads
    BY <2>1 DEF finish_delete
  <2> HIDE DEF e
  <2>5. e.keys = {images[f] : f \in d.faces} \ {None}
    BY <2>1, <2>3 DEF TablesOK, PlansExact
  <2> QED
    BY <2>1, <2>3, <2>4, <2>5, TablesFinished
<1> QED BY <1>1, <1>2

LEMMA TablesFinishOf ==
  ASSUME TypeOK, OneIntent, TablesOK, Retiring, NoFlush,
         NEW d \in prepared_deletes, NEW F, finish_delete_of(d, F)
  PROVE  TablesOK'
<1> DEFINE G == d.faces \cap F
           e == [DeletePlan(G) EXCEPT !.ready = TRUE]
<1>1. G \in SUBSET d.faces /\ G \subseteq Face /\ images \in [Face -> Key \cup {None}]
  BY DEF prepared_deletes, TypeOK, JournalTypeOK, DeleteRow
<1>2. /\ images' = [f \in Face |-> IF f \in G THEN None ELSE images[f]]
      /\ deletes' = (deletes \ {d}) \cup {e} /\ UNCHANGED uploads
  BY DEF finish_delete_of
<1> HIDE DEF G
<1>3. e \in DeleteRow /\ e.ready /\ e.keys = {images[f] : f \in G} \ {None}
  BY <1>1 DEF DeletePlan, DeleteRow
<1> HIDE DEF e
<1> QED
  BY <1>1, <1>2, <1>3, TablesFinished

-----------------------------------------------------------------------------
(* Flush and the store.                                                    *)

\* Rows and objects go; no object goes unnoticed by the row that names it.
LEMMA TablesShrink ==
  ASSUME TypeOK, TablesOK, Retiring, UNCHANGED <<images, uploads>>,
         Outgoing' \subseteq Outgoing, prepared_deletes' \subseteq prepared_deletes,
         RowsErased',
         \A k \in Key : store'[k] # None =>
           store[k] # None /\ \A d \in deletes \ deletes' : k \notin d.keys
  PROVE  TablesOK'
<1>1. ImagesApart'
  BY DEF TablesOK, ImagesApart, Retiring
<1>2. OutgoingApart'
  BY DEF TablesOK, OutgoingApart, Retiring, Outgoing, DeleteRow
<1>3. PlansExact'
  BY DEF TablesOK, PlansExact
<1>4. NoOrphan'
  BY DEF TablesOK, NoOrphan
<1> QED
  BY <1>1, <1>2, <1>3, <1>4 DEF TablesOK

LEMMA RowOutgoing ==
  ASSUME TypeOK, NEW t \in Task
  PROVE  /\ rows[t] \subseteq Outgoing
         /\ row[t] # None => row[t] \in Outgoing
  BY DEF TypeOK, GatewayTypeOK, Outgoing

LEMMA TablesFlush ==
  ASSUME TypeOK, TablesOK, NEW t \in Task, Flush(t), Retiring
  PROVE  TablesOK' /\ prepared_deletes' = prepared_deletes
<1> USE DEF TypeOK, GatewayTypeOK, JournalTypeOK
<1>1. CASE FlushEnds(t)
  <2>1. UNCHANGED <<journalVars, store, rows, row>>
    BY <1>1 DEF FlushEnds, flushVars, storeVars
  <2> QED
    BY <2>1, TablesKept DEF journalVars, prepared_deletes
<1>2. CASE FlushRead(t)
  <2>1. /\ UNCHANGED <<row, store, images, uploads, deletes>>
        /\ \A q \in Task : rows'[q] \subseteq rows[q] \cup ready_deletes
    BY <1>2 DEF FlushRead, storeVars, journalVars
  <2>2. Outgoing' \subseteq Outgoing
    BY <2>1 DEF Outgoing, ready_deletes
  <2>3. RowsErased'
    BY <2>1 DEF TablesOK, RowsErased
  <2> QED
    BY <2>1, <2>2, <2>3, TablesShrink DEF prepared_deletes
<1>3. ASSUME NEW d \in rows[t], FlushRow(t, d)
      PROVE  TablesOK' /\ prepared_deletes' = prepared_deletes
  <2>1. /\ UNCHANGED <<images, uploads, deletes>>
        /\ store' = [k \in Key |-> IF k \in d.keys THEN None ELSE store[k]]
        /\ rows' = [rows EXCEPT ![t] = @ \ {d}]
        /\ row' = [row EXCEPT ![t] = d]
    BY <1>3 DEF FlushRow, DeleteObjects, journalVars
  <2>2. /\ \A q \in Task : rows'[q] \subseteq rows[q]
        /\ \A q \in Task : row'[q] = IF q = t THEN d ELSE row[q]
    BY <2>1
  <2>3. Outgoing' \subseteq Outgoing
    BY <2>1, <2>2 DEF Outgoing, ready_deletes
  <2>4. RowsErased'
    <3>1. \A q \in Task : row'[q] # None => row'[q].keys \subseteq Key
      BY <2>2 DEF DeleteRow
    <3>2. \A k \in Key : store[k] = None \/ k \in d.keys => store'[k] = None
      BY <2>1
    <3>3. ASSUME NEW q \in Task, row'[q] # None, NEW k \in row'[q].keys
          PROVE  store'[k] = None
      BY <2>2, <3>1, <3>2, <3>3 DEF TablesOK, RowsErased
    <3> QED
      BY <3>3 DEF RowsErased
  <2>5. \A k \in Key : store'[k] # None => store[k] # None
    BY <2>1
  <2> QED
    BY <2>1, <2>3, <2>4, <2>5, TablesShrink DEF prepared_deletes
<1>4. CASE FlushUnqueue(t)
  <2>1. /\ UNCHANGED <<images, uploads, rows, store>>
        /\ deletes' = deletes \ {row[t]}
        /\ row' = [row EXCEPT ![t] = None]
    BY <1>4 DEF FlushUnqueue, storeVars
  <2>2. \A q \in Task : row'[q] \in {row[q], None}
    BY <2>1
  <2>3. Outgoing' \subseteq Outgoing
    BY <2>1, <2>2, NoRowAssumption DEF Outgoing, ready_deletes
  <2>4. RowsErased'
    BY <2>1, <2>2 DEF TablesOK, RowsErased
  <2>5. prepared_deletes' = prepared_deletes
    <3>1. row[t] \notin prepared_deletes
      BY RowOutgoing, NoRowAssumption DEF TablesOK, OutgoingApart, prepared_deletes
    <3> QED
      BY <2>1, <3>1 DEF prepared_deletes
  <2>6. \A k \in Key : store[k] # None => \A d \in deletes \ deletes' : k \notin d.keys
    BY <2>1, NoRowAssumption DEF TablesOK, RowsErased
  <2> QED
    BY <2>1, <2>3, <2>4, <2>5, <2>6, TablesShrink
<1>5. CASE FlushFails(t)
  <2>1. /\ UNCHANGED <<images, uploads, deletes, row>>
        /\ rows' = [rows EXCEPT ![t] = {}]
        /\ \A k \in Key : store'[k] \in {store[k], None}
    BY <1>5 DEF FlushFails, DeleteObjects, journalVars
  <2>2. \A q \in Task : rows'[q] \subseteq rows[q]
    BY <2>1
  <2>3. Outgoing' \subseteq Outgoing
    BY <2>1, <2>2 DEF Outgoing, ready_deletes
  <2>4. RowsErased'
    BY <2>1, NoRowAssumption DEF TablesOK, RowsErased, DeleteRow
  <2> QED
    BY <2>1, <2>3, <2>4, TablesShrink DEF prepared_deletes
<1> QED
  BY <1>1, <1>2, <1>3, <1>4, <1>5 DEF Flush

\* A put lands under a key in use, which no flushed row names.
LEMMA TablesLand ==
  ASSUME TypeOK, TablesOK, Retiring, UNCHANGED <<images, uploads, deletes, rows, row>>,
         NEW u \in uploads, NEW p \in puts, p.key = u.key, PutLands(p)
  PROVE  TablesOK'
<1>1. /\ u.key \in Key
      /\ \A k \in Key : k # u.key => store'[k] = store[k]
  BY DEF TypeOK, JournalTypeOK, UploadRow, PutLands, StoreTypeOK
<1>2. ImagesApart'
  BY DEF TypeOK, JournalTypeOK, TablesOK, ImagesApart, Retiring
<1>3. OutgoingApart'
  <2>1. Outgoing' = Outgoing
    BY DEF Outgoing, ready_deletes
  <2> QED
    BY <2>1 DEF TablesOK, OutgoingApart, Retiring, Outgoing, DeleteRow
<1>4. RowsErased'
  <2>1. ASSUME NEW t \in Task, row[t] # None, NEW k \in row[t].keys
        PROVE  store'[k] = None
    <3>1. Retired(k) /\ k \in Key
      BY <2>1, RowOutgoing DEF TablesOK, OutgoingApart, Outgoing, DeleteRow
    <3> QED
      BY <1>1, <2>1, <3>1 DEF Retired, TablesOK, RowsErased
  <2> QED
    BY <2>1 DEF RowsErased
<1>5. PlansExact' /\ NoOrphan'
  BY <1>1 DEF TablesOK, PlansExact, prepared_deletes, NoOrphan
<1> QED
  BY <1>2, <1>3, <1>4, <1>5 DEF TablesOK

-----------------------------------------------------------------------------
(* The handler that owns the lock.                                         *)

\* A handler past the lock is alone there, before and after its step.
LEMMA Alone ==
  ASSUME IInv, IInv', NEW r \in Request, ~Outside(pc[r]), lock' \in {lock, None},
         NEW q \in Request \ {r}
  PROVE  Outside(pc[q]) /\ Outside(pc'[q])
<1>1. lock = r
  BY DEF IInv, OwnerInside
<1> QED
  BY <1>1, NoneAssumption DEF IInv, OwnerInside

LEMMA OwnPuts ==
  ASSUME IInv, TasksOK, NEW r \in Request, ~Outside(pc[r]), NEW p \in puts
  PROVE  At(r, "put") /\ local[r].upload.key = p.key
<1>1. PICK q \in Request : At(q, "put") /\ local[q].upload.key = p.key
  BY DEF TasksOK, PutsOwned
<1>2. q = r
  BY <1>1, Facts, NoneAssumption DEF At, Outside
<1> QED
  BY <1>1, <1>2

LEMMA OwnCalls ==
  ASSUME IInv, TasksOK, NEW r \in Request, ~Outside(pc[r]),
         NEW c \in calls, c.by # None
  PROVE  c.by = r /\ pc[r] = "await" /\ local[r].reply = "none"
<1>1. c.by \in Request /\ At(c.by, "await") /\ local[c.by].reply = "none"
  BY DEF TasksOK, CallsOwned, IInv, TypeInv, TypeOK, BackendTypeOK, Call
<1>2. c.by = r
  BY <1>1, Facts, NoneAssumption DEF At, Outside
<1> QED
  BY <1>1, <1>2 DEF At

LEMMA NoneWaiting ==
  ASSUME IInv, TasksOK, NEW r \in Request, ~Outside(pc[r]), calls' = calls,
         pc[r] # "await" \/ local[r].reply # "none"
  PROVE  CallsOwned'
<1>1. \A c \in calls : c.by = None
  BY OwnCalls
<1> QED
  BY <1>1 DEF CallsOwned

LEMMA OneWaiting ==
  ASSUME IInv, TasksOK, NEW r \in Request, ~Outside(pc[r]), pc[r] # "await",
         NEW c, c.by = r, calls' \subseteq calls \cup {c},
         pc'[r] = "await", local'[r].reply = "none",
         local'[r].upload # None => c.op = "add"
  PROVE  CallsOwned'
<1>1. \A d \in calls : d.by = None
  BY OwnCalls
<1>2. \A d \in calls' : d.by # None => d = c
  BY <1>1
<1> QED
  BY <1>2 DEF CallsOwned, At

LEMMA AbandonedUnowned ==
  ASSUME NEW C \in SUBSET Call, NEW c \in Abandoned(C)
  PROVE  c.by = None
<1>1. PICK x \in C : c = [x EXCEPT !.by = None]
  BY DEF Abandoned
<1> QED
  BY <1>1 DEF Call

LEMMA OwnerTasks ==
  ASSUME IInv, IInv', TasksOK, NEW r \in Request, ~Outside(pc[r]), lock' \in {lock, None},
         Holds(pc'[r], local'[r], uploads', prepared_deletes'),
         \A u \in uploads' : u.key \in minted',
         pc'[r] = "begin" => local'[r].upload.key \in minted',
         \A p \in puts' : pc'[r] = "put" /\ local'[r].upload.key = p.key,
         CallsOwned'
  PROVE  TasksOK'
<1>1. ASSUME NEW q \in Request \ {r} PROVE Outside(pc'[q])
  BY Alone
<1>2. LiveKeys'
  BY <1>1 DEF LiveKeys, At, Outside
<1>3. PutsOwned'
  BY DEF PutsOwned, At
<1>4. \A q \in Request : HandlerHolds(q)'
  BY <1>1 DEF HandlerHolds, Holds, Unsent, Outside
<1> QED
  BY <1>2, <1>3, <1>4 DEF TasksOK

LEMMA OwnerRetiring ==
  ASSUME IInv, IInv', NEW r \in Request, ~Outside(pc[r]), lock' \in {lock, None},
         minted \subseteq minted',
         pc'[r] = "begin" => local'[r].upload.key \notin minted,
         \A u \in uploads' : \/ u \in uploads \/ u.key \notin minted
                             \/ pc[r] = "begin" /\ local[r].upload.key = u.key
  PROVE  Retiring
<1>1. ASSUME NEW q \in Request \ {r} PROVE Outside(pc'[q])
  BY Alone
<1> QED
  BY <1>1 DEF Retiring, Retired, At, Outside

\* A step that touches neither journal nor store, and does not begin an upload.
LEMMA CalmStep ==
  ASSUME IInv, IInv', JInv, NEW r \in Request, ~Outside(pc[r]), lock' \in {lock, None},
         UNCHANGED <<images, uploads, deletes, store, rows, row, minted>>,
         puts' = {} \/ (puts' = puts /\ pc[r] # "put"), CallsOwned',
         pc'[r] # "begin",
         Holds(pc'[r], local'[r], uploads, prepared_deletes)
  PROVE  JInv'
<1>1. prepared_deletes' = prepared_deletes
  BY DEF prepared_deletes
<1>2. puts' = {}
  BY OwnPuts DEF JInv, At
<1>3. Retiring
  BY OwnerRetiring
<1>4. TasksOK'
  BY <1>1, <1>2, OwnerTasks DEF JInv, TasksOK, LiveKeys
<1>5. TablesOK'
  BY <1>3, TablesKept DEF JInv, journalVars, IInv, TypeInv
<1> QED
  BY <1>4, <1>5 DEF JInv

\* The key of an intent is retired when the journal forgets the intent.
LEMMA Retires ==
  ASSUME IInv, IInv', TasksOK, NEW r \in Request, ~Outside(pc[r]), lock' \in {lock, None},
         minted' = minted, NEW u \in uploads, uploads' = uploads \ {u}, pc'[r] # "begin"
  PROVE  Retired(u.key)' /\ u \in UploadRow
<1>1. uploads' = {}
  BY DEF IInv, OneIntent
<1>2. \A q \in Request : pc'[q] # "begin"
  BY Alone DEF Outside
<1> QED
  BY <1>1, <1>2 DEF Retired, At, TasksOK, LiveKeys, IInv, TypeInv, TypeOK, JournalTypeOK

\* A step that settles an intent or plans a delete.
LEMMA SettlingStep ==
  ASSUME IInv, IInv', JInv, NEW r \in Request, ~Outside(pc[r]), lock' \in {lock, None},
         NoFlush, minted' = minted,
         puts' = {} \/ (puts' = puts /\ pc[r] # "put"), CallsOwned',
         pc'[r] # "begin", uploads' \subseteq uploads,
         Holds(pc'[r], local'[r], uploads', prepared_deletes'),
         \/ \E u \in uploads, f \in Face : complete_upload(u, f)
         \/ \E u \in uploads : discard_upload(u)
         \/ \E F \in SUBSET Face : plan_delete(F)
         \/ \E D \in SUBSET prepared_deletes : finish_delete(D)
         \/ \E d \in prepared_deletes : discard_delete(d)
  PROVE  JInv'
<1>1. puts' = {}
  BY OwnPuts DEF JInv, At
<1>2. Retiring
  BY OwnerRetiring
<1>3. TasksOK'
  BY <1>1, OwnerTasks DEF JInv, TasksOK, LiveKeys
<1>4. TypeOK /\ OneIntent /\ TablesOK /\ TasksOK
  BY DEF IInv, TypeInv, JInv
<1>5. ASSUME NEW u \in uploads, NEW f \in Face, complete_upload(u, f) PROVE TablesOK'
  <2>1. uploads' = uploads \ {u}
    BY <1>5 DEF complete_upload
  <2> QED
    BY <1>2, <1>4, <1>5, <2>1, Retires, TablesComplete
<1>6. ASSUME NEW u \in uploads, discard_upload(u) PROVE TablesOK'
  <2>1. uploads' = uploads \ {u}
    BY <1>6 DEF discard_upload
  <2> QED
    BY <1>2, <1>4, <1>6, <2>1, Retires, TablesDiscard
<1>7. TablesOK'
  BY <1>2, <1>4, <1>5, <1>6, TablesPlan, TablesFinish, TablesDiscardDelete
<1> QED
  BY <1>3, <1>7 DEF JInv

\* What is known of a handler past the lock before its step.
LEMMA OwnerFacts ==
  ASSUME IInv, JInv, NEW r \in Request
  PROVE  /\ local[r] \in Local /\ GatewayTypeOK /\ JournalTypeOK /\ TasksOK
         /\ Holds(pc[r], local[r], uploads, prepared_deletes)
         /\ \A p : GoTo(r, p) => pc'[r] = p
         /\ \A v : Keep(r, v) => local'[r] = v
         /\ Release(r) => pc'[r] = "idle" /\ lock' = None /\ local'[r] = NoLocal
  BY Facts DEF JInv, TasksOK, HandlerHolds, GoTo, Keep, Release, GatewayTypeOK, Task

LEMMA LeftHolds ==
  ASSUME NEW l, NEW U, NEW D, NEW p \in {"idle", "queued", "get"}
  PROVE  Holds(p, l, U, D)
  BY DEF Holds, Unsent

\* The handler leaves, and nothing else changes.
LEMMA LeavingCalm ==
  ASSUME IInv, IInv', JInv, NEW r \in Request, ~Outside(pc[r]), Release(r),
         UNCHANGED <<flushVars, store, journalVars>>,
         puts' = {} \/ (puts' = puts /\ pc[r] # "put"), CallsOwned'
  PROVE  JInv'
<1>1. pc'[r] = "idle" /\ lock' = None
  BY OwnerFacts
<1> QED
  BY <1>1, CalmStep, LeftHolds DEF flushVars, journalVars

-----------------------------------------------------------------------------
(* recover().                                                              *)

LEMMA RecoverKeeps ==
  ASSUME IInv, IInv', JInv, NEW r \in Request, Recover(r)
  PROVE  JInv'
<1> DEFINE l == local[r]
<1>1. /\ pc[r] \in {"uploads", "settle", "confirm"} /\ ~Outside(pc[r])
      /\ calls' = calls /\ puts' = puts /\ pc[r] # "put" /\ pc[r] # "await"
      /\ NoFlush /\ minted' = minted
  BY DEF Recover, RecoverMigration, RecoverSnapshot, RecoverPlans, SettleAdopt,
         SettlePending, SettleAmbiguous, SettleConflict, Confirm, RecoverFails,
         At, Outside, backendVars, storeVars, flushVars, NoFlush
<1>2. CallsOwned' /\ OneIntent
  BY <1>1, NoneWaiting DEF JInv, IInv
<1>3. /\ l \in Local /\ l.reply = "none" /\ Holds(pc[r], l, uploads, prepared_deletes)
  BY <1>1, OwnerFacts DEF Holds, Unsent
<1>4. CASE RecoverMigration(r)
  <2>1. PICK u \in l.todo : discard_upload(u) /\ Keep(r, [l EXCEPT !.todo = l.todo \ {u}])
    BY <1>4 DEF RecoverMigration
  <2>2. u \in uploads /\ pc' = pc /\ lock' = lock /\ pc[r] = "uploads"
    BY <1>3, <1>4 DEF RecoverMigration, Holds, At
  <2>3. local'[r] = [l EXCEPT !.todo = l.todo \ {u}]
    BY <2>1, OwnerFacts
  <2>4. uploads' = uploads \ {u}
    BY <2>1 DEF discard_upload
  <2>5. Holds(pc'[r], local'[r], uploads', prepared_deletes')
    BY <1>3, <2>2, <2>3, <2>4 DEF Holds, Unsent, Local
  <2> QED
    BY <1>1, <1>2, <2>1, <2>2, <2>4, <2>5, SettlingStep
<1>5. CASE RecoverSnapshot(r)
  <2>1. PICK u \in l.todo :
          Keep(r, [l EXCEPT !.todo = l.todo \ {u}, !.upload = u, !.ids = FacesOf({u.subject})])
    BY <1>5 DEF RecoverSnapshot
  <2>2. /\ pc[r] = "uploads" /\ pc'[r] = "settle" /\ lock' = lock
        /\ UNCHANGED <<images, uploads, deletes>>
    BY <1>5, OwnerFacts DEF RecoverSnapshot, At, journalVars
  <2>3. local'[r] = [l EXCEPT !.todo = l.todo \ {u}, !.upload = u, !.ids = FacesOf({u.subject})]
    BY <2>1, OwnerFacts
  <2>4. Holds(pc'[r], local'[r], uploads, prepared_deletes)
    BY <1>3, <2>2, <2>3 DEF Holds, Unsent, Local
  <2> QED
    BY <1>1, <1>2, <2>2, <2>4, CalmStep DEF NoFlush
<1>6. CASE SettleAdopt(r)
  <2>1. PICK f \in Added(r) : complete_upload(l.upload, f)
    BY <1>6 DEF SettleAdopt
  <2>2. /\ pc[r] = "settle" /\ pc'[r] = "uploads" /\ lock' = lock
        /\ local'[r] = [l EXCEPT !.upload = None, !.ids = {}]
    BY <1>6, OwnerFacts DEF SettleAdopt, At
  <2>3. l.upload \in uploads /\ f \in Face
    BY <1>3, <2>2, Facts, LocalFields DEF Holds, Promise, Added
  <2>4. uploads' = uploads \ {l.upload}
    BY <2>1 DEF complete_upload
  <2>5. Holds(pc'[r], local'[r], uploads', prepared_deletes')
    BY <1>3, <2>2, <2>4 DEF Holds, Unsent, Local
  <2> QED
    BY <1>1, <1>2, <2>1, <2>2, <2>3, <2>4, <2>5, SettlingStep
<1>7. CASE SettlePending(r)
  <2>1. /\ pc[r] = "settle" /\ pc'[r] = "uploads" /\ lock' = lock
        /\ local'[r] = [l EXCEPT !.unresolved = TRUE, !.upload = None, !.ids = {}]
        /\ UNCHANGED <<images, uploads, deletes>>
    BY <1>7, OwnerFacts DEF SettlePending, At, journalVars
  <2>2. Holds(pc'[r], local'[r], uploads, prepared_deletes)
    BY <1>3, <2>1 DEF Holds, Unsent, Local
  <2> QED
    BY <1>1, <1>2, <2>1, <2>2, CalmStep DEF NoFlush
<1>8. CASE SettleAmbiguous(r) \/ SettleConflict(r) \/ RecoverFails(r)
  BY <1>1, <1>2, <1>8, LeavingCalm
  DEF SettleAmbiguous, SettleConflict, RecoverFails, storeVars
<1>9. CASE RecoverPlans(r)
  <2>1. /\ pc[r] = "uploads" /\ lock' = lock /\ UNCHANGED <<images, uploads, deletes>>
        /\ \/ pc'[r] = "flush" /\ local'[r] = l
           \/ pc'[r] = "confirm" /\ local'[r] = [l EXCEPT !.ids = FacesOf(Subject)]
    BY <1>9, OwnerFacts DEF RecoverPlans, At, journalVars
  <2>2. Holds(pc'[r], local'[r], uploads, prepared_deletes)
    BY <1>3, <2>1 DEF Holds, Unsent, Local
  <2> QED
    BY <1>1, <1>2, <2>1, <2>2, CalmStep DEF NoFlush
<1>10. CASE Confirm(r)
  <2>1. /\ finish_delete(Confirmed(r)) /\ Confirmed(r) \in SUBSET prepared_deletes
        /\ pc'[r] = "flush" /\ lock' = lock
    BY <1>10, OwnerFacts DEF Confirm, Confirmed
  <2>2. uploads' = uploads /\ local'[r].reply = l.reply
    BY <1>3, <1>10, OwnerFacts DEF Confirm, finish_delete, Local
  <2>3. Holds(pc'[r], local'[r], uploads', prepared_deletes')
    BY <1>3, <2>1, <2>2 DEF Holds, Unsent
  <2> QED
    BY <1>1, <1>2, <2>1, <2>2, <2>3, SettlingStep
<1> QED
  BY <1>4, <1>5, <1>6, <1>7, <1>8, <1>9, <1>10 DEF Recover
-----------------------------------------------------------------------------
(* Arrival, the lock, and flushes.                                         *)

\* Handlers stay, or move between points where they await no put and no answer.
LEMMA TasksStay ==
  ASSUME TypeOK, TasksOK, UNCHANGED <<uploads, minted, calls>>, puts' \subseteq puts,
         prepared_deletes' = prepared_deletes,
         \A q \in Request :
           \/ pc'[q] = pc[q] /\ local'[q] = local[q]
           \/ /\ pc[q] \notin {"put", "await"} /\ pc'[q] # "begin"
              /\ Holds(pc'[q], local'[q], uploads, prepared_deletes)
  PROVE  TasksOK' /\ Retiring
<1>1. LiveKeys' /\ Retiring
  BY DEF TasksOK, LiveKeys, Retiring, Retired, At
<1>2. PutsOwned'
  BY DEF TasksOK, PutsOwned, At
<1>3. CallsOwned'
  <2>1. \A c \in calls : c.by \in Request \cup {None}
    BY DEF TypeOK, BackendTypeOK, Call
  <2> QED
    BY <2>1 DEF TasksOK, CallsOwned, At
<1>4. \A q \in Request : HandlerHolds(q)'
  BY DEF TasksOK, HandlerHolds
<1> QED
  BY <1>1, <1>2, <1>3, <1>4 DEF TasksOK

LEMMA ArriveKeeps ==
  ASSUME IInv, IInv', JInv, NEW r \in Request, Arrive(r) \/ Acquire(r)
  PROVE  JInv'
<1>1. /\ pc[r] \in {"idle", "queued"} /\ NoFlush
      /\ UNCHANGED <<images, uploads, deletes, minted, calls, puts>>
      /\ \A q \in Request \ {r} : pc'[q] = pc[q] /\ local'[q] = local[q]
  BY OwnerFacts DEF Arrive, Acquire, GoTo, Keep, GatewayTypeOK, Task, flushVars,
     backendVars, storeVars, journalVars, NoFlush
<1>2. Holds(pc'[r], local'[r], uploads, prepared_deletes) /\ pc'[r] # "begin"
  <2>1. CASE Arrive(r)
    BY <2>1, OwnerFacts, LeftHolds DEF Arrive
  <2>2. CASE Acquire(r)
    <3>1. pc'[r] = "uploads" /\ local'[r] = [NoLocal EXCEPT !.todo = uploads]
      BY <2>2, OwnerFacts DEF Acquire
    <3> QED
      BY <3>1 DEF Holds, Unsent, NoLocal
  <2> QED BY <2>1, <2>2
<1>3. prepared_deletes' = prepared_deletes
  BY <1>1 DEF prepared_deletes
<1>4. TasksOK' /\ Retiring
  BY <1>1, <1>2, <1>3, TasksStay DEF JInv, IInv, TypeInv
<1> QED
  BY <1>1, <1>4, TablesKept DEF JInv, IInv, TypeInv, journalVars, NoFlush

LEMMA WorkerKeeps ==
  ASSUME IInv, JInv, WorkerTick
  PROVE  JInv'
<1>1. /\ UNCHANGED <<images, uploads, deletes, minted, calls, puts>> /\ NoFlush
      /\ \A q \in Request : pc'[q] = pc[q] /\ local'[q] = local[q]
  BY WorkerAssumption
  DEF WorkerTick, GoTo, flushVars, backendVars, storeVars, journalVars, NoFlush,
      IInv, TypeInv, TypeOK, GatewayTypeOK, Task
<1>2. prepared_deletes' = prepared_deletes
  BY <1>1 DEF prepared_deletes
<1>3. TasksOK' /\ Retiring
  BY <1>1, <1>2, TasksStay DEF JInv, IInv, TypeInv
<1> QED
  BY <1>1, <1>3, TablesKept DEF JInv, IInv, TypeInv, journalVars, NoFlush

LEMMA FlushKeeps ==
  ASSUME IInv, IInv', JInv, NEW t \in Task, Flush(t)
  PROVE  JInv'
<1>1. /\ UNCHANGED <<uploads, minted, calls, puts>>
      /\ pc[t] \in {"flush", "drain", "unqueue"}
  BY DEF Flush, FlushRead, FlushRow, FlushUnqueue, FlushFails, FlushEnds, DeleteObjects,
         flushVars, backendVars, storeVars, journalVars
<1>2. ASSUME NEW q \in Request
      PROVE  \/ pc'[q] = pc[q] /\ local'[q] = local[q]
             \/ /\ pc[q] \notin {"put", "await"} /\ pc'[q] # "begin"
                /\ Holds(pc'[q], local'[q], uploads, prepared_deletes)
  <2>1. CASE q # t
    BY <2>1, OwnerFacts
    DEF Flush, FlushRead, FlushRow, FlushUnqueue, FlushFails, FlushEnds, GoTo, Release,
        Keep, GatewayTypeOK, Task
  <2>2. CASE q = t /\ FlushEnds(t)
    <3>1. t # Worker /\ pc[q] = "drain"
      BY <2>2, WorkerAssumption DEF FlushEnds
    <3>2. \/ pc'[q] = "idle"
          \/ pc'[q] = "dispatch" /\ local'[q] = local[q]
             /\ local[q].upload = None /\ local[q].plan = None
      BY <2>2, <3>1, OwnerFacts DEF FlushEnds
    <3> QED
      BY <2>2, <3>1, <3>2, OwnerFacts, LeftHolds DEF Holds, Unsent
  <2>3. CASE q = t /\ ~FlushEnds(t)
    <3>1. local' = local /\ pc'[q] \in {"flush", "drain", "unqueue"}
      BY <1>1, <2>3, OwnerFacts DEF Flush, FlushRead, FlushRow, FlushUnqueue, FlushFails
    <3> QED
      BY <1>1, <2>3, <3>1, OwnerFacts DEF Holds, Unsent
  <2> QED BY <2>1, <2>2, <2>3
<1>3. \A q \in Request : pc'[q] # "begin" \/ (pc'[q] = pc[q] /\ local'[q] = local[q])
  BY <1>2
<1>4. Retiring
  BY <1>1, <1>3 DEF Retiring, Retired, At
<1>5. TablesOK' /\ prepared_deletes' = prepared_deletes
  BY <1>4, TablesFlush DEF JInv, IInv, TypeInv
<1>6. TasksOK'
  BY <1>1, <1>2, <1>5, TasksStay DEF JInv, IInv, TypeInv
<1> QED
  BY <1>5, <1>6 DEF JInv

-----------------------------------------------------------------------------
(* Serving a request.                                                      *)

\* From dispatch the handler goes where it only reads, or sends a rename.
LEMMA ReadingKeeps ==
  ASSUME IInv, IInv', JInv, NEW r \in Request,
         \/ Respond(r) \/ ServeImage(r) \/ RenameAnswered(r) \/ Unanswered(r)
         \/ \E f \in Face : OpenImage(r, f)
         \/ \E S \in SUBSET Subject : DeleteSubjects(r, S)
         \/ \E a, b \in Subject : Rename(r, a, b)
  PROVE  JInv'
<1> DEFINE l == local[r]
<1>1. l \in Local /\ Holds(pc[r], l, uploads, prepared_deletes) /\ TasksOK
  BY OwnerFacts
<1>2. CASE Respond(r) \/ ServeImage(r)
  <2>1. /\ ~Outside(pc[r]) /\ pc[r] \notin {"await", "put"} /\ Release(r)
        /\ UNCHANGED <<flushVars, store, puts, calls, journalVars>>
    BY <1>2 DEF Respond, ServeImage, At, Outside, backendVars, storeVars
  <2>2. CallsOwned'
    BY <1>1, <2>1, NoneWaiting
  <2> QED
    BY <2>1, <2>2, LeavingCalm
<1>3. CASE RenameAnswered(r)
  <2>1. /\ ~Outside(pc[r]) /\ pc[r] # "put" /\ l.reply # "none" /\ Release(r)
        /\ UNCHANGED <<flushVars, store, puts, calls, journalVars>>
    BY <1>3 DEF RenameAnswered, At, Outside, backendVars, storeVars
  <2>2. CallsOwned'
    BY <1>1, <2>1, NoneWaiting
  <2> QED
    BY <2>1, <2>2, LeavingCalm
<1>4. CASE Unanswered(r)
  <2> DEFINE mine == {c \in calls : c.by = r}
  <2>1. /\ ~Outside(pc[r]) /\ pc[r] # "put" /\ Release(r)
        /\ UNCHANGED <<flushVars, store, puts, journalVars>>
        /\ calls' = (calls \ mine) \cup Abandoned(mine)
    BY <1>4 DEF Unanswered, At, Outside, storeVars
  <2>2. \A c \in calls' : c.by = None
    <3>1. mine \in SUBSET Call
      BY DEF IInv, TypeInv, TypeOK, BackendTypeOK
    <3>2. \A c \in calls \ mine : c.by = None
      BY <1>1, <2>1, OwnCalls
    <3> QED
      BY <2>1, <3>1, <3>2, AbandonedUnowned
  <2>3. CallsOwned'
    BY <2>2 DEF CallsOwned
  <2> QED
    BY <2>1, <2>3, LeavingCalm
<1>5. ASSUME NEW f \in Face, OpenImage(r, f) PROVE JInv'
  <2>1. /\ pc[r] = "dispatch" /\ ~Outside(pc[r]) /\ lock' = lock
        /\ UNCHANGED <<images, uploads, deletes, store, rows, row, minted, puts, calls>>
        /\ pc'[r] \in {"get", "fetch"}
        /\ local'[r] = [l EXCEPT !.ids = FacesOf(Subject), !.face = f, !.key = images[f]]
    BY <1>5, OwnerFacts
    DEF OpenImage, At, Outside, flushVars, backendVars, storeVars, journalVars
  <2>2. Holds(pc'[r], local'[r], uploads, prepared_deletes)
    BY <1>1, <2>1 DEF Holds, Unsent, Local
  <2>3. CallsOwned'
    BY <1>1, <2>1, NoneWaiting
  <2> QED
    BY <2>1, <2>2, <2>3, CalmStep
<1>6. ASSUME NEW S \in SUBSET Subject, DeleteSubjects(r, S) PROVE JInv'
  <2>1. /\ pc[r] = "dispatch" /\ ~Outside(pc[r]) /\ lock' = lock
        /\ UNCHANGED <<images, uploads, deletes, store, rows, row, minted, puts, calls>>
        /\ pc'[r] = "plan"
        /\ local'[r] = [l EXCEPT !.ids = FacesOf(S), !.from = S]
    BY <1>6, OwnerFacts
    DEF DeleteSubjects, At, Outside, flushVars, backendVars, storeVars, journalVars
  <2>2. Holds(pc'[r], local'[r], uploads, prepared_deletes)
    BY <1>1, <2>1 DEF Holds, Unsent, Local
  <2>3. CallsOwned'
    BY <1>1, <2>1, NoneWaiting
  <2> QED
    BY <2>1, <2>2, <2>3, CalmStep
<1>7. ASSUME NEW a \in Subject, NEW b \in Subject, Rename(r, a, b) PROVE JInv'
  <2> DEFINE c == [RenameCall(a, b) EXCEPT !.by = r]
  <2>1. /\ pc[r] = "dispatch" /\ ~Outside(pc[r]) /\ lock' = lock
        /\ UNCHANGED <<images, uploads, deletes, store, rows, row, minted, puts>>
        /\ pc'[r] = "await" /\ local' = local /\ calls' = calls \cup {c}
        /\ l.upload = None /\ l.plan = None
    BY <1>7, OwnerFacts, Facts
    DEF Rename, Send, At, Outside, flushVars, storeVars, journalVars, Promise
  <2>2. Holds(pc'[r], local'[r], uploads, prepared_deletes)
    BY <1>1, <2>1 DEF Holds, Unsent
  <2>3. c.by = r /\ l.reply = "none"
    BY <1>1, <2>1 DEF RenameCall, Holds, Unsent
  <2> HIDE DEF c
  <2>4. CallsOwned'
    BY <1>1, <2>1, <2>3, OneWaiting
  <2> QED
    BY <2>1, <2>2, <2>4, CalmStep
<1> QED
  BY <1>2, <1>3, <1>4, <1>5, <1>6, <1>7
\* An upload begins: its key is chosen, and then written to the journal.
LEMMA UploadKeeps ==
  ASSUME IInv, IInv', JInv, NEW r \in Request,
         \/ \E s \in Subject : AddFace(r, s)
         \/ BeginAdd(r) \/ BeginMigration(r)
  PROVE  JInv'
<1> DEFINE l == local[r]
<1>1. /\ l \in Local /\ Holds(pc[r], l, uploads, prepared_deletes) /\ TasksOK
      /\ TypeOK /\ TablesOK
  BY OwnerFacts DEF IInv, TypeInv, JInv
<1>2. ASSUME NEW s \in Subject, AddFace(r, s) PROVE JInv'
  <2>1. PICK k \in Key \ minted :
          /\ minted' = minted \cup {k}
          /\ Keep(r, [l EXCEPT !.upload = [key |-> k, subject |-> s, previous |-> FacesOf({s})]])
    BY <1>2 DEF AddFace
  <2> DEFINE u == [key |-> k, subject |-> s, previous |-> FacesOf({s})]
  <2>2. /\ pc[r] = "dispatch" /\ ~Outside(pc[r]) /\ lock' = lock /\ pc'[r] = "begin"
        /\ UNCHANGED <<images, uploads, deletes, store, rows, row, puts, calls>>
    BY <1>2, OwnerFacts DEF AddFace, At, Outside, backendVars, storeVars, journalVars
  <2>3. local'[r] = [l EXCEPT !.upload = u]
    BY <2>1, OwnerFacts
  <2>4. local'[r].upload = u /\ local'[r].reply = l.reply
    BY <1>1, <2>3 DEF Local
  <2>5. u.key = k /\ u.subject # None
    BY NoneAssumption
  <2> HIDE DEF u
  <2>6. Holds(pc'[r], local'[r], uploads, prepared_deletes)
    BY <1>1, <2>2, <2>4, <2>5 DEF Holds, Unsent
  <2>7. Retiring
    BY <2>1, <2>2, <2>4, <2>5, OwnerRetiring
  <2>8. CallsOwned' /\ puts' = {} /\ prepared_deletes' = prepared_deletes
    BY <1>1, <2>2, NoneWaiting, OwnPuts DEF At, prepared_deletes
  <2>9. TasksOK'
    BY <1>1, <2>1, <2>2, <2>4, <2>5, <2>6, <2>8, OwnerTasks DEF TasksOK, LiveKeys
  <2>10. TablesOK'
    BY <1>1, <2>2, <2>7, TablesKept DEF journalVars
  <2> QED
    BY <2>9, <2>10 DEF JInv
<1>3. CASE BeginAdd(r)
  <2> DEFINE u == l.upload
  <2>1. /\ pc[r] = "begin" /\ ~Outside(pc[r]) /\ lock' = lock /\ pc'[r] = "put"
        /\ begin_upload(u.key, u.subject, u.previous)
        /\ puts' = puts \cup {[key |-> u.key, picture |-> u.key]}
        /\ UNCHANGED <<minted, local, calls>> /\ NoFlush
    BY <1>3, OwnerFacts DEF BeginAdd, At, Outside, backendVars, flushVars, NoFlush
  <2>2. u \in UploadRow
    BY <1>1, <2>1, Facts, LocalFields DEF Promise
  <2>3. uploads' = uploads \cup {u} /\ prepared_deletes' = prepared_deletes
    BY <1>1, <2>1, <2>2, BeginUpload DEF TypeOK
  <2>4. u.key \in minted
    BY <1>1, <2>1 DEF TasksOK, LiveKeys, At
  <2>5. Holds(pc'[r], local'[r], uploads', prepared_deletes')
    BY <1>1, <2>1, <2>3 DEF Holds, Unsent
  <2>6. Retiring
    BY <2>1, <2>3, OwnerRetiring
  <2>7. CallsOwned' /\ puts = {}
    BY <1>1, <2>1, NoneWaiting, OwnPuts DEF At
  <2>8. /\ \A p \in puts' : p.key = u.key
        /\ \A v \in uploads' : v.key \in minted'
        /\ local'[r].upload = u
    BY <1>1, <2>1, <2>3, <2>4, <2>7 DEF TasksOK, LiveKeys
  <2>9. TablesOK'
    BY <1>1, <2>1, <2>6, TablesBegin
  <2> HIDE DEF u
  <2>10. TasksOK'
    BY <1>1, <2>1, <2>5, <2>7, <2>8, OwnerTasks
  <2> QED
    BY <2>9, <2>10 DEF JInv
<1>4. CASE BeginMigration(r)
  <2>1. PICK k \in Key \ minted :
          /\ minted' = minted \cup {k}
          /\ begin_upload(k, None, l.ids)
          /\ puts' = puts \cup {[key |-> k, picture |-> picture[l.face]]}
          /\ Keep(r, [l EXCEPT !.upload = [key |-> k, subject |-> None, previous |-> l.ids]])
    BY <1>4 DEF BeginMigration
  <2> DEFINE u == [key |-> k, subject |-> None, previous |-> l.ids]
  <2>2. /\ pc[r] = "fetch" /\ ~Outside(pc[r]) /\ lock' = lock /\ pc'[r] = "put"
        /\ calls' = calls /\ NoFlush
    BY <1>4, OwnerFacts DEF BeginMigration, At, Outside, backendVars, NoFlush
  <2>3. local'[r] = [l EXCEPT !.upload = u]
    BY <2>1, OwnerFacts
  <2>4. local'[r].upload = u /\ local'[r].reply = l.reply /\ local'[r].face = l.face
    BY <1>1, <2>3 DEF Local
  <2>5. u.key = k /\ u.subject = None /\ u.previous = l.ids /\ u \in UploadRow
    BY <1>1, LocalFields DEF UploadRow
  <2> HIDE DEF u
  <2>6. uploads' = uploads \cup {u} /\ prepared_deletes' = prepared_deletes
    BY <1>1, <2>1, <2>5, BeginUpload DEF TypeOK
  <2>7. Holds(pc'[r], local'[r], uploads', prepared_deletes')
    BY <1>1, <2>2, <2>4, <2>6 DEF Holds, Unsent
  <2>8. Retiring
    BY <2>1, <2>2, <2>5, <2>6, OwnerRetiring
  <2>9. CallsOwned' /\ puts = {}
    BY <1>1, <2>2, NoneWaiting, OwnPuts DEF At
  <2>10. /\ \A p \in puts' : p.key = k
         /\ \A v \in uploads' : v.key \in minted'
    BY <1>1, <2>1, <2>5, <2>6, <2>9 DEF TasksOK, LiveKeys
  <2>11. TasksOK'
    BY <1>1, <2>2, <2>4, <2>5, <2>7, <2>9, <2>10, OwnerTasks
  <2>12. TablesOK'
    BY <1>1, <2>1, <2>2, <2>8, TablesBegin
  <2> QED
    BY <2>11, <2>12 DEF JInv
<1> QED BY <1>2, <1>3, <1>4

\* No put is under way once the handler that waited for it has gone on.
LEMMA PutKeeps ==
  ASSUME IInv, IInv', JInv, "put" \notin Late, NEW r \in Request,
         PutSucceeds(r) \/ PutFails(r)
  PROVE  JInv'
<1> DEFINE l == local[r]
           u == l.upload
<1>1. /\ pc[r] = "put" /\ ~Outside(pc[r]) /\ u # None
      /\ l \in Local /\ Holds("put", l, uploads, prepared_deletes) /\ TasksOK /\ JournalTypeOK
      /\ NoFlush /\ minted' = minted
  BY OwnerFacts, Facts
  DEF PutSucceeds, PutFails, AbandonPut, At, Outside, Promise, flushVars, storeVars, NoFlush
<1>2. u \in uploads /\ l.reply = "none"
  BY <1>1 DEF Holds, Unsent
<1>3. puts' = {}
  <2>1. \A p \in puts : p.key = u.key
    BY <1>1, OwnPuts
  <2> QED
    BY <2>1 DEF PutSucceeds, PutFails, AbandonPut, storeVars
<1>4. CASE PutSucceeds(r) /\ u.subject # None
  <2> DEFINE c == [AddCall(u) EXCEPT !.by = r]
  <2>1. /\ lock' = lock /\ local' = local /\ pc'[r] = "await" /\ calls' = calls \cup {c}
        /\ UNCHANGED <<images, uploads, deletes>>
    BY <1>4, OwnerFacts DEF PutSucceeds, Send, journalVars
  <2>2. c.by = r /\ c.op = "add"
    BY DEF AddCall
  <2> HIDE DEF c
  <2>3. CallsOwned'
    BY <1>1, <1>2, <2>1, <2>2, OneWaiting
  <2>4. Holds(pc'[r], local'[r], uploads, prepared_deletes)
    <3>1. l.plan = None
      BY <1>1, Facts DEF Promise
    <3> QED
      BY <1>2, <2>1, <3>1 DEF Holds, Unsent
  <2> QED
    BY <1>1, <1>3, <2>1, <2>3, <2>4, CalmStep DEF NoFlush
<1>5. CASE PutSucceeds(r) /\ u.subject = None
  <2>1. /\ complete_upload(u, l.face) /\ l.face \in Face /\ calls' = calls
        /\ pc'[r] = "idle" /\ lock' = None
    BY <1>1, <1>5, OwnerFacts DEF PutSucceeds, Holds, backendVars
  <2>2. CallsOwned' /\ uploads' \subseteq uploads
    BY <1>1, <2>1, NoneWaiting DEF complete_upload
  <2>3. Holds(pc'[r], local'[r], uploads', prepared_deletes')
    BY <2>1, LeftHolds
  <2> QED
    BY <1>1, <1>2, <1>3, <2>1, <2>2, <2>3, SettlingStep
<1>6. CASE PutFails(r) /\ u.subject # None
  <2>1. /\ discard_upload(u) /\ lock' = lock /\ local' = local /\ calls' = calls
        /\ pc'[r] = "flush"
    BY <1>6, OwnerFacts DEF PutFails, backendVars
  <2>2. CallsOwned' /\ uploads' \subseteq uploads
    BY <1>1, <2>1, NoneWaiting DEF discard_upload
  <2>3. Holds(pc'[r], local'[r], uploads', prepared_deletes')
    BY <1>2, <2>1 DEF Holds, Unsent
  <2> QED
    BY <1>1, <1>2, <1>3, <2>1, <2>2, <2>3, SettlingStep
<1>7. CASE PutFails(r) /\ u.subject = None
  <2>1. Release(r) /\ UNCHANGED <<flushVars, store, journalVars, calls>>
    BY <1>7 DEF PutFails, AbandonPut, backendVars
  <2>2. CallsOwned'
    BY <1>1, <2>1, NoneWaiting
  <2> QED
    BY <1>1, <1>3, <2>1, <2>2, LeavingCalm
<1> QED BY <1>4, <1>5, <1>6, <1>7

LEMMA PlanKeeps ==
  ASSUME IInv, IInv', JInv, NEW r \in Request,
         PlanSubjects(r) \/ \E F \in SUBSET Face : DeleteFaces(r, F)
  PROVE  JInv'
<1> DEFINE l == local[r]
<1>1. /\ l \in Local /\ Holds(pc[r], l, uploads, prepared_deletes) /\ TasksOK /\ JournalTypeOK
      /\ pc[r] \in {"plan", "dispatch"} /\ ~Outside(pc[r]) /\ l.upload = None
      /\ NoFlush /\ UNCHANGED <<minted, puts, lock>> /\ pc'[r] = "await"
  BY OwnerFacts, Facts
  DEF PlanSubjects, DeleteFaces, Send, At, Outside, Promise, flushVars, storeVars, NoFlush
<1>2. ASSUME NEW F \in SUBSET Face, NEW c, c.by = r, calls' = calls \cup {c},
             plan_delete(F), local'[r].plan = DeletePlan(F),
             local'[r].upload = None, local'[r].reply = "none"
      PROVE  JInv'
  <2>1. uploads' = uploads /\ prepared_deletes' = prepared_deletes \cup {DeletePlan(F)}
    BY <1>1, <1>2, PlanDelete
  <2>2. Holds(pc'[r], local'[r], uploads', prepared_deletes')
    BY <1>1, <1>2, <2>1 DEF Holds, Unsent
  <2>3. CallsOwned'
    BY <1>1, <1>2, OneWaiting
  <2> QED
    BY <1>1, <1>2, <2>1, <2>2, <2>3, SettlingStep
<1>3. l.reply = "none"
  BY <1>1 DEF Holds, Unsent
<1>4. CASE PlanSubjects(r)
  <2> DEFINE c == [DeleteCall(l.from, {}) EXCEPT !.by = r]
             e == DeletePlan(l.ids)
  <2>1. /\ calls' = calls \cup {c} /\ plan_delete(l.ids)
        /\ local'[r] = [l EXCEPT !.plan = e, !.ids = {}]
    BY <1>4, OwnerFacts DEF PlanSubjects, Send
  <2>2. c.by = r /\ l.ids \in SUBSET Face
    BY <1>1, LocalFields DEF DeleteCall
  <2> HIDE DEF c, e
  <2>3. local'[r].plan = e /\ local'[r].upload = None /\ local'[r].reply = "none"
    BY <1>1, <1>3, <2>1 DEF Local
  <2> QED
    BY <1>2, <2>1, <2>2, <2>3 DEF e
<1>5. ASSUME NEW F \in SUBSET Face, DeleteFaces(r, F) PROVE JInv'
  <2> DEFINE c == [DeleteCall({}, F) EXCEPT !.by = r]
             e == DeletePlan(F)
  <2>1. /\ calls' = calls \cup {c} /\ plan_delete(F)
        /\ local'[r] = [l EXCEPT !.plan = e]
    BY <1>5, OwnerFacts DEF DeleteFaces, Send
  <2>2. c.by = r
    BY DEF DeleteCall
  <2> HIDE DEF c, e
  <2>3. local'[r].plan = e /\ local'[r].upload = None /\ local'[r].reply = "none"
    BY <1>1, <1>3, <2>1 DEF Local
  <2> QED
    BY <1>2, <2>1, <2>2, <2>3 DEF e
<1> QED BY <1>4, <1>5

LEMMA AnswerKeeps ==
  ASSUME IInv, IInv', JInv, NEW r \in Request,
         AddSucceeded(r) \/ AddRejected(r) \/ DeleteSucceeded(r) \/ DeleteRejected(r)
  PROVE  JInv'
<1> DEFINE l == local[r]
<1>1. /\ pc[r] = "await" /\ ~Outside(pc[r]) /\ l.reply # "none" /\ TasksOK
      /\ Holds("await", l, uploads, prepared_deletes)
      /\ NoFlush /\ UNCHANGED <<minted, puts, calls>>
  BY OwnerFacts
  DEF AddSucceeded, AddRejected, DeleteSucceeded, DeleteRejected, Answered, At, Outside,
      flushVars, backendVars, storeVars, NoFlush
<1>2. CallsOwned'
  BY <1>1, NoneWaiting
<1>3. CASE AddSucceeded(r)
  <2>1. /\ complete_upload(l.upload, l.face) /\ pc'[r] = "idle" /\ lock' = None
        /\ l.upload \in uploads /\ l.face \in Face
    BY <1>1, <1>3, OwnerFacts DEF AddSucceeded, Answered, Holds
  <2>2. uploads' \subseteq uploads
    BY <2>1 DEF complete_upload
  <2>3. Holds(pc'[r], local'[r], uploads', prepared_deletes')
    BY <2>1, LeftHolds
  <2> QED
    BY <1>1, <1>2, <2>1, <2>2, <2>3, SettlingStep
<1>4. CASE AddRejected(r)
  <2>1. /\ discard_upload(l.upload) /\ pc'[r] = "flush" /\ lock' = lock
        /\ local' = local /\ l.upload \in uploads /\ l.upload # None
    BY <1>1, <1>4, OwnerFacts DEF AddRejected, Holds
  <2>2. uploads' \subseteq uploads
    BY <2>1 DEF discard_upload
  <2>3. Holds(pc'[r], local'[r], uploads', prepared_deletes')
    BY <2>1 DEF Holds, Unsent
  <2> QED
    BY <1>1, <1>2, <2>1, <2>2, <2>3, SettlingStep
<1>5. CASE DeleteSucceeded(r)
  <2>1. /\ finish_delete({l.plan}) /\ pc'[r] = "flush" /\ lock' = lock
        /\ local' = local /\ {l.plan} \in SUBSET prepared_deletes /\ l.plan # None
    BY <1>1, <1>5, OwnerFacts DEF DeleteSucceeded, Holds
  <2>2. uploads' \subseteq uploads
    BY <2>1 DEF finish_delete
  <2>3. Holds(pc'[r], local'[r], uploads', prepared_deletes')
    BY <2>1 DEF Holds, Unsent
  <2> QED
    BY <1>1, <1>2, <2>1, <2>2, <2>3, SettlingStep
<1>6. CASE DeleteRejected(r)
  <2>1. /\ discard_delete(l.plan) /\ pc'[r] = "idle" /\ lock' = None
        /\ l.plan \in prepared_deletes
    BY <1>1, <1>6, OwnerFacts DEF DeleteRejected, Holds
  <2>2. uploads' \subseteq uploads
    BY <2>1 DEF discard_delete
  <2>3. Holds(pc'[r], local'[r], uploads', prepared_deletes')
    BY <2>1, LeftHolds
  <2> QED
    BY <1>1, <1>2, <2>1, <2>2, <2>3, SettlingStep
<1> QED BY <1>3, <1>4, <1>5, <1>6

LEMMA ServeKeeps ==
  ASSUME IInv, IInv', JInv, "put" \notin Late, NEW r \in Request, Serve(r)
  PROVE  JInv'
<1>1. ASSUME NEW S \in {{s} : s \in Subject} \cup {Subject}, DeleteSubjects(r, S)
      PROVE  JInv'
  <2>1. S \in SUBSET Subject
    OBVIOUS
  <2> QED
    BY <1>1, <2>1, ReadingKeeps
<1> QED
  BY <1>1, ReadingKeeps, UploadKeeps, PutKeeps, PlanKeeps, AnswerKeeps DEF Serve

-----------------------------------------------------------------------------
(* The environment.                                                        *)

\* Steps that leave tasks, tables and flushes alone.
LEMMA UnseenKeeps ==
  ASSUME IInv, JInv, UNCHANGED <<images, uploads, deletes, store, rows, row, minted, pc, puts>>,
         \A q \in Request :
           /\ local'[q].upload = local[q].upload
           /\ Holds(pc[q], local'[q], uploads, prepared_deletes),
         CallsOwned'
  PROVE  JInv'
<1>1. prepared_deletes' = prepared_deletes
  BY DEF prepared_deletes
<1>2. LiveKeys' /\ PutsOwned' /\ Retiring
  BY DEF JInv, TasksOK, LiveKeys, PutsOwned, Retiring, Retired, At
<1>3. TasksOK'
  BY <1>1, <1>2 DEF TasksOK, HandlerHolds
<1>4. TablesOK'
  BY <1>2, TablesKept DEF JInv, journalVars, IInv, TypeInv
<1> QED
  BY <1>3, <1>4 DEF JInv

LEMMA BackendKeeps ==
  ASSUME IInv, JInv, BackendStep
  PROVE  JInv'
<1>1. PICK c \in calls, x \in {"ok", "rejected"}, f \in Face \cup {None} :
        /\ Answer(c, x, f) /\ calls' = calls \ {c}
        /\ c.op = "add" /\ x = "ok" => f \in Face
  BY DEF BackendStep, CommitAdd, CommitDelete, CommitRename, DropCall
<1>2. /\ UNCHANGED <<images, uploads, deletes, store, rows, row, minted, pc, puts>>
  BY <1>1 DEF BackendStep, Answer, storeVars, journalVars, flushVars
<1>3. ASSUME NEW q \in Request
      PROVE  /\ local'[q].upload = local[q].upload
             /\ Holds(pc[q], local'[q], uploads, prepared_deletes)
             /\ q # c.by => local'[q] = local[q]
  <2>1. /\ local[q] \in Local /\ GatewayTypeOK
        /\ Holds(pc[q], local[q], uploads, prepared_deletes)
    BY OwnerFacts
  <2>2. CASE c.by = q
    <3>1. /\ pc[q] = "await" /\ c.by # None
          /\ local[q].upload # None => c.op = "add"
      BY <2>2, NoneAssumption DEF JInv, TasksOK, CallsOwned, At
    <3>2. local'[q] = [local[q] EXCEPT !.reply = x, !.face = f]
      BY <1>1, <2>1, <2>2, <3>1 DEF Answer, GatewayTypeOK
    <3>3. /\ local'[q].upload = local[q].upload /\ local'[q].todo = local[q].todo
          /\ local'[q].plan = local[q].plan
          /\ local'[q].reply = x /\ local'[q].face = f
      BY <2>1, <3>2 DEF Local
    <3>4. local[q].upload # None /\ x = "ok" => f \in Face
      BY <1>1, <3>1
    <3>5. Holds("await", local'[q], uploads, prepared_deletes)
      BY <2>1, <3>1, <3>3, <3>4 DEF Holds, Unsent
    <3> QED
      BY <2>2, <3>1, <3>3, <3>5
  <2>3. CASE c.by # q
    BY <1>1, <2>1, <2>3 DEF Answer, GatewayTypeOK
  <2> QED BY <2>2, <2>3
<1>4. CallsOwned'
  <2>1. ASSUME NEW d \in calls', d.by # None
        PROVE  /\ d \in calls /\ d.by # c.by /\ d.by \in Request
    BY <1>1, <2>1
    DEF JInv, TasksOK, CallsOwned, IInv, TypeInv, TypeOK, BackendTypeOK, Call
  <2> QED
    BY <1>2, <1>3, <2>1 DEF JInv, TasksOK, CallsOwned, At
<1> QED
  BY <1>2, <1>3, <1>4, UnseenKeeps

LEMMA StoreKeeps ==
  ASSUME IInv, JInv, StoreStep
  PROVE  JInv'
<1>1. PICK p \in puts : PutLands(p)
  BY DEF StoreStep
<1>2. /\ UNCHANGED <<images, uploads, deletes, rows, row, minted, pc, local, calls>>
      /\ puts' \subseteq puts
  BY <1>1 DEF StoreStep, PutLands, backendVars, journalVars, gatewayVars
<1>3. prepared_deletes' = prepared_deletes
  BY <1>2 DEF prepared_deletes
<1>4. TypeOK /\ TablesOK /\ TasksOK
  BY DEF IInv, TypeInv, JInv
<1>5. TasksOK' /\ Retiring
  BY <1>2, <1>3, <1>4, TasksStay
<1>6. PICK r \in Request : At(r, "put") /\ local[r].upload.key = p.key
  BY <1>4 DEF TasksOK, PutsOwned
<1>7. local[r].upload \in uploads
  BY <1>6, OwnerFacts, Facts DEF Holds, Promise, At
<1>8. TablesOK'
  BY <1>1, <1>2, <1>4, <1>5, <1>6, <1>7, TablesLand
<1> QED
  BY <1>5, <1>8 DEF JInv

\* Every handler is outside afterwards; tables and keys are as before.
LEMMA OutsideTasks ==
  ASSUME JInv, \A q \in Request : pc'[q] = "idle", puts' = {},
         \A c \in calls' : c.by = None, minted' = minted, uploads' \subseteq uploads
  PROVE  TasksOK' /\ Retiring
<1>1. \A q \in Request : HandlerHolds(q)'
  BY LeftHolds DEF HandlerHolds
<1>2. LiveKeys' /\ Retiring
  BY DEF JInv, TasksOK, LiveKeys, Retiring, Retired, At
<1> QED
  BY <1>1, <1>2 DEF TasksOK, PutsOwned, CallsOwned

LEMMA CrashKeeps ==
  ASSUME IInv, JInv, "put" \notin Late, Crash
  PROVE  JInv'
<1>1. /\ UNCHANGED <<images, uploads, deletes, store, minted>>
      /\ puts' = {} /\ \A q \in Request : pc'[q] = "idle"
      /\ \A t \in Task : rows'[t] = {} /\ row'[t] = None
  BY DEF Crash, journalVars, Task
<1>2. \A c \in calls' : c.by = None
  BY AbandonedUnowned DEF Crash, IInv, TypeInv, TypeOK, BackendTypeOK
<1>3. TasksOK' /\ Retiring
  BY <1>1, <1>2, OutsideTasks
<1>4. TablesOK'
  BY <1>1, <1>3, TablesKept DEF JInv, journalVars, IInv, TypeInv
<1> QED
  BY <1>3, <1>4 DEF JInv

LEMMA ReconcileKeeps ==
  ASSUME IInv, JInv, Reconcile
  PROVE  JInv'
<1>1. /\ UNCHANGED <<calls, puts, minted, pc>> /\ NoFlush
      /\ calls = {} /\ puts = {} /\ \A q \in Request : pc[q] = "idle"
  BY DEF Reconcile, ReconcileUpload, ReconcileUndeleted, ReconcileDeleted, Quiet, Task,
         backendVars, storeVars, gatewayVars, NoFlush
<1>2. uploads' \subseteq uploads
  BY DEF Reconcile, ReconcileUpload, ReconcileUndeleted, ReconcileDeleted,
         discard_upload, discard_delete, finish_delete_of
<1>3. TasksOK' /\ Retiring
  BY <1>1, <1>2, OutsideTasks
<1>4. TypeOK /\ OneIntent /\ TablesOK
  BY DEF IInv, TypeInv, JInv
<1>5. CASE ReconcileUpload
  <2>1. PICK u \in uploads : discard_upload(u)
    BY <1>5 DEF ReconcileUpload
  <2>2. uploads' = {}
    BY <1>4, <2>1 DEF discard_upload, OneIntent
  <2>3. Retired(u.key)'
    BY <1>1, <2>2 DEF Retired, At, JInv, TasksOK, LiveKeys
  <2> QED
    BY <1>1, <1>3, <1>4, <2>1, <2>3, TablesDiscard DEF JInv
<1>6. CASE ReconcileUndeleted
  BY <1>1, <1>3, <1>4, <1>6, TablesDiscardDelete DEF JInv, ReconcileUndeleted
<1>7. CASE ReconcileDeleted
  BY <1>1, <1>3, <1>4, <1>7, TablesFinishOf DEF JInv, ReconcileDeleted
<1> QED
  BY <1>5, <1>6, <1>7 DEF Reconcile

LEMMA EnvironmentKeeps ==
  ASSUME IInv, JInv, "put" \notin Late, Environment
  PROVE  JInv'
<1>1. ASSUME UNCHANGED <<calls, storeVars, journalVars, gatewayVars>> PROVE JInv'
  <2>1. UNCHANGED <<images, uploads, deletes, store, rows, row, minted, pc, puts, local>>
    BY <1>1 DEF storeVars, journalVars, gatewayVars
  <2>2. CallsOwned'
    BY <1>1, <2>1 DEF JInv, TasksOK, CallsOwned, At
  <2> QED
    BY <2>1, <2>2, UnseenKeeps, OwnerFacts
<1> QED
  BY <1>1, BackendKeeps, StoreKeeps, CrashKeeps, ReconcileKeeps
  DEF Environment, BypassAdd, BypassDelete

-----------------------------------------------------------------------------
(* The theorem.                                                            *)

LEMMA JInvInit == Init => JInv
<1> SUFFICES ASSUME Init PROVE JInv
    OBVIOUS
<1>1. /\ \A f \in Face : images[f] = None
      /\ uploads = {} /\ deletes = {} /\ puts = {} /\ calls = {} /\ minted = {}
      /\ \A k \in Key : store[k] = None
      /\ \A t \in Task : rows[t] = {} /\ row[t] = None
      /\ \A r \in Request : pc[r] = "idle"
  BY DEF Init, BackendInit, StoreInit, JournalInit, Task
<1>2. Outgoing = {}
  BY <1>1, NoRowAssumption DEF Outgoing, ready_deletes
<1>3. TablesOK
  BY <1>1, <1>2, NoneAssumption
  DEF TablesOK, ImagesApart, OutgoingApart, PlansExact, prepared_deletes, RowsErased, NoOrphan
<1>4. TasksOK
  BY <1>1, LeftHolds DEF TasksOK, LiveKeys, PutsOwned, CallsOwned, HandlerHolds, At
<1> QED
  BY <1>3, <1>4 DEF JInv

LEMMA JInvStep ==
  ASSUME "put" \notin Late
  PROVE  IInv /\ IInv' /\ JInv /\ [Next]_vars => JInv'
<1> SUFFICES ASSUME IInv, IInv', JInv, [Next]_vars PROVE JInv'
    OBVIOUS
<1>1. CASE UNCHANGED vars
  <2>1. UNCHANGED <<images, uploads, deletes, store, rows, row, minted, pc, puts, local, calls>>
    BY <1>1 DEF vars, backendVars, storeVars, journalVars, gatewayVars
  <2>2. CallsOwned'
    BY <2>1 DEF JInv, TasksOK, CallsOwned, At
  <2> QED
    BY <2>1, <2>2, UnseenKeeps, OwnerFacts
<1>2. CASE Next
  BY <1>2, ArriveKeeps, RecoverKeeps, ServeKeeps, WorkerKeeps, FlushKeeps, EnvironmentKeeps
  DEF Next
<1> QED BY <1>1, <1>2

LEMMA ObjectsTracked ==
  ASSUME "put" \notin Late
  PROVE  Spec => []JInv
<1>1. IInv /\ IInv' /\ JInv /\ [Next]_vars => JInv'
  BY JInvStep
<1> QED
  BY <1>1, JInvInit, Inductive, PTL DEF Spec

\* Every stored object is named by a row of the journal at any time, so that a
\* flush or a recovery comes to it: whatever fails, crashes, commits late or
\* bypasses the gateway, as long as a put does not outlive its request.
THEOREM NothingOrphaned ==
  ASSUME "put" \notin Late
  PROVE  Spec => []NoOrphan
<1>1. JInv => NoOrphan
  BY DEF JInv, TablesOK
<1> QED
  BY <1>1, ObjectsTracked, PTL
-----------------------------------------------------------------------------
(* The header "completed".                                                 *)

Flushing(p) == p \in {"flush", "drain", "unqueue"}

\* After its delete was executed nobody has the objects of the plan any more.
Dead(k) == Retired(k) /\ \A f \in Face : images[f] # k

PlanDead(r) ==
  Flushing(pc[r]) /\ local[r].plan # None => \A k \in local[r].plan.keys : Dead(k)

CInv == \A r \in Request : PlanDead(r)

\* While other tasks act, a handler that flushes keeps its plan as it is.
LEMMA PlanDeadStays ==
  ASSUME CInv, NEW r \in Request, Flushing(pc'[r]) => pc[r] = pc'[r] /\ local'[r] = local[r],
         UNCHANGED <<images, minted>>, uploads' \subseteq uploads,
         \A q \in Request : pc'[q] = "begin" => pc[q] = "begin" /\ local'[q] = local[q]
  PROVE  PlanDead(r)'
  BY DEF CInv, PlanDead, Dead, Retired, At

\* The delete was executed: the associations go with it.
LEMMA FinishedDead ==
  ASSUME IInv, IInv', JInv, NEW r \in Request, DeleteSucceeded(r)
  PROVE  PlanDead(r)'
<1> DEFINE d == local[r].plan
<1>1. /\ pc[r] = "await" /\ ~Outside(pc[r]) /\ pc'[r] = "flush" /\ lock' = lock
      /\ local' = local /\ minted' = minted /\ finish_delete({d})
      /\ d \in prepared_deletes /\ JournalTypeOK
  BY OwnerFacts
  DEF DeleteSucceeded, Answered, At, Outside, flushVars, Holds
<1>2. /\ d.faces \subseteq Face /\ d.keys = {images[f] : f \in d.faces} \ {None}
      /\ \A f \in Face : images[f] \in Key \cup {None}
  BY <1>1 DEF JInv, TablesOK, PlansExact, prepared_deletes, JournalTypeOK, DeleteRow
<1>3. /\ uploads' = uploads
      /\ \A f \in Face : images'[f] = IF f \in d.faces THEN None ELSE images[f]
  BY <1>1 DEF finish_delete
<1>4. \A q \in Request : pc'[q] # "begin"
  BY <1>1, Alone DEF Outside
<1>5. ASSUME NEW k \in d.keys PROVE Dead(k)'
  <2>1. PICK f \in d.faces : images[f] = k
    BY <1>2, <1>5
  <2>2. k # None /\ k \in Key /\ Retired(k) /\ \A g \in Face : images[g] = k => g = f
    BY <1>2, <1>5, <2>1 DEF JInv, TablesOK, ImagesApart
  <2>3. Retired(k)'
    BY <1>1, <1>3, <1>4, <2>2 DEF Retired, At
  <2>4. \A g \in Face : images'[g] # k
    BY <1>3, <2>1, <2>2
  <2> QED
    BY <2>3, <2>4 DEF Dead
<1> QED
  BY <1>1, <1>5 DEF PlanDead

\* The other ways to a flush have no plan.
LEMMA OwnerDead ==
  ASSUME IInv, IInv', JInv, CInv, NEW r \in Request, Recover(r) \/ Serve(r)
  PROVE  PlanDead(r)'
<1>1. CASE RecoverPlans(r) \/ Confirm(r)
  <2>1. local[r] \in Local /\ local[r].plan = None
    BY <1>1, OwnerFacts, Facts DEF RecoverPlans, Confirm, At, Promise
  <2>2. CASE local'[r].plan = local[r].plan
    BY <2>1, <2>2 DEF PlanDead
  <2>3. CASE local' = local
    BY <2>2, <2>3
  <2>4. ASSUME NEW e, Keep(r, e), DOMAIN e = DOMAIN local[r], e.plan = local[r].plan
        PROVE  PlanDead(r)'
    BY <2>2, <2>4, OwnerFacts
  <2>5. CASE RecoverPlans(r)
    <3> DEFINE e == [local[r] EXCEPT !.ids = FacesOf(Subject)]
    <3>1. local' = local \/ Keep(r, e)
      BY <2>5 DEF RecoverPlans
    <3>2. DOMAIN e = DOMAIN local[r] /\ e.plan = local[r].plan
      BY <2>1 DEF Local
    <3> QED
      BY <2>3, <2>4, <3>1, <3>2
  <2>6. CASE Confirm(r)
    <3> DEFINE u == local[r].unresolved \/ Confirmed(r) # prepared_deletes
               e == [local[r] EXCEPT !.ids = {}, !.unresolved = u]
    <3>1. Keep(r, e)
      BY <2>6 DEF Confirm
    <3> HIDE DEF u
    <3>2. DOMAIN e = DOMAIN local[r] /\ e.plan = local[r].plan
      BY <2>1 DEF Local
    <3> QED
      BY <2>4, <3>1, <3>2
  <2> QED
    BY <1>1, <2>5, <2>6
<1>2. CASE PutFails(r) \/ AddRejected(r)
  <2>1. local[r].plan = None
    BY <1>2, OwnerFacts, Facts DEF PutFails, AddRejected, Answered, At, Promise
  <2>2. local' = local \/ pc'[r] = "idle"
    BY <1>2, OwnerFacts DEF PutFails, AddRejected
  <2> QED
    BY <2>1, <2>2 DEF PlanDead, Flushing
<1>3. CASE DeleteSucceeded(r)
  BY <1>3, FinishedDead
<1>4. CASE RecoverMigration(r)
  BY <1>4 DEF RecoverMigration, At, PlanDead, Flushing
<1>5. CASE /\ Recover(r) \/ Serve(r)
           /\ ~RecoverPlans(r) /\ ~Confirm(r) /\ ~PutFails(r) /\ ~AddRejected(r)
           /\ ~DeleteSucceeded(r) /\ ~RecoverMigration(r)
  <2>1. ~Flushing(pc'[r])
    BY <1>5, OwnerFacts
    DEF Recover, Serve, RecoverSnapshot, SettleAdopt, SettlePending, SettleAmbiguous,
        SettleConflict, RecoverFails, Respond, ServeImage, BeginMigration, BeginAdd,
        PutSucceeds, PlanSubjects, AddSucceeded, DeleteRejected, RenameAnswered, Unanswered,
        OpenImage, AddFace, DeleteFaces, DeleteSubjects, Rename, Send, Flushing
  <2> QED
    BY <2>1 DEF PlanDead
<1> QED
  BY <1>1, <1>2, <1>3, <1>4, <1>5

LEMMA PlanDeadStep ==
  ASSUME IInv, IInv', JInv, CInv, [Next]_vars, NEW r \in Request
  PROVE  PlanDead(r)'
<1>1. CASE UNCHANGED vars
  BY <1>1, PlanDeadStays DEF vars, journalVars, gatewayVars
<1>2. ASSUME NEW q \in Request, Recover(q) \/ Serve(q) PROVE PlanDead(r)'
  <2>1. ~Outside(pc[q]) /\ lock' \in {lock, None}
    BY <1>2, OwnerFacts
    DEF Recover, RecoverMigration, RecoverSnapshot, RecoverPlans, SettleAdopt, SettlePending,
        SettleAmbiguous, SettleConflict, Confirm, RecoverFails,
        Serve, Respond, ServeImage, BeginMigration, BeginAdd, PutSucceeds, PutFails,
        PlanSubjects, AddSucceeded, AddRejected, DeleteSucceeded, DeleteRejected,
        RenameAnswered, Unanswered, OpenImage, AddFace, DeleteFaces, DeleteSubjects, Rename,
        Answered, At, Outside
  <2>2. CASE r # q
    BY <2>1, <2>2, Alone DEF PlanDead, Flushing, Outside
  <2> QED
    BY <1>2, <2>2, OwnerDead
<1>3. ASSUME NEW q \in Request, Arrive(q) \/ Acquire(q) PROVE PlanDead(r)'
  <2>1. /\ pc'[q] \in {"queued", "uploads"} /\ UNCHANGED <<images, uploads, minted>>
        /\ \A s \in Request \ {q} : pc'[s] = pc[s] /\ local'[s] = local[s]
    BY <1>3, OwnerFacts DEF Arrive, Acquire, GoTo, Keep, GatewayTypeOK, Task, flushVars, journalVars
  <2> QED
    BY <2>1, PlanDeadStays DEF Flushing
<1>4. CASE WorkerTick
  <2>1. /\ UNCHANGED <<images, uploads, minted>>
        /\ \A q \in Request : pc'[q] = pc[q] /\ local'[q] = local[q]
    BY <1>4, OwnerFacts, WorkerAssumption
    DEF WorkerTick, GoTo, flushVars, journalVars, GatewayTypeOK, Task
  <2> QED
    BY <2>1, PlanDeadStays
<1>5. ASSUME NEW t \in Task, Flush(t) PROVE PlanDead(r)'
  <2>1. UNCHANGED <<images, uploads, minted>> /\ Flushing(pc[t])
    BY <1>5 DEF Flush, FlushRead, FlushRow, FlushUnqueue, FlushFails, FlushEnds,
       flushVars, journalVars, Flushing
  <2>2. \A q \in Request : \/ pc'[q] = pc[q] /\ local'[q] = local[q]
                           \/ q = t /\ Flushing(pc'[q]) /\ local'[q] = local[q]
                           \/ q = t /\ pc'[q] \in {"idle", "dispatch"}
    BY <1>5, OwnerFacts
    DEF Flush, FlushRead, FlushRow, FlushUnqueue, FlushFails, FlushEnds, GoTo, Release,
        Keep, GatewayTypeOK, Task, Flushing
  <2>3. \A k \in Key : Dead(k) => Dead(k)'
    BY <2>1, <2>2 DEF Dead, Retired, At, Flushing
  <2>4. Flushing(pc'[r]) => Flushing(pc[r]) /\ local'[r] = local[r]
    BY <2>1, <2>2 DEF Flushing
  <2>5. local[r].plan # None => local[r].plan.keys \subseteq Key
    BY Facts, LocalFields DEF DeleteRow
  <2> QED
    BY <2>3, <2>4, <2>5 DEF CInv, PlanDead
<1>6. CASE Environment
  <2>1. CASE BackendStep
    <3>1. PICK c, x, f : c \in calls /\ Answer(c, x, f)
      BY <2>1 DEF BackendStep
    <3>2. UNCHANGED <<images, uploads, minted, pc>>
      BY <2>1, <3>1 DEF BackendStep, Answer, journalVars, flushVars
    <3>3. c.by # None => pc[c.by] = "await"
      BY <3>1 DEF JInv, TasksOK, CallsOwned, At
    <3>4. \A q \in Request : q # c.by => local'[q] = local[q]
      BY <3>1, OwnerFacts DEF Answer, GatewayTypeOK
    <3>5. \A q \in Request : q = c.by => pc[q] = "await"
      BY <3>3, NoneAssumption
    <3> QED
      BY <3>2, <3>4, <3>5, PlanDeadStays DEF Flushing
  <2>2. CASE Crash \/ Reconcile
    <3>1. pc'[r] = "idle"
      BY <2>2 DEF Crash, Reconcile, ReconcileUpload, ReconcileUndeleted, ReconcileDeleted, Quiet,
         gatewayVars, Task
    <3> QED
      BY <3>1 DEF PlanDead, Flushing
  <2>3. CASE StoreStep \/ (\E f \in Face, s \in Subject : BypassAdd(f, s))
                       \/ \E F \in SUBSET Face : BypassDelete(F)
    <3>1. UNCHANGED <<images, uploads, minted, pc, local>>
      BY <2>3 DEF StoreStep, BypassAdd, BypassDelete, journalVars, gatewayVars
    <3> QED
      BY <3>1, PlanDeadStays
  <2> QED
    BY <1>6, <2>1, <2>2, <2>3 DEF Environment
<1> QED
  BY <1>1, <1>2, <1>3, <1>4, <1>5, <1>6 DEF Next

\* "completed" is answered only when the objects of the delete are gone: the
\* outbox is empty, so what is still stored is in use, and these are not
\* (app.py:217-225).
THEOREM CompletedErased ==
  ASSUME "put" \notin Late
  PROVE  Spec => []CompletedMeansErased
<1>1. Init => CInv
  BY DEF Init, Task, CInv, PlanDead, Flushing
<1>2. IInv /\ IInv' /\ JInv /\ CInv /\ [Next]_vars => CInv'
  BY PlanDeadStep DEF CInv
<1>3. IInv /\ JInv /\ CInv => CompletedMeansErased
  <2> SUFFICES ASSUME IInv, JInv, CInv, NEW r \in Request, At(r, "drain"),
                      local[r].plan # None, deletes = {}, NEW k \in local[r].plan.keys
               PROVE  store[k] = None
      BY DEF CompletedMeansErased
  <2>1. Dead(k) /\ k \in Key
    BY Facts, LocalFields DEF CInv, PlanDead, Flushing, At, DeleteRow
  <2> QED
    BY <2>1 DEF Dead, Retired, JInv, TablesOK, NoOrphan
<1> QED
  BY <1>1, <1>2, <1>3, Inductive, ObjectsTracked, PTL DEF Spec

\* No object belongs to two faces or is deleted while it belongs to one,
\* whoever writes behind the gateway's back and whatever commits late: a key is
\* issued once, and leaves "images" in the transaction that readies its row
\* (app.py:192, journal.py:85-94).
THEOREM ObjectsOwned ==
  ASSUME "put" \notin Late
  PROVE  Spec => []RowsOwnObjects
<1>1. IInv /\ JInv => RowsOwnObjects
  <2> SUFFICES ASSUME IInv, JInv, NEW f \in Face, images[f] # None
               PROVE  /\ \A g \in Face : images[g] = images[f] => g = f
                      /\ \A d \in ready_deletes : images[f] \notin d.keys
      BY DEF RowsOwnObjects
  <2>1. \A g \in Face : images[g] = images[f] => g = f
    BY DEF JInv, TablesOK, ImagesApart
  <2>2. \A d \in ready_deletes : d \in Outgoing
    BY DEF IInv, TypeInv, TypeOK, Outgoing, ready_deletes, JournalTypeOK
  <2>3. \A d \in ready_deletes : images[f] \notin d.keys
    BY <2>2 DEF JInv, TablesOK, OutgoingApart
  <2> QED
    BY <2>1, <2>3
<1> QED
  BY <1>1, Inductive, ObjectsTracked, PTL DEF Spec
=============================================================================
