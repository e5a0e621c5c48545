--------------------------- MODULE Originals_proofs --------------------------
(***************************************************************************)
(* The originals: an association leads to its face's own picture, no       *)
(* registered original is lost, and a read finds it, for any number of     *)
(* requests, faces, keys and crashes, with adds and deletes that commit    *)
(* late and deletes that bypass the gateway.  Without the latter no        *)
(* association outlives its face unseen.                                   *)
(*                                                                         *)
(* What has to be known besides OssGateway_proofs is where the picture of  *)
(* an upload may be: with no face before its call was sent, with one face  *)
(* after it was executed, and then that face is the one new face of the    *)
(* subject.  A rename that commits late breaks this (run gateway_rename),  *)
(* and so does a registration that bypasses the gateway.                   *)
(*                                                                         *)
(* For the associations of deleted faces it has to be known of each delete *)
(* in flight that its plan is in the journal, or that the delete is spent  *)
(* because all it could reach is gone.                                     *)
(*                                                                         *)
(* Together they give the refinement of Archive: every step of the gateway *)
(* moves at most the keys it settles, and keys that were never stored or   *)
(* no longer are come back in no step.                                     *)
(***************************************************************************)
EXTENDS OssGateway_proofs

\* No face was registered with picture k.
Unused(k) == \A f \in Face : picture[f] # k

NoAdds == \A c \in calls : c.op # "add"

FacesOK ==
  /\ \A f \in Face : subject[f] # None => picture[f] # None
  /\ \A f, g \in Face : picture[f] \in Key /\ picture[f] = picture[g] => f = g
  /\ \A k \in Key \ minted : Unused(k)

\* The original of a registered face is associated, or will be by its intent.
Covered ==
  \A f \in Face : subject[f] # None /\ picture[f] \in Key =>
    \/ images[f] = picture[f]
    \/ \E u \in uploads : u.key = picture[f]

\* Whoever has the picture of u is new in its subject, and nobody else is.
OnlyNew(u) ==
  /\ u.previous \subseteq issued
  /\ \A f \in Face :
       /\ picture[f] = u.key => /\ store[u.key] = u.key
                                /\ f \notin u.previous
                                /\ subject[f] \in {None, u.subject}
       /\ subject[f] = u.subject => f \in u.previous \/ picture[f] = u.key

Intents ==
  \A u \in uploads : IF u.subject = None THEN Unused(u.key) ELSE OnlyNew(u)

\* Associations and plans are about faces there are or were.
RowsIssued ==
  /\ \A f \in Face : images[f] # None => picture[f] # None
  /\ \A d \in prepared_deletes : d.faces \subseteq issued

\* A registration in flight belongs to the intent, and has its object stored.
AddsIntended ==
  /\ \A c \in calls : c.op = "add" =>
       \E u \in uploads : /\ u.key = c.key /\ u.subject = c.to /\ u.subject # None
                          /\ store[u.key] = u.key /\ Unused(u.key)
  /\ \A c, d \in calls : c.op = "add" /\ d.op = "add" => c = d

RenamesOwned == \A c \in calls : c.op = "rename" => c.by # None /\ c.ids = {} /\ c.to # None

\* An awaited delete reaches every face of its plan that is still registered.
DeletesAim ==
  \A c \in calls : c.by # None /\ local[c.by].plan # None =>
    /\ c.op = "delete"
    /\ \A f \in local[c.by].plan.faces : subject[f] = None \/ f \in Targets(c)

\* The picture a put of the handler stores.
Original(l) == IF l.upload.subject = None THEN picture[l.face] ELSE l.upload.key

BeginKnows(l) ==
  /\ Unused(l.upload.key)
  /\ l.upload.previous \subseteq issued
  /\ \A f \in Face : subject[f] = l.upload.subject => f \in l.upload.previous

PutKnows(l) ==
  /\ Unused(l.upload.key) /\ NoAdds /\ Original(l) # None
  /\ \A p \in puts : p.picture = Original(l)
  /\ puts = {} => store[l.upload.key] = Original(l)

AwaitKnows(l) ==
  /\ l.upload # None /\ l.reply = "ok" => picture[l.face] = l.upload.key
  /\ l.upload # None /\ l.reply = "rejected" => Unused(l.upload.key) /\ NoAdds
  /\ l.plan # None /\ l.reply = "ok" => \A f \in l.plan.faces : subject[f] = None

\* What a handler with variables l concludes at p from what it has read.
Knows(p, l) ==
  /\ p = "settle" => \A f \in l.ids \ l.upload.previous : picture[f] = l.upload.key
  /\ p = "confirm" => \A d \in prepared_deletes : \A f \in d.faces \ l.ids : subject[f] = None
  /\ p = "plan" => l.ids \subseteq issued /\ \A f \in l.ids : subject[f] \in {None} \cup l.from
  /\ p = "begin" => BeginKnows(l)
  /\ p = "put" => PutKnows(l)
  /\ p = "await" => AwaitKnows(l)
  /\ p = "get" => l.face \in Face /\ l.key # None /\ images[l.face] = l.key

HandlerKnows(r) == Knows(pc[r], local[r])

RowsOK == PicturesMatch /\ Covered /\ Intents /\ RowsIssued
CallsOK == AddsIntended /\ RenamesOwned /\ DeletesAim

OInv == FacesOK /\ RowsOK /\ CallsOK /\ \A r \in Request : HandlerKnows(r)

-----------------------------------------------------------------------------
(* The faces and the journal's rows.                                       *)

\* A step of the gateway or the store: faces are as before.
LEMMA FacesSame ==
  ASSUME FacesOK, UNCHANGED <<subject, picture>>, minted \subseteq minted'
  PROVE  FacesOK'
  BY DEF FacesOK, Unused

LEMMA RowsSame ==
  ASSUME RowsOK, UNCHANGED <<subject, picture, images, uploads, deletes, store>>
  PROVE  RowsOK'
  BY DEF RowsOK, PicturesMatch, Covered, Intents, RowsIssued, Unused, OnlyNew, issued,
         prepared_deletes

\* An intent of which no registered face has the picture may go.
LEMMA RowsDiscard ==
  ASSUME RowsOK, NEW u, discard_upload(u), UNCHANGED <<subject, picture, store>>,
         \A f \in Face : picture[f] = u.key => subject[f] = None
  PROVE  RowsOK'
<1>1. /\ images' = images /\ uploads' = uploads \ {u}
      /\ prepared_deletes' = prepared_deletes
  BY DEF discard_upload, prepared_deletes
<1>2. PicturesMatch' /\ RowsIssued' /\ Covered'
  BY <1>1 DEF RowsOK, PicturesMatch, RowsIssued, Covered, issued
<1>3. Intents'
  BY <1>1 DEF RowsOK, Intents, Unused, OnlyNew, issued
<1> QED
  BY <1>2, <1>3 DEF RowsOK

\* An intent becomes the association of the one face that has its picture, or
\* of the face whose image was migrated.
LEMMA RowsComplete ==
  ASSUME TypeOK, OneIntent, RowsOK, NEW u \in uploads, NEW f \in Face, complete_upload(u, f),
         UNCHANGED <<subject, picture, store>>,
         store[u.key] = picture[f], picture[f] # None,
         \A g \in Face : picture[g] = u.key => g = f
  PROVE  RowsOK'
<1>1. /\ uploads' = {} /\ uploads = {u} /\ prepared_deletes' = prepared_deletes
      /\ images[f] = None /\ images' = [images EXCEPT ![f] = u.key]
      /\ images \in [Face -> Key \cup {None}]
  BY DEF complete_upload, prepared_deletes, OneIntent, TypeOK, JournalTypeOK
<1>2. PicturesMatch' /\ RowsIssued' /\ Covered'
  BY <1>1 DEF RowsOK, PicturesMatch, RowsIssued, Covered, issued
<1>3. Intents'
  BY <1>1 DEF Intents
<1> QED
  BY <1>2, <1>3 DEF RowsOK

\* Faces that are not registered lose their associations.
LEMMA RowsLess ==
  ASSUME TypeOK, RowsOK, UNCHANGED <<subject, picture, store, uploads>>,
         prepared_deletes' \subseteq prepared_deletes,
         \A f \in Face : images'[f] = images[f] \/ (images'[f] = None /\ subject[f] = None)
  PROVE  RowsOK'
<1>1. PicturesMatch' /\ RowsIssued' /\ Covered'
  BY DEF RowsOK, PicturesMatch, RowsIssued, Covered, issued
<1>2. Intents'
  BY DEF RowsOK, Intents, Unused, OnlyNew, issued
<1> QED
  BY <1>1, <1>2 DEF RowsOK

LEMMA RowsFinish ==
  ASSUME TypeOK, RowsOK, NEW D \in SUBSET prepared_deletes, finish_delete(D),
         UNCHANGED <<subject, picture, store>>,
         \A d \in D : \A f \in d.faces : subject[f] = None
  PROVE  RowsOK'
<1>1. \A d \in D : [d EXCEPT !.ready = TRUE].ready
  BY DEF prepared_deletes, TypeOK, JournalTypeOK, DeleteRow
<1>2. prepared_deletes' \subseteq prepared_deletes
  BY <1>1 DEF finish_delete, prepared_deletes
<1> QED
  BY <1>2, RowsLess DEF finish_delete

\* A plan is added to the outbox.
LEMMA RowsPlan ==
  ASSUME RowsOK, NEW F \in SUBSET issued, plan_delete(F), UNCHANGED <<subject, picture, store>>
  PROVE  RowsOK'
<1>1. /\ images' = images /\ uploads' = uploads
      /\ \A d \in prepared_deletes' : d \in prepared_deletes \/ d.faces = F
  BY DEF plan_delete, prepared_deletes, DeletePlan
<1>2. PicturesMatch' /\ RowsIssued' /\ Covered'
  BY <1>1 DEF RowsOK, PicturesMatch, RowsIssued, Covered, issued
<1>3. Intents'
  BY <1>1 DEF RowsOK, Intents, Unused, OnlyNew, issued
<1> QED
  BY <1>2, <1>3 DEF RowsOK

\* An intent is added of which no face has the picture yet.
LEMMA RowsBegin ==
  ASSUME RowsOK, NEW u, uploads' = uploads \cup {u}, UNCHANGED <<images, deletes>>,
         UNCHANGED <<subject, picture, store>>, Unused(u.key), u.subject # None => OnlyNew(u)
  PROVE  RowsOK'
<1>1. PicturesMatch' /\ RowsIssued' /\ Covered'
  BY DEF RowsOK, PicturesMatch, RowsIssued, Covered, issued, prepared_deletes
<1>2. Intents'
  BY DEF RowsOK, Intents, Unused, OnlyNew, issued
<1> QED
  BY <1>1, <1>2 DEF RowsOK

\* The store changes at keys that are retired, or that no picture has.
LEMMA RowsStore ==
  ASSUME RowsOK, UNCHANGED <<subject, picture, images, uploads>>,
         prepared_deletes' \subseteq prepared_deletes,
         \A f \in Face : images[f] # None => store'[images[f]] = store[images[f]],
         \A u \in uploads : store'[u.key] = store[u.key] \/ Unused(u.key)
  PROVE  RowsOK'
<1>1. PicturesMatch' /\ RowsIssued' /\ Covered'
  BY DEF RowsOK, PicturesMatch, RowsIssued, Covered, issued
<1>2. Intents'
  BY DEF RowsOK, Intents, Unused, OnlyNew, issued
<1> QED
  BY <1>1, <1>2 DEF RowsOK

-----------------------------------------------------------------------------
(* Calls and handlers.                                                     *)

\* The owner of the lock is not waiting for an answer: nobody is.
LEMMA NobodyWaits ==
  ASSUME IInv, JInv, OInv, NEW r \in Request, ~Outside(pc[r]),
         pc[r] # "await" \/ local[r].reply # "none"
  PROVE  \A c \in calls : c.by = None /\ c.op # "rename"
  BY OwnCalls DEF JInv, OInv, CallsOK, RenamesOwned

LEMMA AddsSame ==
  ASSUME AddsIntended, calls' = calls, picture' = picture,
         \A u \in uploads : u.subject # None => u \in uploads' /\ store'[u.key] = store[u.key]
  PROVE  AddsIntended'
<1>1. ASSUME NEW c \in calls, c.op = "add"
      PROVE  \E u \in uploads' : /\ u.key = c.key /\ u.subject = c.to /\ u.subject # None
                                 /\ store'[u.key] = u.key /\ Unused(u.key)'
  <2>1. PICK u \in uploads : /\ u.key = c.key /\ u.subject = c.to /\ u.subject # None
                             /\ store[u.key] = u.key /\ Unused(u.key)
    BY <1>1 DEF AddsIntended
  <2> QED
    BY <2>1 DEF Unused
<1> QED
  BY <1>1 DEF AddsIntended

\* No registration is in flight, so there is none for the intents to explain.
LEMMA AddsNone ==
  ASSUME NoAdds, calls' = calls
  PROVE  AddsIntended' /\ NoAdds'
  BY DEF AddsIntended, NoAdds

LEMMA CallsSame ==
  ASSUME IInv, JInv, OInv, NEW r \in Request, ~Outside(pc[r]),
         pc[r] # "await" \/ local[r].reply # "none",
         calls' = calls, AddsIntended'
  PROVE  CallsOK'
  BY NobodyWaits DEF CallsOK, RenamesOwned, DeletesAim

\* The owner sends the call c, which is no registration.
LEMMA CallsSend ==
  ASSUME IInv, JInv, OInv, NEW r \in Request, ~Outside(pc[r]), pc[r] # "await",
         NEW c, calls' = calls \cup {c}, c.by = r, AddsIntended',
         c.op = "rename" => c.ids = {} /\ c.to # None,
         local'[r].plan # None =>
           /\ c.op = "delete"
           /\ \A f \in local'[r].plan.faces : subject'[f] = None \/ f \in Targets(c)'
  PROVE  CallsOK'
<1>1. \A d \in calls' : d = c \/ (d.by = None /\ d.op # "rename")
  BY NobodyWaits
<1>2. RenamesOwned' /\ DeletesAim'
  BY <1>1, NoneAssumption DEF RenamesOwned, DeletesAim
<1> QED
  BY <1>2 DEF CallsOK

\* Calls nobody waits for any more.
LEMMA CallsAbandon ==
  ASSUME CallsOK, CallsOwned', "rename" \notin Late, UNCHANGED <<subject, picture, uploads, store>>,
         NEW M \in SUBSET calls, calls' = (calls \ M) \cup Abandoned(M), calls \subseteq Call,
         \A c \in calls \ M : c.by # None => local'[c.by] = local[c.by]
  PROVE  CallsOK'
<1>1. ASSUME NEW c \in calls'
      PROVE  \/ c \in calls \ M
             \/ \E x \in M : /\ c = [x EXCEPT !.by = None] /\ c.by = None
                             /\ c.op = x.op /\ c.key = x.key /\ c.to = x.to /\ x.op # "rename"
  BY <1>1 DEF Abandoned, Call
<1>2. RenamesOwned'
  BY <1>1 DEF CallsOK, RenamesOwned
<1>3. DeletesAim'
  BY <1>1 DEF CallsOK, DeletesAim, Targets, FacesOf
<1>4. ASSUME NEW c \in calls', c.op = "add"
      PROVE  \E u \in uploads' : /\ u.key = c.key /\ u.subject = c.to /\ u.subject # None
                                 /\ store'[u.key] = u.key /\ Unused(u.key)'
  <2>1. PICK x \in calls : x.op = "add" /\ c.key = x.key /\ c.to = x.to
    BY <1>1, <1>4
  <2>2. PICK u \in uploads : /\ u.key = x.key /\ u.subject = x.to /\ u.subject # None
                             /\ store[u.key] = u.key /\ Unused(u.key)
    BY <2>1 DEF CallsOK, AddsIntended
  <2> QED
    BY <2>1, <2>2 DEF Unused
<1>5. ASSUME NEW c \in calls', NEW d \in calls', c.op = "add", d.op = "add" PROVE c = d
  BY <1>1, <1>5 DEF CallsOK, AddsIntended
<1> QED
  BY <1>2, <1>3, <1>4, <1>5 DEF CallsOK, AddsIntended

\* Only the owner of the lock knows anything.
LEMMA OthersKnow ==
  ASSUME IInv, IInv', NEW r \in Request, ~Outside(pc[r]), lock' \in {lock, None}
  PROVE  \A q \in Request \ {r} : HandlerKnows(q)'
  BY Alone DEF HandlerKnows, Knows, Outside

LEMMA OwnerStep ==
  ASSUME IInv, IInv', OInv, NEW r \in Request, ~Outside(pc[r]), lock' \in {lock, None},
         UNCHANGED <<subject, picture>>, minted \subseteq minted',
         RowsOK', CallsOK', HandlerKnows(r)'
  PROVE  OInv'
  BY OthersKnow, FacesSame DEF OInv

\* A point at which a handler relies on none of this.
LEMMA NothingKnown ==
  ASSUME NEW r \in Request, pc'[r] \notin {"settle", "confirm", "plan", "begin", "put", "await", "get"}
  PROVE  HandlerKnows(r)'
  BY DEF HandlerKnows, Knows

\* A step of an owner that reads, but writes to no table, store or backend.
LEMMA CalmOriginals ==
  ASSUME IInv, IInv', JInv, OInv, NEW r \in Request, ~Outside(pc[r]), lock' \in {lock, None},
         pc[r] # "await" \/ local[r].reply # "none",
         UNCHANGED <<subject, picture, calls, store, images, uploads, deletes>>,
         minted \subseteq minted', HandlerKnows(r)'
  PROVE  OInv'
<1>1. RowsOK'
  BY RowsSame DEF OInv
<1>2. AddsIntended'
  BY AddsSame DEF OInv, CallsOK
<1> QED
  BY <1>1, <1>2, CallsSame, OwnerStep

-----------------------------------------------------------------------------
(* recover().                                                              *)

\* The owner drops the upload of an intent that no registered face needs.
LEMMA DiscardOriginals ==
  ASSUME IInv, IInv', JInv, OInv, NEW r \in Request, ~Outside(pc[r]), lock' \in {lock, None},
         pc[r] # "await" \/ local[r].reply # "none",
         UNCHANGED <<subject, picture, calls, store, minted>>,
         NEW u \in uploads, discard_upload(u), NoAdds,
         \A f \in Face : picture[f] = u.key => subject[f] = None, HandlerKnows(r)'
  PROVE  OInv'
<1>1. RowsOK'
  BY RowsDiscard DEF OInv
<1>2. CallsOK'
  BY AddsNone, CallsSame
<1> QED
  BY <1>1, <1>2, OwnerStep

\* The owner associates the face f with the upload of an intent.
LEMMA CompleteOriginals ==
  ASSUME IInv, IInv', JInv, OInv, NEW r \in Request, ~Outside(pc[r]), lock' \in {lock, None},
         pc[r] # "await" \/ local[r].reply # "none",
         UNCHANGED <<subject, picture, calls, store, minted>>,
         NEW u \in uploads, NEW f \in Face, complete_upload(u, f), NoAdds,
         store[u.key] = picture[f], picture[f] # None,
         \A g \in Face : picture[g] = u.key => g = f, HandlerKnows(r)'
  PROVE  OInv'
<1>1. RowsOK'
  BY RowsComplete DEF OInv, IInv, TypeInv
<1>2. CallsOK'
  BY AddsNone, CallsSame
<1> QED
  BY <1>1, <1>2, OwnerStep

\* The face that has the picture of the intent is the only one, and the call
\* that registered it was the last.
LEMMA Registered ==
  ASSUME IInv, OInv, NEW u \in uploads, NEW f \in Face, picture[f] = u.key
  PROVE  /\ NoAdds /\ store[u.key] = picture[f] /\ picture[f] # None
         /\ \A g \in Face : picture[g] = u.key => g = f
<1>1. u.key \in Key /\ \A v \in uploads : v = u
  BY DEF IInv, OneIntent, TypeInv, TypeOK, JournalTypeOK, UploadRow
<1>2. OnlyNew(u)
  BY DEF OInv, RowsOK, Intents, Unused
<1>3. NoAdds
  BY <1>1 DEF OInv, CallsOK, AddsIntended, NoAdds, Unused
<1> QED
  BY <1>1, <1>2, <1>3, NoneAssumption DEF OnlyNew, OInv, FacesOK

\* With a migration or nothing in the table there is no registration.
LEMMA NoAddsInTable ==
  ASSUME OInv, \A u \in uploads : u.subject = None
  PROVE  NoAdds
  BY DEF OInv, CallsOK, AddsIntended, NoAdds

LEMMA RecoverOriginals ==
  ASSUME IInv, IInv', JInv, OInv, NEW r \in Request, Recover(r)
  PROVE  OInv'
<1> DEFINE l == local[r]
<1>1. /\ pc[r] \in {"uploads", "settle", "confirm"} /\ ~Outside(pc[r]) /\ pc[r] # "await"
      /\ UNCHANGED <<subject, picture, calls, store, minted>>
  BY DEF Recover, RecoverMigration, RecoverSnapshot, RecoverPlans, SettleAdopt,
         SettlePending, SettleAmbiguous, SettleConflict, Confirm, RecoverFails,
         At, Outside, backendVars, storeVars, flushVars
<1>2. /\ l \in Local /\ Holds(pc[r], l, uploads, prepared_deletes) /\ Knows(pc[r], l)
      /\ OneIntent /\ TypeOK /\ RowsOK
  BY OwnerFacts DEF OInv, HandlerKnows, IInv, TypeInv
<1>3. CASE RecoverMigration(r)
  <2>1. PICK u \in l.todo : u.subject = None /\ discard_upload(u)
    BY <1>3 DEF RecoverMigration
  <2>2. u \in uploads /\ pc' = pc /\ lock' = lock /\ pc[r] = "uploads"
    BY <1>2, <1>3 DEF RecoverMigration, Holds, At
  <2>3. Unused(u.key) /\ NoAdds
    BY <1>2, <2>1, <2>2, NoAddsInTable DEF RowsOK, Intents, OneIntent
  <2> QED
    BY <1>1, <2>1, <2>2, <2>3, NothingKnown, DiscardOriginals DEF Unused
<1>4. CASE RecoverSnapshot(r)
  <2>1. PICK u \in l.todo :
          /\ u.subject # None
          /\ Keep(r, [l EXCEPT !.todo = l.todo \ {u}, !.upload = u, !.ids = FacesOf({u.subject})])
    BY <1>4 DEF RecoverSnapshot
  <2>2. /\ pc[r] = "uploads" /\ pc'[r] = "settle" /\ lock' = lock
        /\ UNCHANGED <<images, uploads, deletes>>
    BY <1>4, OwnerFacts DEF RecoverSnapshot, At, journalVars
  <2>3. local'[r] = [l EXCEPT !.todo = l.todo \ {u}, !.upload = u, !.ids = FacesOf({u.subject})]
    BY <2>1, OwnerFacts
  <2>4. u \in uploads
    BY <1>2, <2>2 DEF Holds
  <2>5. \A f \in FacesOf({u.subject}) \ u.previous : picture[f] = u.key
    BY <1>2, <2>1, <2>4 DEF RowsOK, Intents, OnlyNew, FacesOf
  <2>6. local'[r].upload = u /\ local'[r].ids = FacesOf({u.subject})
    BY <1>2, <2>3 DEF Local
  <2>7. HandlerKnows(r)'
    BY <1>1, <2>2, <2>5, <2>6 DEF HandlerKnows, Knows
  <2> QED
    BY <1>1, <2>2, <2>7, CalmOriginals
<1>5. CASE SettleAdopt(r)
  <2>1. PICK f \in Added(r) : complete_upload(l.upload, f)
    BY <1>5 DEF SettleAdopt
  <2>2. pc[r] = "settle" /\ pc'[r] = "uploads" /\ lock' = lock
    BY <1>5, OwnerFacts DEF SettleAdopt, At
  <2>3. l.upload \in uploads /\ f \in Face /\ picture[f] = l.upload.key
    BY <1>2, <2>2, Facts, LocalFields DEF Holds, Promise, Added, Knows
  <2> QED
    BY <1>1, <2>1, <2>2, <2>3, Registered, NothingKnown, CompleteOriginals
<1>6. CASE SettlePending(r)
  <2>1. /\ pc'[r] = "uploads" /\ lock' = lock /\ UNCHANGED <<images, uploads, deletes>>
    BY <1>6, OwnerFacts DEF SettlePending, journalVars
  <2> QED
    BY <1>1, <2>1, NothingKnown, CalmOriginals
<1>7. CASE SettleAmbiguous(r) \/ SettleConflict(r) \/ RecoverFails(r)
  <2>1. /\ pc'[r] = "idle" /\ lock' = None /\ UNCHANGED <<images, uploads, deletes>>
    BY <1>7, OwnerFacts DEF SettleAmbiguous, SettleConflict, RecoverFails, journalVars
  <2> QED
    BY <1>1, <2>1, NothingKnown, CalmOriginals
<1>8. CASE RecoverPlans(r)
  <2>1. /\ lock' = lock /\ UNCHANGED <<images, uploads, deletes>>
        /\ \/ pc'[r] = "flush"
           \/ pc'[r] = "confirm" /\ local'[r].ids = FacesOf(Subject)
    BY <1>2, <1>8, OwnerFacts DEF RecoverPlans, journalVars, Local
  <2>2. \A d \in prepared_deletes' : \A f \in d.faces \ FacesOf(Subject) : subject'[f] = None
    BY <1>1, <1>2, <2>1
    DEF prepared_deletes, TypeOK, JournalTypeOK, BackendTypeOK, DeleteRow, FacesOf
  <2>3. HandlerKnows(r)'
    BY <1>1, <2>1, <2>2 DEF HandlerKnows, Knows
  <2> QED
    BY <1>1, <2>1, <2>3, CalmOriginals
<1>9. CASE Confirm(r)
  <2>1. /\ finish_delete(Confirmed(r)) /\ Confirmed(r) \in SUBSET prepared_deletes
        /\ pc[r] = "confirm" /\ pc'[r] = "flush" /\ lock' = lock
    BY <1>9, OwnerFacts DEF Confirm, Confirmed, At
  <2>2. \A d \in Confirmed(r) : \A f \in d.faces : subject[f] = None
    BY <1>2, <2>1 DEF Knows, Confirmed
  <2>3. RowsOK'
    BY <1>1, <1>2, <2>1, <2>2, RowsFinish
  <2>4. AddsIntended'
    BY <1>1, <2>1, AddsSame DEF finish_delete, OInv, CallsOK
  <2> QED
    BY <1>1, <2>1, <2>3, <2>4, CallsSame, NothingKnown, OwnerStep
<1> QED
  BY <1>3, <1>4, <1>5, <1>6, <1>7, <1>8, <1>9 DEF Recover

-----------------------------------------------------------------------------
(* Arrival, the lock, and flushes.                                         *)

\* A step of another task: what a handler waits for, and what it has read.
LEMMA KnowsKept ==
  ASSUME NEW q \in Request, HandlerKnows(q), pc'[q] = pc[q], local'[q] = local[q],
         UNCHANGED <<subject, picture, images, calls, puts>>,
         prepared_deletes' \subseteq prepared_deletes,
         pc[q] = "put" => store'[local[q].upload.key] = store[local[q].upload.key]
  PROVE  HandlerKnows(q)'
  BY DEF HandlerKnows, Knows, BeginKnows, PutKnows, AwaitKnows, Unused, NoAdds, Original, issued

LEMMA CallsKept ==
  ASSUME JInv, CallsOK, UNCHANGED <<subject, picture, calls>>, AddsIntended',
         \A q \in Request : pc[q] = "await" => local'[q] = local[q], calls \subseteq Call
  PROVE  CallsOK'
<1>1. \A c \in calls : c.by # None => local'[c.by] = local[c.by]
  BY DEF Call, JInv, TasksOK, CallsOwned, At
<1> QED
  BY <1>1 DEF CallsOK, RenamesOwned, DeletesAim, Targets, FacesOf

LEMMA ArriveOriginals ==
  ASSUME IInv, JInv, OInv, NEW r \in Request, Arrive(r) \/ Acquire(r)
  PROVE  OInv'
<1>1. /\ pc[r] \in {"idle", "queued"} /\ pc'[r] \in {"queued", "uploads"}
      /\ UNCHANGED <<subject, picture, calls, images, uploads, deletes, store, puts, minted>>
      /\ \A q \in Request \ {r} : pc'[q] = pc[q] /\ local'[q] = local[q]
  BY OwnerFacts DEF Arrive, Acquire, GoTo, Keep, GatewayTypeOK, Task, flushVars,
     backendVars, storeVars, journalVars
<1>2. \A q \in Request : HandlerKnows(q)'
  BY <1>1, NothingKnown, KnowsKept DEF OInv, prepared_deletes
<1>3. AddsIntended'
  BY <1>1, AddsSame DEF OInv, CallsOK
<1>4. CallsOK'
  BY <1>1, <1>3, CallsKept DEF OInv, IInv, TypeInv, TypeOK, BackendTypeOK
<1> QED
  BY <1>1, <1>2, <1>4, FacesSame, RowsSame DEF OInv

LEMMA WorkerOriginals ==
  ASSUME IInv, JInv, OInv, WorkerTick
  PROVE  OInv'
<1>1. /\ UNCHANGED <<subject, picture, calls, images, uploads, deletes, store, puts, minted>>
      /\ \A q \in Request : pc'[q] = pc[q] /\ local'[q] = local[q]
  BY WorkerAssumption
  DEF WorkerTick, GoTo, flushVars, backendVars, storeVars, journalVars,
      IInv, TypeInv, TypeOK, GatewayTypeOK, Task
<1>2. \A q \in Request : HandlerKnows(q)'
  BY <1>1, KnowsKept DEF OInv, prepared_deletes
<1>3. AddsIntended'
  BY <1>1, AddsSame DEF OInv, CallsOK
<1>4. CallsOK'
  BY <1>1, <1>3, CallsKept DEF OInv, IInv, TypeInv, TypeOK, BackendTypeOK
<1> QED
  BY <1>1, <1>2, <1>4, FacesSame, RowsSame DEF OInv

\* A flush erases retired objects only, and none of an association.
LEMMA FlushErases ==
  ASSUME IInv, JInv, NEW t \in Task, Flush(t), NEW k \in Key, store'[k] # store[k]
  PROVE  Retired(k) /\ \A f \in Face : images[f] # k
<1>1. PICK d \in rows[t] : \E K \in SUBSET d.keys : DeleteObjects(K)
  BY DEF Flush, FlushRead, FlushRow, FlushUnqueue, FlushFails, FlushEnds, storeVars
<1>2. k \in d.keys
  BY <1>1 DEF DeleteObjects, IInv, TypeInv, TypeOK, StoreTypeOK
<1>3. d \in Outgoing
  BY <1>1 DEF Outgoing, IInv, TypeInv, TypeOK, GatewayTypeOK
<1> QED
  BY <1>2, <1>3 DEF JInv, TablesOK, OutgoingApart

LEMMA FlushOriginals ==
  ASSUME IInv, JInv, OInv, NEW t \in Task, Flush(t)
  PROVE  OInv'
<1>1. /\ UNCHANGED <<subject, picture, calls, images, uploads, puts, minted>>
      /\ pc[t] \in {"flush", "drain", "unqueue"}
      /\ deletes' \subseteq deletes
  BY DEF Flush, FlushRead, FlushRow, FlushUnqueue, FlushFails, FlushEnds, DeleteObjects,
         flushVars, backendVars, storeVars, journalVars
<1>2. ASSUME NEW q \in Request
      PROVE  \/ pc'[q] = pc[q] /\ local'[q] = local[q]
             \/ q = t /\ pc'[q] \in {"flush", "drain", "unqueue", "dispatch", "idle"}
  BY OwnerFacts
  DEF Flush, FlushRead, FlushRow, FlushUnqueue, FlushFails, FlushEnds, GoTo, Release,
      Keep, GatewayTypeOK, Task
<1>3. prepared_deletes' \subseteq prepared_deletes
  BY <1>1 DEF prepared_deletes
<1>4. /\ \A f \in Face : images[f] # None => store'[images[f]] = store[images[f]]
      /\ \A u \in uploads : store'[u.key] = store[u.key]
  <2>1. /\ \A f \in Face : images[f] # None => images[f] \in Key
        /\ \A u \in uploads : u.key \in Key /\ ~Retired(u.key)
    BY DEF Retired, IInv, TypeInv, TypeOK, JournalTypeOK, UploadRow
  <2> QED
    BY <2>1, FlushErases
<1>5. ASSUME NEW q \in Request PROVE HandlerKnows(q)'
  <2>1. CASE q = t /\ pc'[q] \in {"flush", "drain", "unqueue", "dispatch", "idle"}
    BY <2>1, NothingKnown
  <2>2. CASE pc'[q] = pc[q] /\ local'[q] = local[q]
    <3>1. pc[q] = "put" => local[q].upload \in uploads
      BY OwnerFacts, Facts DEF Holds, Promise
    <3> QED
      BY <1>1, <1>3, <1>4, <2>2, <3>1, KnowsKept DEF OInv
  <2> QED BY <1>2, <2>1, <2>2
<1>6. AddsIntended'
  BY <1>1, <1>4, AddsSame DEF OInv, CallsOK
<1>7. CallsOK'
  BY <1>1, <1>2, <1>6, CallsKept DEF OInv, IInv, TypeInv, TypeOK, BackendTypeOK
<1> QED
  BY <1>1, <1>3, <1>4, <1>5, <1>7, FacesSame, RowsStore DEF OInv

-----------------------------------------------------------------------------
(* Serving a request.                                                      *)

\* Steps after which nothing has changed but where the handler is.
LEMMA ReadOriginals ==
  ASSUME IInv, IInv', JInv, OInv, NEW r \in Request,
         \/ Respond(r) \/ ServeImage(r) \/ RenameAnswered(r)
         \/ \E f \in Face : OpenImage(r, f)
         \/ \E S \in SUBSET Subject : DeleteSubjects(r, S)
  PROVE  OInv'
<1> DEFINE l == local[r]
<1>1. /\ ~Outside(pc[r]) /\ (pc[r] # "await" \/ l.reply # "none") /\ l \in Local
      /\ TypeOK /\ FacesOK
      /\ UNCHANGED <<subject, picture, calls, store, images, uploads, deletes, minted>>
  BY OwnerFacts DEF Respond, ServeImage, RenameAnswered, OpenImage, DeleteSubjects, At, Outside,
     backendVars, storeVars, journalVars, flushVars, IInv, TypeInv, OInv
<1>2. CASE Respond(r) \/ ServeImage(r) \/ RenameAnswered(r)
  <2>1. pc'[r] = "idle" /\ lock' = None
    BY <1>2, OwnerFacts DEF Respond, ServeImage, RenameAnswered
  <2> QED
    BY <1>1, <2>1, NothingKnown, CalmOriginals
<1>3. ASSUME NEW f \in Face, OpenImage(r, f) PROVE OInv'
  <2>1. /\ lock' = lock
        /\ local'[r] = [l EXCEPT !.ids = FacesOf(Subject), !.face = f, !.key = images[f]]
        /\ pc'[r] = IF images[f] # None THEN "get" ELSE "fetch"
    BY <1>3, OwnerFacts DEF OpenImage
  <2>2. local'[r].face = f /\ local'[r].key = images[f]
    BY <1>1, <2>1 DEF Local
  <2>3. HandlerKnows(r)'
    BY <1>1, <2>1, <2>2 DEF HandlerKnows, Knows
  <2> QED
    BY <1>1, <2>1, <2>3, CalmOriginals
<1>4. ASSUME NEW S \in SUBSET Subject, DeleteSubjects(r, S) PROVE OInv'
  <2>1. /\ lock' = lock /\ pc'[r] = "plan"
        /\ local'[r] = [l EXCEPT !.ids = FacesOf(S), !.from = S]
    BY <1>4, OwnerFacts DEF DeleteSubjects
  <2>2. local'[r].ids = FacesOf(S) /\ local'[r].from = S
    BY <1>1, <2>1 DEF Local
  <2>3. FacesOf(S) \subseteq issued /\ \A f \in FacesOf(S) : subject[f] \in S
    BY <1>1, NoneAssumption DEF FacesOf, issued, FacesOK
  <2>4. HandlerKnows(r)'
    BY <1>1, <2>1, <2>2, <2>3 DEF HandlerKnows, Knows, issued
  <2> QED
    BY <1>1, <2>1, <2>4, CalmOriginals
<1> QED
  BY <1>2, <1>3, <1>4

\* A rename is sent, or given up.
LEMMA RenameOriginals ==
  ASSUME IInv, IInv', JInv, JInv', OInv, "rename" \notin Late, NEW r \in Request,
         Unanswered(r) \/ \E a, b \in Subject : Rename(r, a, b)
  PROVE  OInv'
<1> DEFINE l == local[r]
<1>1. /\ ~Outside(pc[r]) /\ RowsOK /\ AddsIntended /\ l \in Local
      /\ UNCHANGED <<subject, picture, store, images, uploads, deletes, minted>>
  BY OwnerFacts DEF Unanswered, Rename, Send, At, Outside, storeVars, journalVars, flushVars,
     OInv, CallsOK
<1>2. CASE Unanswered(r)
  <2> DEFINE mine == {c \in calls : c.by = r}
  <2>1. /\ pc'[r] = "idle" /\ lock' = None
        /\ calls' = (calls \ mine) \cup Abandoned(mine)
    BY <1>2, OwnerFacts DEF Unanswered
  <2>2. \A c \in calls \ mine : c.by = None
    BY <1>1, OwnCalls DEF JInv
  <2>3. CallsOK'
    BY <1>1, <2>1, <2>2, CallsAbandon
    DEF OInv, JInv, TasksOK, IInv, TypeInv, TypeOK, BackendTypeOK
  <2>4. RowsOK'
    BY <1>1, RowsSame
  <2> QED
    BY <1>1, <2>1, <2>3, <2>4, NothingKnown, OwnerStep
<1>3. ASSUME NEW a \in Subject, NEW b \in Subject, Rename(r, a, b) PROVE OInv'
  <2> DEFINE c == [RenameCall(a, b) EXCEPT !.by = r]
  <2>1. /\ pc[r] = "dispatch" /\ lock' = lock /\ pc'[r] = "await" /\ local' = local
        /\ calls' = calls \cup {c} /\ l.upload = None /\ l.plan = None
    BY <1>3, OwnerFacts, Facts DEF Rename, Send, At, Promise
  <2>2. c.by = r /\ c.op = "rename" /\ c.ids = {} /\ c.to # None
    BY NoneAssumption DEF RenameCall
  <2> HIDE DEF c
  <2>3. AddsIntended'
    <3>1. \A d \in calls' : d.op = "add" => d \in calls
      BY <2>1, <2>2
    <3> QED
      BY <1>1, <3>1 DEF AddsIntended, Unused
  <2>4. CallsOK'
    BY <1>1, <2>1, <2>2, <2>3, CallsSend
  <2>5. HandlerKnows(r)'
    BY <2>1 DEF HandlerKnows, Knows, AwaitKnows
  <2>6. RowsOK'
    BY <1>1, RowsSame
  <2> QED
    BY <1>1, <2>1, <2>4, <2>5, <2>6, OwnerStep
<1> QED
  BY <1>2, <1>3

\* The key is new: no face has its picture, and no registration is under way.
LEMMA BeginOriginals ==
  ASSUME IInv, IInv', JInv, OInv, NEW r \in Request,
         \/ \E s \in Subject : AddFace(r, s)
         \/ BeginAdd(r) \/ BeginMigration(r)
  PROVE  OInv'
<1> DEFINE l == local[r]
<1>1. /\ l \in Local /\ Holds(pc[r], l, uploads, prepared_deletes) /\ Knows(pc[r], l)
      /\ TypeOK /\ FacesOK /\ RowsOK /\ TasksOK
  BY OwnerFacts DEF OInv, HandlerKnows, IInv, TypeInv
<1>2. ASSUME NEW s \in Subject, AddFace(r, s) PROVE OInv'
  <2>1. PICK k \in Key \ minted :
          /\ minted' = minted \cup {k}
          /\ Keep(r, [l EXCEPT !.upload = [key |-> k, subject |-> s, previous |-> FacesOf({s})]])
    BY <1>2 DEF AddFace
  <2> DEFINE u == [key |-> k, subject |-> s, previous |-> FacesOf({s})]
  <2>2. /\ pc[r] = "dispatch" /\ ~Outside(pc[r]) /\ lock' = lock /\ pc'[r] = "begin"
        /\ UNCHANGED <<subject, picture, calls, store, images, uploads, deletes>>
    BY <1>2, OwnerFacts DEF AddFace, At, Outside, backendVars, storeVars, journalVars
  <2>3. local'[r] = [l EXCEPT !.upload = u]
    BY <2>1, OwnerFacts
  <2>4. u.key = k /\ u.subject = s /\ u.previous = FacesOf({s})
    OBVIOUS
  <2> HIDE DEF u
  <2>5. local'[r].upload = u
    BY <1>1, <2>3 DEF Local
  <2>6. Unused(k)
    BY <1>1, <2>1 DEF FacesOK
  <2>7. FacesOf({s}) \subseteq issued
    BY <1>1, NoneAssumption DEF FacesOK, FacesOf, issued
  <2>8. HandlerKnows(r)'
    BY <2>2, <2>4, <2>5, <2>6, <2>7
    DEF HandlerKnows, Knows, BeginKnows, Unused, FacesOf, issued
  <2> QED
    BY <2>1, <2>2, <2>8, CalmOriginals
\* What the two ways of starting an upload have in common.
<1>3. ASSUME NEW u \in UploadRow, ~Outside(pc[r]), pc[r] # "await", lock' = lock,
             uploads = {}, uploads' = {u}, UNCHANGED <<images, deletes>>,
             UNCHANGED <<subject, picture, calls, store>>, minted \subseteq minted',
             Unused(u.key), u.subject # None => OnlyNew(u),
             pc'[r] = "put", local'[r].upload = u,
             \A p \in puts' : p.picture = Original(local[r])', puts' # {},
             Original(local[r])' # None
      PROVE  OInv'
  <2>1. RowsOK'
    BY <1>1, <1>3, RowsBegin
  <2>2. NoAdds /\ NoAdds' /\ CallsOK'
    BY <1>3, NoAddsInTable, AddsNone, CallsSame
  <2>3. HandlerKnows(r)'
    BY <1>3, <2>2 DEF HandlerKnows, Knows, PutKnows, Unused
  <2> QED
    BY <1>3, <2>1, <2>2, <2>3, OwnerStep
<1>4. CASE BeginAdd(r)
  <2> DEFINE u == l.upload
  <2>1. /\ pc[r] = "begin" /\ ~Outside(pc[r]) /\ lock' = lock /\ pc'[r] = "put"
        /\ begin_upload(u.key, u.subject, u.previous)
        /\ puts' = puts \cup {[key |-> u.key, picture |-> u.key]}
        /\ UNCHANGED <<minted, local, calls, subject, picture, store>>
    BY <1>4, OwnerFacts DEF BeginAdd, At, Outside, backendVars, flushVars
  <2>2. u \in UploadRow /\ u.subject # None /\ uploads = {}
    BY <1>1, <2>1, Facts, LocalFields DEF Promise, Holds, Foreseen, Outside
  <2>3. uploads' = {u} /\ UNCHANGED <<images, deletes>>
    BY <1>1, <2>1, <2>2, BeginUpload DEF begin_upload, TypeOK
  <2>4. puts = {}
    BY <1>1, <2>1, OwnPuts DEF At
  <2>5. local'[r].upload = u /\ u.key # None
    BY <2>1, <2>2, NoneAssumption DEF UploadRow
  <2>6. Original(local[r])' = u.key /\ \A p \in puts' : p.picture = u.key
    BY <2>1, <2>2, <2>4, <2>5 DEF Original
  <2>7. Unused(u.key) /\ OnlyNew(u)
    BY <1>1, <2>1 DEF Knows, BeginKnows, OnlyNew, Unused
  <2>8. puts' # {} /\ minted \subseteq minted' /\ pc[r] # "await"
    BY <2>1
  <2> HIDE DEF u
  <2> QED
    BY <1>3, <2>1, <2>2, <2>3, <2>5, <2>6, <2>7, <2>8
<1>5. CASE BeginMigration(r)
  <2>1. PICK k \in Key \ minted :
          /\ minted' = minted \cup {k}
          /\ begin_upload(k, None, l.ids)
          /\ puts' = puts \cup {[key |-> k, picture |-> picture[l.face]]}
          /\ Keep(r, [l EXCEPT !.upload = [key |-> k, subject |-> None, previous |-> l.ids]])
    BY <1>5 DEF BeginMigration
  <2> DEFINE u == [key |-> k, subject |-> None, previous |-> l.ids]
  <2>2. /\ pc[r] = "fetch" /\ ~Outside(pc[r]) /\ lock' = lock /\ pc'[r] = "put"
        /\ UNCHANGED <<subject, picture, calls, store>> /\ subject[l.face] # None
        /\ ~l.unresolved
    BY <1>5, OwnerFacts DEF BeginMigration, At, Outside, backendVars
  <2>3. local'[r] = [l EXCEPT !.upload = u]
    BY <2>1, OwnerFacts
  <2>4. u.key = k /\ u.subject = None /\ u.previous = l.ids /\ u \in UploadRow
    BY <1>1, LocalFields DEF UploadRow
  <2> HIDE DEF u
  <2>5. local'[r].upload = u /\ local'[r].face = l.face /\ l.face \in Face
    BY <1>1, <2>2, <2>3 DEF Local, Holds
  <2>6. uploads = {}
    BY <2>2, Facts DEF Promise, Foreseen
  <2>7. uploads' = {u} /\ UNCHANGED <<images, deletes>>
    BY <1>1, <2>1, <2>4, <2>6, BeginUpload DEF begin_upload, TypeOK
  <2>8. puts = {}
    BY <1>1, <2>2, OwnPuts DEF At
  <2>9. /\ Original(local[r])' = picture[l.face] /\ picture[l.face] # None
        /\ \A p \in puts' : p.picture = picture[l.face]
    BY <1>1, <2>1, <2>2, <2>4, <2>5, <2>8 DEF Original, FacesOK
  <2>10. Unused(u.key)
    BY <1>1, <2>1, <2>4 DEF FacesOK
  <2>11. puts' # {} /\ minted \subseteq minted' /\ pc[r] # "await"
    BY <2>1, <2>2
  <2> QED
    BY <1>3, <2>2, <2>4, <2>5, <2>6, <2>7, <2>9, <2>10, <2>11
<1> QED BY <1>2, <1>4, <1>5

\* The put has landed, or been given up: nothing has this picture yet.
LEMMA PutOriginals ==
  ASSUME IInv, IInv', JInv, OInv, "put" \notin Late, NEW r \in Request,
         PutSucceeds(r) \/ PutFails(r)
  PROVE  OInv'
<1> DEFINE l == local[r]
           u == l.upload
<1>1. /\ pc[r] = "put" /\ ~Outside(pc[r]) /\ pc[r] # "await" /\ u # None /\ l.plan = None
      /\ Holds("put", l, uploads, prepared_deletes) /\ PutKnows(l) /\ TasksOK /\ RowsOK
      /\ UNCHANGED <<subject, picture, store, minted>>
  BY OwnerFacts, Facts
  DEF PutSucceeds, PutFails, Send, AbandonPut, At, Outside, Promise, flushVars, storeVars,
      backendVars, OInv, HandlerKnows, Knows
<1>2. u \in uploads /\ Unused(u.key) /\ NoAdds
  BY <1>1 DEF Holds, PutKnows
<1>3. PutSucceeds(r) => store[u.key] = Original(l)
  <2>1. \A p \in puts : p.key = u.key
    BY <1>1, OwnPuts
  <2> QED
    BY <1>1, <2>1 DEF PutSucceeds, PutKnows
<1>4. CASE PutSucceeds(r) /\ u.subject # None
  <2> DEFINE c == [AddCall(u) EXCEPT !.by = r]
  <2>1. /\ lock' = lock /\ local' = local /\ pc'[r] = "await" /\ calls' = calls \cup {c}
        /\ UNCHANGED <<images, uploads, deletes>>
    BY <1>4, OwnerFacts DEF PutSucceeds, Send, journalVars
  <2>2. c.by = r /\ c.op = "add" /\ c.key = u.key /\ c.to = u.subject
    BY DEF AddCall
  <2>3. store[u.key] = u.key
    BY <1>3, <1>4 DEF Original
  <2> HIDE DEF c
  <2>4. \A d \in calls' : d.op = "add" => d = c
    BY <1>2, <2>1 DEF NoAdds
  <2>5. AddsIntended'
    BY <1>1, <1>2, <1>4, <2>1, <2>2, <2>3, <2>4 DEF AddsIntended, Unused
  <2>6. CallsOK'
    BY <1>1, <2>1, <2>2, <2>5, CallsSend
  <2>7. RowsOK'
    BY <1>1, <2>1, RowsSame
  <2>8. l.reply = "none"
    BY <1>1 DEF Holds, Unsent
  <2>9. HandlerKnows(r)'
    BY <1>1, <2>1, <2>8 DEF HandlerKnows, Knows, AwaitKnows
  <2> QED
    BY <1>1, <2>1, <2>6, <2>7, <2>9, OwnerStep
<1>5. CASE PutSucceeds(r) /\ u.subject = None
  <2>1. /\ complete_upload(u, l.face) /\ l.face \in Face /\ calls' = calls
        /\ pc'[r] = "idle" /\ lock' = None
    BY <1>1, <1>5, OwnerFacts DEF PutSucceeds, Holds, backendVars
  <2>2. store[u.key] = picture[l.face] /\ picture[l.face] # None
    BY <1>1, <1>3, <1>5 DEF Original, PutKnows
  <2> QED
    BY <1>1, <1>2, <2>1, <2>2, NothingKnown, CompleteOriginals DEF Unused
<1>6. CASE PutFails(r) /\ u.subject # None
  <2>1. /\ discard_upload(u) /\ lock' = lock /\ calls' = calls /\ pc'[r] = "flush"
    BY <1>6, OwnerFacts DEF PutFails, backendVars
  <2> QED
    BY <1>1, <1>2, <2>1, NothingKnown, DiscardOriginals DEF Unused
<1>7. CASE PutFails(r) /\ u.subject = None
  <2>1. /\ pc'[r] = "idle" /\ lock' = None /\ calls' = calls
        /\ UNCHANGED <<images, uploads, deletes>>
    BY <1>7, OwnerFacts DEF PutFails, backendVars, journalVars
  <2> QED
    BY <1>1, <2>1, NothingKnown, CalmOriginals
<1> QED BY <1>4, <1>5, <1>6, <1>7

\* A delete is sent with its plan, which it carries out completely.
LEMMA PlanOriginals ==
  ASSUME IInv, IInv', JInv, OInv, NEW r \in Request,
         PlanSubjects(r) \/ \E F \in SUBSET Face : DeleteFaces(r, F)
  PROVE  OInv'
<1> DEFINE l == local[r]
<1>1. /\ l \in Local /\ Holds(pc[r], l, uploads, prepared_deletes) /\ Knows(pc[r], l)
      /\ pc[r] \in {"plan", "dispatch"} /\ ~Outside(pc[r]) /\ l.upload = None
      /\ UNCHANGED <<subject, picture, store, minted, lock>> /\ pc'[r] = "await"
      /\ RowsOK /\ AddsIntended
  BY OwnerFacts, Facts
  DEF PlanSubjects, DeleteFaces, Send, At, Outside, Promise, flushVars, storeVars,
      OInv, HandlerKnows, CallsOK
<1>2. l.reply = "none"
  BY <1>1 DEF Holds, Unsent
<1>3. ASSUME NEW F \in SUBSET issued, NEW c, c.by = r, c.op = "delete", calls' = calls \cup {c},
             plan_delete(F), local'[r].plan = DeletePlan(F),
             local'[r].upload = None, local'[r].reply = "none",
             \A f \in F : subject[f] = None \/ f \in Targets(c)
      PROVE  OInv'
  <2>1. RowsOK'
    BY <1>1, <1>3, RowsPlan
  <2>2. AddsIntended'
    <3>1. \A d \in calls' : d.op = "add" => d \in calls
      BY <1>3
    <3> QED
      BY <1>1, <1>3, <3>1 DEF AddsIntended, Unused, plan_delete
  <2>3. DeletePlan(F).faces = F
    BY DEF DeletePlan
  <2>4. \A f \in local'[r].plan.faces : subject'[f] = None \/ f \in Targets(c)'
    BY <1>1, <1>3, <2>3 DEF Targets, FacesOf
  <2>5. CallsOK'
    BY <1>1, <1>3, <2>2, <2>4, CallsSend
  <2>6. HandlerKnows(r)'
    BY <1>1, <1>3 DEF HandlerKnows, Knows, AwaitKnows
  <2> QED
    BY <1>1, <2>1, <2>5, <2>6, OwnerStep
<1>4. CASE PlanSubjects(r)
  <2> DEFINE c == [DeleteCall(l.from, {}) EXCEPT !.by = r]
             e == DeletePlan(l.ids)
  <2>1. /\ calls' = calls \cup {c} /\ plan_delete(l.ids) /\ pc[r] = "plan"
        /\ local'[r] = [l EXCEPT !.plan = e, !.ids = {}]
    BY <1>4, OwnerFacts DEF PlanSubjects, Send, At
  <2>2. c.by = r /\ c.op = "delete" /\ c.from = l.from
    BY DEF DeleteCall
  <2> HIDE DEF c, e
  <2>3. local'[r].plan = e /\ local'[r].upload = None /\ local'[r].reply = "none"
    BY <1>1, <1>2, <2>1 DEF Local
  <2>4. l.ids \in SUBSET issued /\ \A f \in l.ids : subject[f] = None \/ f \in Targets(c)
    BY <1>1, <2>1, <2>2 DEF Knows, Targets, FacesOf, issued
  <2> QED
    BY <1>3, <2>1, <2>2, <2>3, <2>4 DEF e
<1>5. ASSUME NEW F \in SUBSET Face, DeleteFaces(r, F) PROVE OInv'
  <2> DEFINE c == [DeleteCall({}, F) EXCEPT !.by = r]
             e == DeletePlan(F)
  <2>1. /\ calls' = calls \cup {c} /\ plan_delete(F) /\ F \in SUBSET issued
        /\ local'[r] = [l EXCEPT !.plan = e]
    BY <1>5, OwnerFacts DEF DeleteFaces, Send
  <2>2. c.by = r /\ c.op = "delete" /\ c.ids = F
    BY DEF DeleteCall
  <2> HIDE DEF c, e
  <2>3. local'[r].plan = e /\ local'[r].upload = None /\ local'[r].reply = "none"
    BY <1>1, <1>2, <2>1 DEF Local
  <2>4. \A f \in F : f \in Targets(c)
    BY <2>2 DEF Targets
  <2> QED
    BY <1>3, <2>1, <2>2, <2>3, <2>4 DEF e
<1> QED BY <1>4, <1>5

\* What the answer says has happened.
LEMMA AnswerOriginals ==
  ASSUME IInv, IInv', JInv, OInv, NEW r \in Request,
         AddSucceeded(r) \/ AddRejected(r) \/ DeleteSucceeded(r) \/ DeleteRejected(r)
  PROVE  OInv'
<1> DEFINE l == local[r]
<1>1. /\ pc[r] = "await" /\ ~Outside(pc[r]) /\ l.reply # "none" /\ AwaitKnows(l)
      /\ Holds("await", l, uploads, prepared_deletes)
      /\ TypeOK /\ RowsOK /\ AddsIntended
      /\ UNCHANGED <<subject, picture, store, minted, calls>>
  BY OwnerFacts
  DEF AddSucceeded, AddRejected, DeleteSucceeded, DeleteRejected, Answered, At, Outside,
      flushVars, backendVars, storeVars, OInv, HandlerKnows, Knows, CallsOK, IInv, TypeInv
<1>2. CASE AddSucceeded(r)
  <2>1. /\ complete_upload(l.upload, l.face) /\ pc'[r] = "idle" /\ lock' = None
        /\ l.upload \in uploads /\ l.face \in Face /\ picture[l.face] = l.upload.key
    BY <1>1, <1>2, OwnerFacts DEF AddSucceeded, Answered, Holds, AwaitKnows
  <2> QED
    BY <1>1, <2>1, Registered, NothingKnown, CompleteOriginals
<1>3. CASE AddRejected(r)
  <2>1. /\ discard_upload(l.upload) /\ pc'[r] = "flush" /\ lock' = lock
        /\ l.upload \in uploads /\ Unused(l.upload.key) /\ NoAdds
    BY <1>1, <1>3, OwnerFacts DEF AddRejected, Answered, Holds, AwaitKnows
  <2> QED
    BY <1>1, <2>1, NothingKnown, DiscardOriginals DEF Unused
<1>4. CASE DeleteSucceeded(r)
  <2>1. /\ finish_delete({l.plan}) /\ pc'[r] = "flush" /\ lock' = lock
        /\ {l.plan} \in SUBSET prepared_deletes
        /\ \A f \in l.plan.faces : subject[f] = None
    BY <1>1, <1>4, OwnerFacts DEF DeleteSucceeded, Answered, Holds, AwaitKnows
  <2>2. RowsOK'
    BY <1>1, <2>1, RowsFinish
  <2>3. AddsIntended'
    BY <1>1, <2>1, AddsSame DEF finish_delete
  <2> QED
    BY <1>1, <2>1, <2>2, <2>3, CallsSame, NothingKnown, OwnerStep
<1>5. CASE DeleteRejected(r)
  <2>1. /\ discard_delete(l.plan) /\ pc'[r] = "idle" /\ lock' = None
    BY <1>5, OwnerFacts DEF DeleteRejected
  <2>2. RowsOK'
    BY <1>1, <2>1, RowsLess DEF discard_delete, prepared_deletes
  <2>3. AddsIntended'
    BY <1>1, <2>1, AddsSame DEF discard_delete
  <2> QED
    BY <1>1, <2>1, <2>2, <2>3, CallsSame, NothingKnown, OwnerStep
<1> QED BY <1>2, <1>3, <1>4, <1>5

LEMMA ServeOriginals ==
  ASSUME IInv, IInv', JInv, JInv', OInv, "put" \notin Late, "rename" \notin Late,
         NEW r \in Request, Serve(r)
  PROVE  OInv'
<1>1. ASSUME NEW S \in {{s} : s \in Subject} \cup {Subject}, DeleteSubjects(r, S)
      PROVE  OInv'
  <2>1. S \in SUBSET Subject
    OBVIOUS
  <2> QED
    BY <1>1, <2>1, ReadOriginals
<1> QED
  BY <1>1, ReadOriginals, RenameOriginals, BeginOriginals, PutOriginals, PlanOriginals,
     AnswerOriginals DEF Serve

-----------------------------------------------------------------------------
(* The environment.                                                        *)

LEMMA AnswerTo ==
  ASSUME IInv, JInv, NEW c \in calls, NEW x \in {"ok", "rejected"}, NEW f \in Face \cup {None},
         Answer(c, x, f)
  PROVE  /\ UNCHANGED <<pc, minted>>
         /\ \A q \in Request : q # c.by => local'[q] = local[q]
         /\ c.by # None =>
              /\ c.by \in Request /\ pc[c.by] = "await"
              /\ local'[c.by].upload = local[c.by].upload
              /\ local'[c.by].plan = local[c.by].plan
              /\ local'[c.by].reply = x /\ local'[c.by].face = f
         /\ \A d \in calls \ {c} : d.by # None => d.by \in Request /\ d.by # c.by
<1>1. c.by # None => c.by \in Request /\ pc[c.by] = "await"
  BY DEF JInv, TasksOK, CallsOwned, At, IInv, TypeInv, TypeOK, BackendTypeOK, Call
<1>2. c.by # None => /\ local[c.by] \in Local
                     /\ local'[c.by] = [local[c.by] EXCEPT !.reply = x, !.face = f]
  BY <1>1, Facts DEF Answer, GatewayTypeOK
<1>3. \A q \in Request : q # c.by => local'[q] = local[q]
  BY <1>1, Facts DEF Answer, GatewayTypeOK
<1>4. \A d \in calls \ {c} : d.by # None => d.by \in Request /\ d.by # c.by
  BY DEF JInv, TasksOK, CallsOwned, IInv, TypeInv, TypeOK, BackendTypeOK, Call
<1>5. c.by # None => /\ local'[c.by].upload = local[c.by].upload
                     /\ local'[c.by].plan = local[c.by].plan
                     /\ local'[c.by].reply = x /\ local'[c.by].face = f
  BY <1>2 DEF Local
<1>6. UNCHANGED <<pc, minted>>
  BY DEF Answer, flushVars
<1> QED
  BY <1>1, <1>3, <1>4, <1>5, <1>6

\* Whoever waits knows which call it sent.
LEMMA OwnAdd ==
  ASSUME IInv, JInv, OInv, NEW c \in calls, c.op = "add"
  PROVE  \E u \in uploads :
           /\ u.key = c.key /\ u.subject = c.to /\ u.subject # None
           /\ store[u.key] = u.key /\ Unused(u.key) /\ OnlyNew(u) /\ u.key \in Key \cap minted
           /\ c.by # None => local[c.by].plan = None
           /\ c.by # None /\ local[c.by].upload # None => local[c.by].upload = u
<1>1. PICK u \in uploads : /\ u.key = c.key /\ u.subject = c.to /\ u.subject # None
                           /\ store[u.key] = u.key /\ Unused(u.key)
  BY DEF OInv, CallsOK, AddsIntended
<1>2. OnlyNew(u) /\ u.key \in Key \cap minted
  BY <1>1 DEF OInv, RowsOK, Intents, JInv, TasksOK, LiveKeys, IInv, TypeInv, TypeOK,
     JournalTypeOK, UploadRow
<1>3. ASSUME c.by # None
      PROVE  /\ local[c.by].plan = None
             /\ local[c.by].upload # None => local[c.by].upload = u
  <2>1. c.by \in Request /\ At(c.by, "await")
    BY <1>3 DEF JInv, TasksOK, CallsOwned, IInv, TypeInv, TypeOK, BackendTypeOK, Call
  <2>2. local[c.by].upload # None => local[c.by].upload \in uploads
    BY <2>1, OwnerFacts DEF Holds, At
  <2> QED
    BY <1>3, <2>2 DEF OInv, CallsOK, DeletesAim, IInv, OneIntent
<1> QED
  BY <1>1, <1>2, <1>3

\* A registration is executed: the face f of its subject is the one new face.
LEMMA AddCommits ==
  ASSUME IInv, JInv, OInv, NEW c \in calls, NEW f \in Face, CommitAdd(c, f), Answer(c, "ok", f),
         UNCHANGED <<storeVars, journalVars>>
  PROVE  OInv'
<1>1. PICK u \in uploads :
        /\ u.key = c.key /\ u.subject = c.to /\ u.subject # None
        /\ store[u.key] = u.key /\ Unused(u.key) /\ OnlyNew(u) /\ u.key \in Key \cap minted
        /\ c.by # None => local[c.by].plan = None
        /\ c.by # None /\ local[c.by].upload # None => local[c.by].upload = u
  BY OwnAdd DEF CommitAdd
<1>2. /\ \A g \in Face : subject'[g] = IF g = f THEN u.subject ELSE subject[g]
      /\ \A g \in Face : picture'[g] = IF g = f THEN u.key ELSE picture[g]
      /\ picture[f] = None /\ calls' = calls \ {c} /\ u.key # None
      /\ UNCHANGED <<images, uploads, deletes, store, puts, minted, pc>>
      /\ prepared_deletes' = prepared_deletes
  BY <1>1, AnswerTo, NoneAssumption
  DEF CommitAdd, IInv, TypeInv, TypeOK, BackendTypeOK, storeVars, journalVars, prepared_deletes
<1>3. \A v \in uploads : v = u
  BY DEF IInv, OneIntent
<1>4. FacesOK'
  BY <1>1, <1>2 DEF OInv, FacesOK, Unused
<1>5. issued \subseteq issued' /\ f \notin issued
  BY <1>2 DEF issued
<1>6. RowsOK'
  <2>1. PicturesMatch' /\ RowsIssued'
    BY <1>2, <1>5 DEF OInv, RowsOK, PicturesMatch, RowsIssued
  <2>2. Covered'
    BY <1>1, <1>2 DEF OInv, RowsOK, Covered
  <2>3. OnlyNew(u)'
    BY <1>1, <1>2, <1>5 DEF OnlyNew, Unused
  <2>4. Intents'
    BY <1>1, <1>2, <1>3, <2>3 DEF Intents
  <2> QED
    BY <2>1, <2>2, <2>4 DEF RowsOK
<1>7. NoAdds' /\ ~NoAdds
  BY <1>2 DEF OInv, CallsOK, AddsIntended, NoAdds, CommitAdd
<1>8. CallsOK'
  <2>1. AddsIntended'
    BY <1>7 DEF AddsIntended, NoAdds
  <2>2. RenamesOwned'
    BY <1>2 DEF OInv, CallsOK, RenamesOwned
  <2>3. ASSUME NEW d \in calls', d.by # None, local'[d.by].plan # None
        PROVE  FALSE
    <3>1. d.by \in Request /\ local'[d.by] = local[d.by] /\ At(d.by, "await")
      BY <1>2, <2>3, AnswerTo DEF JInv, TasksOK, CallsOwned
    <3>2. local[d.by].plan \in prepared_deletes
      BY <2>3, <3>1, OwnerFacts DEF Holds, At
    <3>3. u \in UploadRow /\ local[d.by].plan \in DeleteRow
      BY <3>2 DEF prepared_deletes, IInv, TypeInv, TypeOK, JournalTypeOK
    <3> QED
      BY <3>2, <3>3, RowsDiffer DEF IInv, OneIntent
  <2> QED
    BY <2>1, <2>2, <2>3 DEF CallsOK, DeletesAim
<1>9. ASSUME NEW q \in Request PROVE HandlerKnows(q)'
  <2>1. pc'[q] = pc[q] /\ Knows(pc[q], local[q]) /\ Holds(pc[q], local[q], uploads, prepared_deletes)
    BY <1>2, OwnerFacts DEF OInv, HandlerKnows
  <2>2. pc[q] # "begin" /\ pc[q] # "put"
    BY <1>7, <2>1, Facts DEF Knows, PutKnows, Promise, Foreseen, Outside
  <2>3. CASE q = c.by
    BY <1>1, <1>2, <1>7, <2>1, <2>3, AnswerTo, NoneAssumption DEF HandlerKnows, Knows, AwaitKnows
  <2>4. CASE q # c.by
    <3>1. local'[q] = local[q]
      BY <2>4, AnswerTo
    <3>2. pc[q] = "settle" => \A g \in local[q].ids \ local[q].upload.previous :
                                picture'[g] = local[q].upload.key
      <4>1. local[q].ids \subseteq Face
        BY Facts, LocalFields
      <4>2. pc[q] = "settle" => local[q].upload.key # None
        BY Facts, LocalFields, NoneAssumption DEF Promise, UploadRow
      <4> QED
        BY <1>2, <2>1, <4>1, <4>2 DEF Knows
    <3>3. pc[q] = "confirm" => \A d \in prepared_deletes : \A g \in d.faces \ local[q].ids :
                                 subject'[g] = None
      BY <1>2, <1>5, <2>1
      DEF Knows, OInv, RowsOK, RowsIssued, issued
    <3>4. pc[q] = "plan" => /\ local[q].ids \subseteq issued'
                            /\ \A g \in local[q].ids : subject'[g] \in {None} \cup local[q].from
      BY <1>2, <1>5, <2>1 DEF Knows, issued
    <3>5. pc[q] = "await" => AwaitKnows(local[q])'
      <4>1. ASSUME pc[q] = "await" PROVE AwaitKnows(local[q])'
        <5>1. local[q].upload # None /\ local[q].reply = "ok" =>
                picture'[local[q].face] = local[q].upload.key
          <6>1. local[q].upload # None => local[q].upload.key # None
            BY Facts, LocalFields, NoneAssumption DEF UploadRow
          <6> QED
            BY <1>2, <2>1, <4>1, <6>1 DEF Knows, AwaitKnows, Holds
        <5>2. ~(local[q].upload # None /\ local[q].reply = "rejected")
          BY <1>7, <2>1, <4>1 DEF Knows, AwaitKnows
        <5>3. local[q].plan # None => local[q].plan \in prepared_deletes
          BY <2>1, <4>1 DEF Holds
        <5>4. local[q].plan # None => local[q].plan.faces \subseteq issued
          BY <5>3 DEF OInv, RowsOK, RowsIssued
        <5> QED
          BY <1>2, <1>5, <2>1, <3>1, <4>1, <5>1, <5>2, <5>4 DEF Knows, AwaitKnows, issued
      <4> QED BY <4>1
    <3> QED
      BY <1>2, <2>1, <2>2, <3>1, <3>2, <3>3, <3>4, <3>5 DEF HandlerKnows, Knows, AwaitKnows
  <2> QED BY <2>3, <2>4
<1> QED
  BY <1>4, <1>6, <1>8, <1>9 DEF OInv

\* Faces are unregistered, and no table or store has changed.
Fading ==
  /\ \A f \in Face : subject'[f] \in {subject[f], None}
  /\ UNCHANGED <<picture, images, uploads, deletes, store, puts, minted, pc>>

LEMMA FadingRows ==
  ASSUME FacesOK, RowsOK, Fading
  PROVE  FacesOK' /\ RowsOK'
<1>1. FacesOK'
  BY DEF Fading, FacesOK, Unused
<1>2. PicturesMatch' /\ RowsIssued' /\ Covered'
  BY DEF Fading, RowsOK, PicturesMatch, RowsIssued, Covered, issued, prepared_deletes
<1>3. ASSUME NEW u \in uploads, u.subject # None, OnlyNew(u) PROVE OnlyNew(u)'
  BY <1>3 DEF Fading, OnlyNew, issued
<1>4. Intents'
  BY <1>3 DEF Fading, RowsOK, Intents, Unused
<1> QED
  BY <1>1, <1>2, <1>4 DEF RowsOK

\* A call is gone, and the awaited plans that are left are still aimed at.
LEMMA FadingCalls ==
  ASSUME IInv, CallsOK, Fading, calls' \subseteq calls,
         \A d \in calls' : d.by # None => local'[d.by] = local[d.by]
  PROVE  CallsOK'
<1>1. RenamesOwned'
  BY DEF CallsOK, RenamesOwned
<1>2. ASSUME NEW d \in calls', d.by # None, local'[d.by].plan # None,
             NEW f \in local'[d.by].plan.faces
      PROVE  d.op = "delete" /\ (subject'[f] = None \/ f \in Targets(d)')
  <2>1. d.by \in Request /\ local'[d.by] = local[d.by]
    BY <1>2 DEF IInv, TypeInv, TypeOK, BackendTypeOK, Call
  <2>2. f \in Face
    BY <1>2, <2>1, Facts, LocalFields DEF DeleteRow
  <2> QED
    BY <1>2, <2>1, <2>2 DEF CallsOK, DeletesAim, Fading, Targets, FacesOf
<1>3. AddsIntended'
  BY DEF CallsOK, AddsIntended, Fading, Unused
<1>4. ASSUME NEW d \in calls', d.by # None, local'[d.by].plan # None
      PROVE  d.op = "delete"
  BY <1>4 DEF CallsOK, DeletesAim
<1> QED
  BY <1>1, <1>2, <1>3, <1>4 DEF CallsOK, DeletesAim

\* What handlers know stays true when faces go and calls end.
LEMMA FadingKnows ==
  ASSUME IInv, JInv, OInv, Fading, calls' \subseteq calls,
         NEW q \in Request, local'[q] = local[q]
  PROVE  HandlerKnows(q)'
<1>1. Knows(pc[q], local[q]) /\ Holds(pc[q], local[q], uploads, prepared_deletes)
  BY OwnerFacts DEF OInv, HandlerKnows
<1>2. /\ local[q].ids \subseteq Face
      /\ local[q].plan # None => local[q].plan.faces \subseteq Face
      /\ \A d \in prepared_deletes : d.faces \subseteq Face
  BY Facts, LocalFields DEF DeleteRow, prepared_deletes, JournalTypeOK
<1>3. pc[q] = "begin" => BeginKnows(local[q])'
  BY <1>1 DEF Knows, BeginKnows, Fading, Holds, Unused, issued
<1>4. pc[q] = "put" => PutKnows(local[q])'
  BY <1>1 DEF Knows, PutKnows, Fading, Unused, NoAdds, Original
<1>5. pc[q] = "await" => AwaitKnows(local[q])'
  BY <1>1, <1>2 DEF Knows, AwaitKnows, Fading, Unused, NoAdds
<1>6. pc[q] = "plan" => /\ local[q].ids \subseteq issued'
                        /\ \A f \in local[q].ids : subject'[f] \in {None} \cup local[q].from
  BY <1>1, <1>2 DEF Knows, Fading, issued
<1> QED
  BY <1>1, <1>2, <1>3, <1>4, <1>5, <1>6
  DEF HandlerKnows, Knows, Fading, prepared_deletes, BeginKnows, PutKnows, AwaitKnows

\* A delete is executed: its whole plan is gone.
LEMMA DeleteCommits ==
  ASSUME IInv, JInv, OInv, NEW c \in calls, CommitDelete(c), Answer(c, "ok", None),
         UNCHANGED <<storeVars, journalVars>>
  PROVE  OInv'
<1>1. Fading /\ calls' = calls \ {c}
  BY AnswerTo DEF CommitDelete, Fading, storeVars, journalVars, IInv, TypeInv, TypeOK, BackendTypeOK
<1>2. FacesOK' /\ RowsOK'
  BY <1>1, FadingRows DEF OInv
<1>3. CallsOK'
  BY <1>1, AnswerTo, FadingCalls DEF OInv
<1>4. ASSUME NEW q \in Request PROVE HandlerKnows(q)'
  <2>1. CASE q # c.by
    BY <1>1, <2>1, AnswerTo, FadingKnows
  <2>2. CASE q = c.by
    <3>1. /\ pc'[q] = "await" /\ local'[q].upload = None
          /\ local'[q].plan = local[q].plan /\ c.by # None
      BY <2>2, AnswerTo, NoneAssumption DEF JInv, TasksOK, CallsOwned, CommitDelete
    <3>2. ASSUME local[q].plan # None, NEW f \in local[q].plan.faces PROVE subject'[f] = None
      <4>1. f \in Face
        BY <3>2, Facts, LocalFields DEF DeleteRow
      <4>2. subject[f] = None \/ f \in Targets(c)
        BY <2>2, <3>1, <3>2 DEF OInv, CallsOK, DeletesAim
      <4> QED
        BY <4>1, <4>2 DEF CommitDelete
    <3> QED
      BY <3>1, <3>2 DEF HandlerKnows, Knows, AwaitKnows
  <2> QED BY <2>1, <2>2
<1> QED
  BY <1>2, <1>3, <1>4 DEF OInv

\* A call is refused or lost: nothing will come of it.
LEMMA CallDrops ==
  ASSUME IInv, JInv, OInv, NEW c \in calls, DropCall(c), Answer(c, "rejected", None),
         UNCHANGED <<storeVars, journalVars>>
  PROVE  OInv'
<1>1. Fading /\ calls' = calls \ {c} /\ picture' = picture
  BY AnswerTo DEF DropCall, Fading, storeVars, journalVars
<1>2. FacesOK' /\ RowsOK'
  BY <1>1, FadingRows DEF OInv
<1>3. CallsOK'
  BY <1>1, AnswerTo, FadingCalls DEF OInv
<1>4. ASSUME NEW q \in Request PROVE HandlerKnows(q)'
  <2>1. CASE q # c.by
    BY <1>1, <2>1, AnswerTo, FadingKnows
  <2>2. CASE q = c.by
    <3>1. /\ pc'[q] = "await" /\ local'[q].upload = local[q].upload
          /\ local'[q].reply = "rejected" /\ c.by # None
          /\ local[q].upload # None => c.op = "add"
      BY <2>2, AnswerTo, NoneAssumption DEF JInv, TasksOK, CallsOwned
    <3>2. ASSUME local[q].upload # None PROVE Unused(local[q].upload.key)' /\ NoAdds'
      <4>1. Unused(local[q].upload.key)
        BY <2>2, <3>1, <3>2, OwnAdd
      <4>2. NoAdds'
        BY <1>1, <3>1, <3>2 DEF NoAdds, OInv, CallsOK, AddsIntended
      <4> QED
        BY <1>1, <3>1, <4>1, <4>2 DEF Unused
    <3> QED
      BY <3>1, <3>2 DEF HandlerKnows, Knows, AwaitKnows, Unused
  <2> QED BY <2>1, <2>2
<1> QED
  BY <1>2, <1>3, <1>4 DEF OInv

\* A rename is executed while its handler waits, so no intent is in the tables.
LEMMA RenameCommits ==
  ASSUME IInv, IInv', JInv, OInv, NEW c \in calls, CommitRename(c), Answer(c, "ok", None),
         UNCHANGED <<storeVars, journalVars>>
  PROVE  OInv'
<1> DEFINE r == c.by
<1>1. /\ r \in Request /\ r # None /\ pc[r] = "await" /\ ~Outside(pc[r]) /\ c.ids = {}
      /\ local[r].upload = None /\ local[r].plan = None
  BY AnswerTo
  DEF CommitRename, OInv, CallsOK, RenamesOwned, DeletesAim, JInv, TasksOK, CallsOwned, Outside
<1>2. uploads = {} /\ prepared_deletes = {}
  BY <1>1, Facts DEF Promise, Foreseen, Mine
<1>3. /\ calls' = calls \ {c} /\ UNCHANGED <<picture, images, uploads, deletes, store, minted, pc, lock>>
      /\ prepared_deletes' = {}
      /\ \A f \in Face : subject'[f] # None => subject[f] # None
  <2>1. \A f \in FacesOf(c.from) : subject[f] # None
    BY NoneAssumption DEF FacesOf, IInv, TypeInv, TypeOK, BackendTypeOK, Call
  <2>2. UNCHANGED <<images, uploads, deletes, store, minted, pc, lock>>
    BY AnswerTo DEF Answer, storeVars, journalVars
  <2> QED
    BY <1>1, <1>2, <2>1, <2>2 DEF CommitRename, Targets, prepared_deletes
<1>4. FacesOK'
  BY <1>3 DEF OInv, FacesOK, Unused
<1>5. RowsOK'
  <2>1. PicturesMatch' /\ RowsIssued' /\ Covered'
    BY <1>2, <1>3 DEF OInv, RowsOK, PicturesMatch, RowsIssued, Covered
  <2>2. Intents'
    BY <1>2, <1>3 DEF Intents
  <2> QED
    BY <2>1, <2>2 DEF RowsOK
<1>6. \A d \in calls' : d.by = None /\ d.op # "rename" /\ d.op # "add"
  <2>1. \A d \in calls' : d.by = None
    <3>1. ASSUME NEW d \in calls', d.by # None PROVE FALSE
      <4>1. d.by \in Request /\ d.by # r /\ At(d.by, "await")
        BY <1>3, <3>1, AnswerTo DEF JInv, TasksOK, CallsOwned
      <4> QED
        BY <1>1, <1>3, <4>1, Alone DEF Outside, At
    <3> QED BY <3>1
  <2> QED
    BY <1>2, <1>3, <2>1, NoAddsInTable DEF OInv, CallsOK, RenamesOwned, NoAdds
<1>7. CallsOK'
  BY <1>6 DEF CallsOK, AddsIntended, RenamesOwned, DeletesAim
<1>8. HandlerKnows(r)'
  BY <1>1, <1>3, AnswerTo DEF HandlerKnows, Knows, AwaitKnows
<1>9. \A q \in Request \ {r} : HandlerKnows(q)'
  BY <1>1, <1>3, OthersKnow
<1> QED
  BY <1>1, <1>4, <1>5, <1>7, <1>8, <1>9 DEF OInv

LEMMA BackendOriginals ==
  ASSUME IInv, IInv', JInv, OInv, BackendStep
  PROVE  OInv'
  BY AddCommits, DeleteCommits, RenameCommits, CallDrops DEF BackendStep

LEMMA StoreOriginals ==
  ASSUME IInv, IInv', JInv, OInv, StoreStep
  PROVE  OInv'
<1>1. PICK p \in puts : PutLands(p)
  BY DEF StoreStep
<1>2. /\ UNCHANGED <<subject, picture, calls, images, uploads, deletes, minted, pc, local, lock>>
      /\ puts' = puts \ {p}
  BY <1>1 DEF StoreStep, PutLands, backendVars, journalVars, gatewayVars
<1>3. PICK r \in Request : At(r, "put") /\ local[r].upload.key = p.key
  BY DEF JInv, TasksOK, PutsOwned
<1> DEFINE u == local[r].upload
<1>4. /\ ~Outside(pc[r]) /\ u \in uploads /\ u.key = p.key /\ u.key \in Key
      /\ PutKnows(local[r])
  BY <1>3, OwnerFacts, Facts
  DEF Holds, Promise, At, Outside, OInv, HandlerKnows, Knows, JournalTypeOK, UploadRow
<1>5. /\ store'[u.key] = Original(local[r])
      /\ \A k \in Key : k # u.key => store'[k] = store[k]
  BY <1>1, <1>4 DEF PutLands, PutKnows, IInv, TypeInv, TypeOK, StoreTypeOK
<1>6. RowsOK'
  <2>1. \A f \in Face : images[f] # None => images[f] \in Key /\ images[f] # u.key
    BY <1>4 DEF JInv, TablesOK, ImagesApart, Retired, IInv, TypeInv, TypeOK, JournalTypeOK
  <2>2. \A v \in uploads : v = u
    BY <1>4 DEF IInv, OneIntent
  <2> QED
    BY <1>2, <1>4, <1>5, <2>1, <2>2, RowsStore DEF OInv, PutKnows, prepared_deletes
<1>7. NoAdds
  BY <1>4 DEF PutKnows
<1>8. CallsOK'
  <2>1. AddsIntended'
    BY <1>2, <1>7, AddsNone
  <2> QED
    BY <1>2, <2>1, CallsKept DEF OInv, IInv, TypeInv, TypeOK, BackendTypeOK
<1>9. HandlerKnows(r)'
  BY <1>2, <1>3, <1>4, <1>5 DEF HandlerKnows, Knows, PutKnows, Unused, NoAdds, Original, At
<1>10. \A q \in Request \ {r} : HandlerKnows(q)'
  BY <1>2, <1>4, OthersKnow
<1> QED
  BY <1>2, <1>6, <1>8, <1>9, <1>10, FacesSame DEF OInv

LEMMA CrashOriginals ==
  ASSUME IInv, JInv, JInv', OInv, "rename" \notin Late, Crash
  PROVE  OInv'
<1>1. /\ UNCHANGED <<subject, picture, images, uploads, deletes, store, minted>>
      /\ calls' = (calls \ calls) \cup Abandoned(calls)
      /\ \A q \in Request : pc'[q] = "idle"
  BY DEF Crash, journalVars, Task
<1>2. CallsOK'
  BY <1>1, CallsAbandon DEF OInv, JInv, TasksOK, IInv, TypeInv, TypeOK, BackendTypeOK
<1> QED
  BY <1>1, <1>2, NothingKnown, FacesSame, RowsSame DEF OInv

LEMMA ReconcileOriginals ==
  ASSUME IInv, JInv, OInv, Reconcile
  PROVE  OInv'
<1>1. /\ UNCHANGED <<subject, picture, calls, store, minted, pc>>
      /\ calls = {} /\ \A q \in Request : pc[q] = "idle"
  BY DEF Reconcile, ReconcileUpload, ReconcileUndeleted, ReconcileDeleted, Quiet, Task,
         backendVars, storeVars, gatewayVars
<1>2. CallsOK'
  BY <1>1 DEF CallsOK, AddsIntended, RenamesOwned, DeletesAim
<1>3. TypeOK /\ RowsOK
  BY DEF IInv, TypeInv, OInv
<1>4. RowsOK'
  <2>1. CASE ReconcileUpload
    <3>1. PICK u \in uploads :
            /\ u.subject # None /\ FacesOf({u.subject}) \subseteq u.previous /\ discard_upload(u)
      BY <2>1 DEF ReconcileUpload
    <3>2. \A f \in Face : picture[f] = u.key => subject[f] = None
      BY <1>3, <3>1 DEF RowsOK, Intents, OnlyNew, FacesOf
    <3> QED
      BY <1>1, <1>3, <3>1, <3>2, RowsDiscard
  <2>2. CASE ReconcileUndeleted
    BY <1>1, <1>3, <2>2, RowsLess DEF ReconcileUndeleted, discard_delete, prepared_deletes
  <2>3. CASE ReconcileDeleted
    <3>1. PICK d \in prepared_deletes : finish_delete_of(d, d.faces \ FacesOf(Subject))
      BY <2>3 DEF ReconcileDeleted
    <3>2. \A f \in Face \ FacesOf(Subject) : subject[f] = None
      BY <1>3 DEF FacesOf, TypeOK, BackendTypeOK
    <3>3. \A f \in Face : images'[f] = images[f] \/ (images'[f] = None /\ subject[f] = None)
      BY <3>1, <3>2 DEF finish_delete_of
    <3>4. prepared_deletes' \subseteq prepared_deletes /\ uploads' = uploads
      BY <3>1 DEF finish_delete_of, prepared_deletes, DeletePlan
    <3> QED
      BY <1>1, <1>3, <3>3, <3>4, RowsLess
  <2> QED
    BY <2>1, <2>2, <2>3 DEF Reconcile
<1> QED
  BY <1>1, <1>2, <1>4, NothingKnown, FacesSame DEF OInv

LEMMA BypassOriginals ==
  ASSUME IInv, JInv, OInv, NEW F \in SUBSET Face, BypassDelete(F)
  PROVE  OInv'
<1>1. Fading /\ calls' = calls /\ local' = local
  BY DEF BypassDelete, Fading, storeVars, journalVars, gatewayVars, IInv, TypeInv, TypeOK, BackendTypeOK
<1> QED
  BY <1>1, FadingRows, FadingCalls, FadingKnows DEF OInv

-----------------------------------------------------------------------------
(* The theorems.                                                           *)

LEMMA OriginalsInit == Init => OInv
<1> SUFFICES ASSUME Init PROVE OInv
    OBVIOUS
<1>1. /\ \A f \in Face : images[f] = None /\ picture[f] \in {f, None}
      /\ \A f \in Face : subject[f] # None => picture[f] # None
      /\ uploads = {} /\ deletes = {} /\ calls = {}
      /\ \A r \in Request : pc[r] = "idle"
  BY NoneAssumption DEF Init, BackendInit, JournalInit, Task
<1>2. FacesOK
  BY <1>1, PictureAssumption, NoneAssumption DEF FacesOK, Unused
<1>3. RowsOK
  BY <1>1, PictureAssumption, NoneAssumption
  DEF RowsOK, PicturesMatch, Covered, Intents, RowsIssued, prepared_deletes
<1>4. CallsOK /\ \A r \in Request : HandlerKnows(r)
  BY <1>1 DEF CallsOK, AddsIntended, RenamesOwned, DeletesAim, HandlerKnows, Knows
<1> QED
  BY <1>2, <1>3, <1>4 DEF OInv

LEMMA OriginalsStep ==
  ASSUME "put" \notin Late, "rename" \notin Late, "add" \notin Bypass
  PROVE  IInv /\ IInv' /\ JInv /\ JInv' /\ OInv /\ [Next]_vars => OInv'
<1> SUFFICES ASSUME IInv, IInv', JInv, JInv', OInv, [Next]_vars PROVE OInv'
    OBVIOUS
<1>1. CASE UNCHANGED vars
  <2>1. Fading /\ calls' = calls /\ local' = local
    BY <1>1 DEF vars, backendVars, storeVars, journalVars, gatewayVars, Fading
  <2> QED
    BY <2>1, FadingRows, FadingCalls, FadingKnows DEF OInv
<1>2. CASE Environment
  BY <1>2, BackendOriginals, StoreOriginals, CrashOriginals, ReconcileOriginals, BypassOriginals
  DEF Environment, BypassAdd
<1>3. CASE Next
  BY <1>2, <1>3, ArriveOriginals, RecoverOriginals, ServeOriginals, WorkerOriginals, FlushOriginals
  DEF Next
<1> QED BY <1>1, <1>3

LEMMA OriginalsTracked ==
  ASSUME "put" \notin Late, "rename" \notin Late, "add" \notin Bypass
  PROVE  Spec => []OInv
<1>1. IInv /\ IInv' /\ JInv /\ JInv' /\ OInv /\ [Next]_vars => OInv'
  BY OriginalsStep
<1> QED
  BY <1>1, OriginalsInit, Inductive, ObjectsTracked, PTL DEF Spec

\* An association leads to the picture its face was registered with, whatever
\* times out, crashes or commits late, unless a rename commits late or a face
\* is registered behind the gateway's back (app.py:130-139, 192-208).
THEOREM PicturesMatched ==
  ASSUME "put" \notin Late, "rename" \notin Late, "add" \notin Bypass
  PROVE  Spec => []PicturesMatch
<1>1. OInv => PicturesMatch
  BY DEF OInv, RowsOK
<1> QED
  BY <1>1, OriginalsTracked, PTL

\* The original of a registered face is stored, and associated with it or held
\* by the intent of its upload, under the same assumptions.
THEOREM OriginalsKept ==
  ASSUME "put" \notin Late, "rename" \notin Late, "add" \notin Bypass
  PROVE  Spec => []OriginalKept
<1>1. OInv => OriginalKept
  <2> SUFFICES ASSUME OInv, NEW f \in Face, subject[f] # None, picture[f] \in Key
               PROVE  /\ store[picture[f]] = picture[f]
                      /\ images[f] = picture[f] \/ \E u \in uploads : u.key = picture[f]
      BY DEF OriginalKept
  <2>1. images[f] = picture[f] \/ \E u \in uploads : u.key = picture[f]
    BY DEF OInv, RowsOK, Covered
  <2>2. ASSUME NEW u \in uploads, u.key = picture[f] PROVE store[picture[f]] = picture[f]
    BY <2>2 DEF OInv, RowsOK, Intents, Unused, OnlyNew
  <2>3. CASE images[f] = picture[f]
    BY <2>3, NoneAssumption DEF OInv, RowsOK, PicturesMatch
  <2> QED
    BY <2>1, <2>2, <2>3
<1> QED
  BY <1>1, OriginalsTracked, PTL

\* A read that has found an association finds the picture of its face, although
\* flush threads erase objects meanwhile (app.py:230-236).
THEOREM ReadsFind ==
  ASSUME "put" \notin Late, "rename" \notin Late, "add" \notin Bypass
  PROVE  Spec => []ReadsOwnOriginal
<1>1. OInv => ReadsOwnOriginal
  BY DEF OInv, HandlerKnows, Knows, RowsOK, PicturesMatch, ReadsOwnOriginal, At
<1> QED
  BY <1>1, OriginalsTracked, PTL
-----------------------------------------------------------------------------
(* Associations of deleted faces.  Deletes that bypass the gateway leave    *)
(* some behind, so here nothing does.                                       *)

Gone(f) == picture[f] # None /\ subject[f] = None

\* A delete that can do nothing any more: identifiers do not come back.
Spent(c) == c.from = {} /\ \A f \in c.ids : Gone(f)

\* All that the delete will reach is in the plan of the journal; of a delete by
\* subject, the plan has nothing else.
Aimed(c) ==
  \E d \in prepared_deletes :
    /\ Targets(c) \subseteq d.faces
    /\ c.from # {} => \A f \in d.faces : subject[f] # None

DeletesPlanned == \A c \in calls : c.op = "delete" => Spent(c) \/ Aimed(c)

OneDelete ==
  \A c, d \in calls : c.op = "delete" /\ d.op = "delete" => Spent(c) \/ Spent(d) \/ c = d

\* Nothing is deleted while an upload is in the journal.
UploadsAlive == \A u \in uploads, f \in Face : picture[f] = u.key => subject[f] # None

\* What a handler with variables l counts on at p: nobody deletes the face whose
\* image it moves, or adds to the list it has read, or executes its own plan.
Counts(p, l) ==
  /\ p = "put" /\ l.upload.subject = None => subject[l.face] # None
  /\ p = "plan" => l.ids = FacesOf(l.from)
  /\ p = "await" /\ l.plan # None =>
       /\ \A c \in calls : c.op = "delete" => Spent(c) \/ (c.by # None /\ l.reply = "none")
       /\ l.reply # "ok" =>
            \A f \in l.plan.faces : images[f] # None => subject[f] # None

AInv ==
  /\ NoStaleImage /\ UploadsAlive /\ DeletesPlanned /\ OneDelete
  /\ \A r \in Request : Counts(pc[r], local[r])

LEMMA Apart ==
  ASSUME IInv, uploads # {}
  PROVE  prepared_deletes = {}
<1> SUFFICES ASSUME NEW u \in uploads, NEW d \in prepared_deletes PROVE FALSE
    OBVIOUS
<1>1. u \in UploadRow /\ d \in DeleteRow
  BY DEF IInv, TypeInv, TypeOK, JournalTypeOK, prepared_deletes
<1>2. "subject" \in DOMAIN u /\ "subject" \notin DOMAIN d
  BY <1>1 DEF UploadRow, DeleteRow
<1> QED
  BY <1>2 DEF IInv, OneIntent

\* With no plan in the journal no delete can have an effect.
LEMMA AllSpent ==
  ASSUME AInv, prepared_deletes = {}
  PROVE  \A c \in calls : c.op = "delete" => Spent(c)
  BY DEF AInv, DeletesPlanned, Aimed

LEMMA CallsStay ==
  ASSUME AInv, UNCHANGED <<subject, picture, calls>>, prepared_deletes \subseteq prepared_deletes'
  PROVE  DeletesPlanned' /\ OneDelete'
  BY DEF AInv, DeletesPlanned, OneDelete, Spent, Aimed, Gone, Targets, FacesOf

LEMMA UploadsStay ==
  ASSUME AInv, UNCHANGED <<subject, picture>>, uploads' \subseteq uploads
  PROVE  UploadsAlive'
  BY DEF AInv, UploadsAlive

LEMMA OwnerCounts ==
  ASSUME IInv, IInv', NEW r \in Request, ~Outside(pc[r]), lock' \in {lock, None},
         NoStaleImage', UploadsAlive', DeletesPlanned', OneDelete', Counts(pc[r], local[r])'
  PROVE  AInv'
<1>1. \A q \in Request \ {r} : Counts(pc[q], local[q])'
  BY Alone DEF Counts, Outside
<1> QED
  BY <1>1 DEF AInv

\* The owner moves on and leaves plans, associations and the backend alone.
LEMMA CalmCounts ==
  ASSUME IInv, IInv', AInv, NEW r \in Request, ~Outside(pc[r]), lock' \in {lock, None},
         pc'[r] \notin {"put", "plan", "await"},
         UNCHANGED <<subject, picture, calls, images>>,
         uploads' \subseteq uploads, prepared_deletes' = prepared_deletes
  PROVE  AInv'
<1>1. NoStaleImage'
  BY DEF AInv, NoStaleImage
<1>2. Counts(pc[r], local[r])'
  BY DEF Counts
<1> QED
  BY <1>1, <1>2, CallsStay, UploadsStay, OwnerCounts

\* The owner associates a face that is registered.
LEMMA CompleteCounts ==
  ASSUME IInv, IInv', AInv, NEW r \in Request, ~Outside(pc[r]), lock' \in {lock, None},
         pc'[r] \notin {"put", "plan", "await"}, UNCHANGED <<subject, picture, calls>>,
         NEW u, NEW f \in Face, complete_upload(u, f), subject[f] # None
  PROVE  AInv'
<1>1. /\ prepared_deletes' = prepared_deletes /\ uploads' \subseteq uploads
      /\ \A g \in Face : g # f => images'[g] = images[g]
  BY DEF complete_upload, prepared_deletes, IInv, TypeInv, TypeOK, JournalTypeOK
<1>2. NoStaleImage'
  BY <1>1 DEF AInv, NoStaleImage
<1>3. Counts(pc[r], local[r])'
  BY DEF Counts
<1> QED
  BY <1>1, <1>2, <1>3, CallsStay, UploadsStay, OwnerCounts

\* Plans are finished whose faces are all gone; no delete is left with an effect.
LEMMA FinishCounts ==
  ASSUME IInv, IInv', AInv, NEW r \in Request, ~Outside(pc[r]), lock' \in {lock, None},
         pc'[r] \notin {"put", "plan", "await"}, UNCHANGED <<subject, picture, calls>>,
         NEW D \in SUBSET prepared_deletes, finish_delete(D),
         D # {} => \A c \in calls : c.op = "delete" => Spent(c)
  PROVE  AInv'
<1>1. \A d \in D : [d EXCEPT !.ready = TRUE].ready
  BY DEF prepared_deletes, IInv, TypeInv, TypeOK, JournalTypeOK, DeleteRow
<1>2. /\ prepared_deletes' = prepared_deletes \ D /\ uploads' = uploads
      /\ \A f \in Face : images'[f] = IF \E d \in D : f \in d.faces THEN None ELSE images[f]
  BY <1>1 DEF finish_delete, prepared_deletes
<1>3. NoStaleImage'
  BY <1>2 DEF AInv, NoStaleImage
<1>4. DeletesPlanned' /\ OneDelete'
  <2>1. CASE D = {}
    BY <1>2, <2>1, CallsStay
  <2>2. CASE D # {}
    BY <2>2 DEF DeletesPlanned, OneDelete, Spent, Gone
  <2> QED BY <2>1, <2>2
<1>5. Counts(pc[r], local[r])'
  BY DEF Counts
<1> QED
  BY <1>2, <1>3, <1>4, <1>5, UploadsStay, OwnerCounts

LEMMA Discarded ==
  ASSUME NEW u, discard_upload(u)
  PROVE  images' = images /\ uploads' \subseteq uploads /\ prepared_deletes' = prepared_deletes
  BY DEF discard_upload, prepared_deletes

LEMMA RecoverCounts ==
  ASSUME IInv, IInv', JInv, OInv, AInv, NEW r \in Request, Recover(r)
  PROVE  AInv'
<1> DEFINE l == local[r]
<1>1. /\ pc[r] \in {"uploads", "settle", "confirm"} /\ ~Outside(pc[r])
      /\ UNCHANGED <<subject, picture, calls>>
  BY DEF Recover, RecoverMigration, RecoverSnapshot, RecoverPlans, SettleAdopt,
         SettlePending, SettleAmbiguous, SettleConflict, Confirm, RecoverFails,
         At, Outside, backendVars
<1>2. l \in Local /\ Holds(pc[r], l, uploads, prepared_deletes) /\ Knows(pc[r], l)
  BY OwnerFacts DEF OInv, HandlerKnows
<1>3. CASE SettleAdopt(r)
  <2>1. PICK f \in Added(r) : complete_upload(l.upload, f)
    BY <1>3 DEF SettleAdopt
  <2>2. /\ pc[r] = "settle" /\ pc'[r] = "uploads" /\ lock' = lock
    BY <1>3, OwnerFacts DEF SettleAdopt, At
  <2>3. l.upload \in uploads /\ f \in Face /\ picture[f] = l.upload.key
    BY <1>2, <2>2, Facts, LocalFields DEF Holds, Promise, Added, Knows
  <2> QED
    BY <1>1, <2>1, <2>2, <2>3, CompleteCounts DEF AInv, UploadsAlive
<1>4. CASE Confirm(r)
  <2>1. /\ finish_delete(Confirmed(r)) /\ Confirmed(r) \in SUBSET prepared_deletes
        /\ pc[r] = "confirm" /\ pc'[r] = "flush" /\ lock' = lock
    BY <1>4, OwnerFacts DEF Confirm, Confirmed, At
  <2>2. \A d \in Confirmed(r) : d.faces # {} /\ \A f \in d.faces : f \in Face /\ subject[f] = None
    BY <1>2, <2>1 DEF Knows, Confirmed, prepared_deletes, IInv, TypeInv, TypeOK,
       JournalTypeOK, DeleteRow
  <2>3. \A d \in prepared_deletes : d.faces \subseteq issued
    BY DEF OInv, RowsOK, RowsIssued
  <2>4. ASSUME NEW c \in calls, c.op = "delete", Confirmed(r) # {} PROVE Spent(c)
    <3>1. PICK d \in Confirmed(r) : TRUE
      BY <2>4
    <3>2. \A e \in prepared_deletes : e = d
      BY <2>1 DEF IInv, OneIntent
    <3>3. CASE Aimed(c)
      BY <2>1, <2>2, <2>3, <3>2, <3>3 DEF Aimed, Spent, Gone, Targets, issued
    <3> QED
      BY <2>4, <3>3 DEF AInv, DeletesPlanned
  <2> QED
    BY <1>1, <2>1, <2>4, FinishCounts
<1>5. CASE RecoverMigration(r)
  <2>1. PICK u \in l.todo : discard_upload(u)
    BY <1>5 DEF RecoverMigration
  <2>2. pc'[r] = "uploads" /\ lock' = lock
    BY <1>5 DEF RecoverMigration, At
  <2> QED
    BY <1>1, <2>1, <2>2, Discarded, CalmCounts
<1>6. CASE RecoverSnapshot(r) \/ SettlePending(r) \/ RecoverPlans(r)
  <2>1. /\ pc'[r] \in {"settle", "uploads", "flush", "confirm"} /\ lock' = lock
        /\ UNCHANGED <<images, uploads, deletes>>
    BY <1>6, OwnerFacts DEF RecoverSnapshot, SettlePending, RecoverPlans, journalVars
  <2> QED
    BY <1>1, <2>1, CalmCounts DEF prepared_deletes
<1>7. CASE SettleAmbiguous(r) \/ SettleConflict(r) \/ RecoverFails(r)
  <2>1. pc'[r] = "idle" /\ lock' = None /\ UNCHANGED <<images, uploads, deletes>>
    BY <1>7, OwnerFacts DEF SettleAmbiguous, SettleConflict, RecoverFails, journalVars
  <2> QED
    BY <1>1, <2>1, CalmCounts DEF prepared_deletes
<1> QED
  BY <1>3, <1>4, <1>5, <1>6, <1>7 DEF Recover

\* A step of another task: what a handler counts on.
LEMMA CountsKept ==
  ASSUME NEW q \in Request, Counts(pc[q], local[q]), pc'[q] = pc[q], local'[q] = local[q],
         UNCHANGED <<subject, picture, images, calls>>
  PROVE  Counts(pc[q], local[q])'
  BY DEF Counts, Spent, Gone, FacesOf

LEMMA ArriveCounts ==
  ASSUME IInv, JInv, AInv, NEW r \in Request, Arrive(r) \/ Acquire(r)
  PROVE  AInv'
<1>1. /\ pc'[r] \in {"queued", "uploads"}
      /\ UNCHANGED <<subject, picture, calls, images, uploads, deletes>>
      /\ \A q \in Request \ {r} : pc'[q] = pc[q] /\ local'[q] = local[q]
  BY OwnerFacts DEF Arrive, Acquire, GoTo, Keep, GatewayTypeOK, Task, backendVars, journalVars
<1>2. NoStaleImage' /\ prepared_deletes' = prepared_deletes
  BY <1>1 DEF AInv, NoStaleImage, prepared_deletes
<1>3. Counts(pc[r], local[r])'
  BY <1>1 DEF Counts
<1>4. \A q \in Request \ {r} : Counts(pc[q], local[q])'
  BY <1>1, CountsKept DEF AInv
<1> QED
  BY <1>1, <1>2, <1>3, <1>4, CallsStay, UploadsStay DEF AInv

LEMMA WorkerCounts ==
  ASSUME IInv, JInv, AInv, WorkerTick
  PROVE  AInv'
<1>1. /\ UNCHANGED <<subject, picture, calls, images, uploads, deletes>>
      /\ \A q \in Request : pc'[q] = pc[q] /\ local'[q] = local[q]
  BY OwnerFacts, WorkerAssumption
  DEF WorkerTick, GoTo, backendVars, journalVars, GatewayTypeOK, Task
<1>2. NoStaleImage' /\ prepared_deletes' = prepared_deletes
  BY <1>1 DEF AInv, NoStaleImage, prepared_deletes
<1>3. \A q \in Request : Counts(pc[q], local[q])'
  BY <1>1, CountsKept DEF AInv
<1> QED
  BY <1>1, <1>2, <1>3, CallsStay, UploadsStay DEF AInv

\* A flush takes rows of the outbox only.
LEMMA FlushCounts ==
  ASSUME IInv, JInv, AInv, NEW t \in Task, Flush(t)
  PROVE  AInv'
<1>1. /\ UNCHANGED <<subject, picture, calls, images, uploads>>
      /\ deletes' = deletes \/ deletes' = deletes \ {row[t]}
  BY DEF Flush, FlushRead, FlushRow, FlushUnqueue, FlushFails, FlushEnds, backendVars, journalVars
<1>2. ASSUME NEW q \in Request
      PROVE  \/ pc'[q] = pc[q] /\ local'[q] = local[q]
             \/ q = t /\ pc'[q] \in {"flush", "drain", "unqueue", "dispatch", "idle"}
  BY OwnerFacts
  DEF Flush, FlushRead, FlushRow, FlushUnqueue, FlushFails, FlushEnds, GoTo, Release,
      Keep, GatewayTypeOK, Task
<1>3. prepared_deletes' = prepared_deletes
  <2>1. row[t] \notin prepared_deletes
    BY DEF JInv, TablesOK, OutgoingApart, Outgoing, prepared_deletes, IInv, TypeInv, TypeOK,
       JournalTypeOK
  <2> QED
    BY <1>1, <2>1 DEF prepared_deletes
<1>4. NoStaleImage'
  BY <1>1, <1>3 DEF AInv, NoStaleImage
<1>5. ASSUME NEW q \in Request PROVE Counts(pc[q], local[q])'
  <2>1. CASE q = t /\ pc'[q] \in {"flush", "drain", "unqueue", "dispatch", "idle"}
    BY <2>1 DEF Counts
  <2>2. CASE pc'[q] = pc[q] /\ local'[q] = local[q]
    BY <1>1, <2>2, CountsKept DEF AInv
  <2> QED BY <1>2, <2>1, <2>2
<1> QED
  BY <1>1, <1>3, <1>4, <1>5, CallsStay, UploadsStay DEF AInv

\* Requests that read, and uploads that begin or end without effect.
LEMMA ReadCounts ==
  ASSUME IInv, IInv', JInv, AInv, NEW r \in Request,
         \/ Respond(r) \/ ServeImage(r) \/ RenameAnswered(r) \/ AddRejected(r) \/ PutFails(r)
         \/ \E f \in Face : OpenImage(r, f)
         \/ \E s \in Subject : AddFace(r, s)
         \/ \E S \in SUBSET Subject : DeleteSubjects(r, S)
  PROVE  AInv'
<1> DEFINE l == local[r]
<1>1. ~Outside(pc[r]) /\ l \in Local /\ UNCHANGED <<subject, picture, calls>>
  BY OwnerFacts
  DEF Respond, ServeImage, RenameAnswered, AddRejected, Answered, PutFails, OpenImage, AddFace,
      DeleteSubjects, At, Outside, backendVars
<1>2. CASE AddRejected(r)
  <2>1. pc'[r] = "flush" /\ lock' = lock /\ discard_upload(l.upload)
    BY <1>2, OwnerFacts DEF AddRejected
  <2> QED
    BY <1>1, <2>1, Discarded, CalmCounts
<1>3. CASE PutFails(r)
  <2>1. /\ pc'[r] \in {"flush", "idle"} /\ lock' \in {lock, None}
        /\ discard_upload(l.upload) \/ UNCHANGED <<images, uploads, deletes>>
    BY <1>3, OwnerFacts DEF PutFails, journalVars
  <2>2. images' = images /\ uploads' \subseteq uploads /\ prepared_deletes' = prepared_deletes
    BY <2>1, Discarded DEF prepared_deletes
  <2> QED
    BY <1>1, <2>1, <2>2, CalmCounts
<1>4. CASE Respond(r) \/ ServeImage(r) \/ RenameAnswered(r)
  <2>1. pc'[r] = "idle" /\ lock' = None /\ UNCHANGED <<images, uploads, deletes>>
    BY <1>4, OwnerFacts DEF Respond, ServeImage, RenameAnswered, journalVars
  <2> QED
    BY <1>1, <2>1, CalmCounts DEF prepared_deletes
<1>5. CASE (\E f \in Face : OpenImage(r, f)) \/ \E s \in Subject : AddFace(r, s)
  <2>1. /\ pc'[r] \in {"get", "fetch", "begin"} /\ lock' = lock
        /\ UNCHANGED <<images, uploads, deletes>>
    BY <1>5, OwnerFacts DEF OpenImage, AddFace, journalVars
  <2> QED
    BY <1>1, <2>1, CalmCounts DEF prepared_deletes
<1>6. ASSUME NEW S \in SUBSET Subject, DeleteSubjects(r, S) PROVE AInv'
  <2>1. /\ lock' = lock /\ pc'[r] = "plan" /\ UNCHANGED <<images, uploads, deletes>>
        /\ local'[r] = [l EXCEPT !.ids = FacesOf(S), !.from = S]
    BY <1>6, OwnerFacts DEF DeleteSubjects, journalVars
  <2>2. local'[r].ids = FacesOf(S) /\ local'[r].from = S
    BY <1>1, <2>1 DEF Local
  <2>3. Counts(pc[r], local[r])'
    BY <1>1, <2>1, <2>2 DEF Counts, FacesOf
  <2>4. NoStaleImage' /\ prepared_deletes' = prepared_deletes
    BY <1>1, <2>1 DEF AInv, NoStaleImage, prepared_deletes
  <2> QED
    BY <1>1, <2>1, <2>3, <2>4, CallsStay, UploadsStay, OwnerCounts
<1> QED
  BY <1>2, <1>3, <1>4, <1>5, <1>6

\* The key of an upload that begins is nobody's picture.
LEMMA BeginCounts ==
  ASSUME IInv, IInv', JInv, OInv, AInv, NEW r \in Request, BeginAdd(r) \/ BeginMigration(r)
  PROVE  AInv'
<1> DEFINE l == local[r]
<1>1. /\ l \in Local /\ Holds(pc[r], l, uploads, prepared_deletes) /\ Knows(pc[r], l) /\ FacesOK
      /\ ~Outside(pc[r]) /\ lock' = lock /\ pc'[r] = "put"
      /\ UNCHANGED <<subject, picture, calls, images, deletes>>
  BY OwnerFacts
  DEF OInv, HandlerKnows, BeginAdd, BeginMigration, begin_upload, At, Outside, backendVars
<1>2. ASSUME NEW u, NEW k, u.key = k, uploads' = uploads \cup {u}, Unused(k),
             local'[r].upload.subject = None => subject[local'[r].face] # None
      PROVE  AInv'
  <2>1. UploadsAlive'
    BY <1>1, <1>2 DEF AInv, UploadsAlive, Unused
  <2>2. NoStaleImage' /\ prepared_deletes' = prepared_deletes
    BY <1>1 DEF AInv, NoStaleImage, prepared_deletes
  <2>3. Counts(pc[r], local[r])'
    BY <1>1, <1>2 DEF Counts
  <2> QED
    BY <1>1, <2>1, <2>2, <2>3, CallsStay, OwnerCounts
<1>3. CASE BeginAdd(r)
  <2> DEFINE k == l.upload.key
             u == [key |-> k, subject |-> l.upload.subject, previous |-> l.upload.previous]
  <2>1. pc[r] = "begin" /\ local' = local /\ uploads' = uploads \cup {u}
    BY <1>3 DEF BeginAdd, begin_upload, At
  <2>2. u.key = k
    OBVIOUS
  <2> HIDE DEF u
  <2>3. l.upload.subject # None /\ Unused(k)
    BY <1>1, <2>1 DEF Holds, Knows, BeginKnows
  <2>4. local'[r].upload.subject # None
    BY <2>1, <2>3
  <2> HIDE DEF k
  <2> QED
    BY <1>2, <2>1, <2>2, <2>3, <2>4
<1>4. CASE BeginMigration(r)
  <2>1. PICK k \in Key \ minted :
          /\ begin_upload(k, None, l.ids)
          /\ Keep(r, [l EXCEPT !.upload = [key |-> k, subject |-> None, previous |-> l.ids]])
    BY <1>4 DEF BeginMigration
  <2> DEFINE u == [key |-> k, subject |-> None, previous |-> l.ids]
  <2>2. local'[r] = [l EXCEPT !.upload = u] /\ uploads' = uploads \cup {u}
    BY <2>1, OwnerFacts DEF begin_upload
  <2>3. u.key = k
    OBVIOUS
  <2> HIDE DEF u
  <2>4. local'[r].face = l.face /\ subject[l.face] # None /\ Unused(k)
    BY <1>1, <1>4, <2>1, <2>2 DEF Local, FacesOK, BeginMigration
  <2> QED
    BY <1>2, <2>2, <2>3, <2>4
<1> QED
  BY <1>3, <1>4

\* A call that is no delete is sent, and its handler has no plan.
LEMMA SendCounts ==
  ASSUME IInv, IInv', AInv, NEW r \in Request, ~Outside(pc[r]), lock' \in {lock, None},
         NEW c, c.op # "delete", calls' = calls \cup {c}, local'[r].plan = None,
         pc'[r] = "await", UNCHANGED <<subject, picture, images, uploads, deletes>>
  PROVE  AInv'
<1>1. NoStaleImage' /\ prepared_deletes' = prepared_deletes
  BY DEF AInv, NoStaleImage, prepared_deletes
<1>2. DeletesPlanned' /\ OneDelete'
  BY <1>1 DEF AInv, DeletesPlanned, OneDelete, Spent, Aimed, Gone, Targets, FacesOf
<1>3. Counts(pc[r], local[r])'
  BY DEF Counts
<1> QED
  BY <1>1, <1>2, <1>3, UploadsStay, OwnerCounts

LEMMA SentCounts ==
  ASSUME IInv, IInv', JInv, OInv, AInv, NEW r \in Request,
         PutSucceeds(r) \/ \E a, b \in Subject : Rename(r, a, b)
  PROVE  AInv'
<1> DEFINE l == local[r]
           u == l.upload
<1>1. ~Outside(pc[r]) /\ UNCHANGED <<subject, picture>> /\ l.plan = None
  BY Facts DEF PutSucceeds, Rename, Send, At, Outside, Promise, backendVars
<1>2. CASE PutSucceeds(r) /\ u.subject # None
  <2> DEFINE c == [AddCall(u) EXCEPT !.by = r]
  <2>1. /\ lock' = lock /\ local' = local /\ pc'[r] = "await" /\ calls' = calls \cup {c}
        /\ UNCHANGED <<images, uploads, deletes>>
    BY <1>2, OwnerFacts DEF PutSucceeds, Send, journalVars
  <2>2. c.op = "add"
    BY DEF AddCall
  <2> HIDE DEF c
  <2> QED
    BY <1>1, <2>1, <2>2, SendCounts
<1>3. CASE PutSucceeds(r) /\ u.subject = None
  <2>1. /\ complete_upload(u, l.face) /\ calls' = calls /\ pc[r] = "put"
        /\ pc'[r] = "idle" /\ lock' = None
    BY <1>3, OwnerFacts DEF PutSucceeds, At, backendVars
  <2>2. l.face \in Face /\ subject[l.face] # None
    BY <1>3, <2>1, OwnerFacts DEF Holds, AInv, Counts
  <2> QED
    BY <1>1, <2>1, <2>2, CompleteCounts
<1>4. ASSUME NEW a \in Subject, NEW b \in Subject, Rename(r, a, b) PROVE AInv'
  <2> DEFINE c == [RenameCall(a, b) EXCEPT !.by = r]
  <2>1. /\ lock' = lock /\ local' = local /\ pc'[r] = "await" /\ calls' = calls \cup {c}
        /\ UNCHANGED <<images, uploads, deletes>>
    BY <1>4, OwnerFacts DEF Rename, Send, journalVars
  <2>2. c.op = "rename"
    BY DEF RenameCall
  <2> HIDE DEF c
  <2> QED
    BY <1>1, <2>1, <2>2, SendCounts
<1> QED
  BY <1>2, <1>3, <1>4

\* A delete is sent: all others are spent, and it reaches what its plan has.
LEMMA PlanCounts ==
  ASSUME IInv, IInv', JInv, OInv, AInv, NEW r \in Request,
         PlanSubjects(r) \/ \E F \in SUBSET Face : DeleteFaces(r, F)
  PROVE  AInv'
<1> DEFINE l == local[r]
<1>1. /\ l \in Local /\ Holds(pc[r], l, uploads, prepared_deletes) /\ pc[r] \in {"plan", "dispatch"}
      /\ ~Outside(pc[r]) /\ UNCHANGED <<subject, picture, lock>> /\ pc'[r] = "await"
  BY OwnerFacts DEF PlanSubjects, DeleteFaces, Send, At, Outside
<1>2. l.reply = "none" /\ prepared_deletes = {}
  <2>1. ~l.unresolved
    BY Facts DEF PlanSubjects, DeleteFaces, At, Promise
  <2> QED
    BY <1>1, <2>1, Facts DEF Holds, Unsent, Promise
<1>3. ASSUME NEW F \in SUBSET Face, NEW c, c.by = r, c.op = "delete", calls' = calls \cup {c},
             plan_delete(F), local'[r].plan = DeletePlan(F), local'[r].reply = "none",
             Targets(c) \subseteq F, c.from # {} => \A f \in F : subject[f] # None
      PROVE  AInv'
  <2> DEFINE d == DeletePlan(F)
  <2>1. d.faces = F /\ ~d.ready
    BY DEF DeletePlan
  <2>2. prepared_deletes' = {d} /\ images' = images /\ uploads' = uploads
    BY <1>2, <1>3, <2>1 DEF plan_delete, prepared_deletes
  <2>3. \A e \in calls : e.op = "delete" => Spent(e)'
    BY <1>1, <1>2, AllSpent DEF Spent, Gone
  <2> HIDE DEF d
  <2>4. Aimed(c)'
    BY <1>1, <1>3, <2>1, <2>2 DEF Aimed, Targets, FacesOf
  <2>5. DeletesPlanned' /\ OneDelete'
    BY <1>3, <2>3, <2>4 DEF DeletesPlanned, OneDelete
  <2>6. NoStaleImage'
    BY <1>1, <1>2, <2>2 DEF AInv, NoStaleImage
  <2>7. \A f \in F : images'[f] # None => subject'[f] # None
    BY <1>1, <1>2, <2>2 DEF AInv, NoStaleImage
  <2>8. Counts(pc[r], local[r])'
    BY <1>1, <1>3, <2>1, <2>3, <2>7, NoneAssumption DEF Counts, d
  <2> QED
    BY <1>1, <2>2, <2>5, <2>6, <2>8, UploadsStay, OwnerCounts
<1>4. CASE PlanSubjects(r)
  <2> DEFINE c == [DeleteCall(l.from, {}) EXCEPT !.by = r]
             e == DeletePlan(l.ids)
  <2>1. /\ calls' = calls \cup {c} /\ plan_delete(l.ids) /\ pc[r] = "plan"
        /\ local'[r] = [l EXCEPT !.plan = e, !.ids = {}]
    BY <1>4, OwnerFacts DEF PlanSubjects, Send, At
  <2>2. c.by = r /\ c.op = "delete" /\ c.from = l.from /\ c.ids = {}
    BY DEF DeleteCall
  <2> HIDE DEF c, e
  <2>3. local'[r].plan = e /\ local'[r].reply = "none"
    BY <1>1, <1>2, <2>1 DEF Local
  <2>4. l.ids = FacesOf(l.from) /\ l.from \subseteq Subject
    BY <1>1, <2>1, LocalFields DEF AInv, Counts
  <2>5. Targets(c) \subseteq l.ids /\ l.ids \subseteq Face /\ \A f \in l.ids : subject[f] # None
    BY <2>2, <2>4, NoneAssumption DEF Targets, FacesOf
  <2> QED
    BY <1>3, <2>1, <2>2, <2>3, <2>5 DEF e
<1>5. ASSUME NEW F \in SUBSET Face, DeleteFaces(r, F) PROVE AInv'
  <2> DEFINE c == [DeleteCall({}, F) EXCEPT !.by = r]
             e == DeletePlan(F)
  <2>1. calls' = calls \cup {c} /\ plan_delete(F) /\ local'[r] = [l EXCEPT !.plan = e]
    BY <1>5, OwnerFacts DEF DeleteFaces, Send
  <2>2. c.by = r /\ c.op = "delete" /\ c.ids = F /\ c.from = {}
    BY DEF DeleteCall
  <2> HIDE DEF c, e
  <2>3. local'[r].plan = e /\ local'[r].reply = "none"
    BY <1>1, <1>2, <2>1 DEF Local
  <2>4. Targets(c) \subseteq F
    BY <2>2 DEF Targets, FacesOf
  <2> QED
    BY <1>3, <2>1, <2>2, <2>3, <2>4 DEF e
<1> QED BY <1>4, <1>5

\* Calls nobody waits for any more keep what they aim at.
LEMMA AbandonCounts ==
  ASSUME AInv, calls \subseteq Call, UNCHANGED <<subject, picture, deletes>>,
         NEW M \in SUBSET calls, calls' = (calls \ M) \cup Abandoned(M)
  PROVE  DeletesPlanned' /\ OneDelete'
<1>1. ASSUME NEW c \in calls'
      PROVE  \E x \in calls :
               /\ c.op = x.op /\ c.from = x.from /\ c.ids = x.ids
               /\ c = IF x \in M THEN [x EXCEPT !.by = None] ELSE x
  <2>1. CASE c \in calls \ M
    BY <2>1
  <2>2. CASE c \in Abandoned(M)
    BY <2>2 DEF Abandoned, Call
  <2> QED BY <1>1, <2>1, <2>2
<1>2. ASSUME NEW c \in calls', NEW x \in calls, c.from = x.from, c.ids = x.ids
      PROVE  (Spent(x) => Spent(c)') /\ (Aimed(x) => Aimed(c)')
  BY <1>2 DEF Spent, Gone, Aimed, Targets, FacesOf, prepared_deletes
<1>3. DeletesPlanned'
  BY <1>1, <1>2 DEF AInv, DeletesPlanned
<1>4. OneDelete'
  BY <1>1, <1>2 DEF AInv, OneDelete
<1> QED
  BY <1>3, <1>4

\* A delete that is answered has no other beside it that could do something.
LEMMA AnswerCounts ==
  ASSUME IInv, IInv', JInv, OInv, AInv, NEW r \in Request,
         AddSucceeded(r) \/ DeleteSucceeded(r) \/ DeleteRejected(r) \/ Unanswered(r)
  PROVE  AInv'
<1> DEFINE l == local[r]
<1>1. /\ pc[r] = "await" /\ ~Outside(pc[r]) /\ UNCHANGED <<subject, picture>>
      /\ Holds("await", l, uploads, prepared_deletes) /\ AwaitKnows(l) /\ Counts("await", l)
  BY OwnerFacts
  DEF AddSucceeded, DeleteSucceeded, DeleteRejected, Unanswered, Answered, At, Outside,
      backendVars, OInv, HandlerKnows, Knows, AInv
<1>2. CASE AddSucceeded(r)
  <2>1. /\ complete_upload(l.upload, l.face) /\ pc'[r] = "idle" /\ lock' = None /\ calls' = calls
        /\ l.upload \in uploads /\ l.face \in Face /\ picture[l.face] = l.upload.key
    BY <1>1, <1>2, OwnerFacts DEF AddSucceeded, Answered, Holds, AwaitKnows, backendVars
  <2>2. subject[l.face] # None
    BY <2>1 DEF AInv, UploadsAlive
  <2> QED
    BY <1>1, <2>1, <2>2, CompleteCounts
<1>3. CASE DeleteSucceeded(r)
  <2>1. /\ finish_delete({l.plan}) /\ pc'[r] = "flush" /\ lock' = lock /\ calls' = calls
        /\ {l.plan} \in SUBSET prepared_deletes
        /\ \A c \in calls : c.op = "delete" => Spent(c)
    BY <1>1, <1>3, OwnerFacts DEF DeleteSucceeded, Answered, Holds, Counts, backendVars
  <2> QED
    BY <1>1, <2>1, FinishCounts
<1>4. CASE DeleteRejected(r)
  <2>1. /\ discard_delete(l.plan) /\ pc'[r] = "idle" /\ lock' = None /\ calls' = calls
        /\ l.plan \in prepared_deletes /\ \A c \in calls : c.op = "delete" => Spent(c)
        /\ \A f \in l.plan.faces : images[f] # None => subject[f] # None
    BY <1>1, <1>4, OwnerFacts DEF DeleteRejected, Answered, Holds, Counts, backendVars
  <2>2. \A d \in prepared_deletes : d = l.plan
    BY <2>1 DEF IInv, OneIntent
  <2>3. NoStaleImage'
    BY <1>1, <2>1, <2>2 DEF AInv, NoStaleImage, discard_delete
  <2>4. DeletesPlanned' /\ OneDelete'
    BY <1>1, <2>1 DEF DeletesPlanned, OneDelete, Spent, Gone
  <2>5. UploadsAlive'
    BY <1>1, <2>1, UploadsStay DEF discard_delete
  <2>6. Counts(pc[r], local[r])'
    BY <2>1 DEF Counts
  <2> QED
    BY <1>1, <2>1, <2>3, <2>4, <2>5, <2>6, OwnerCounts
<1>5. CASE Unanswered(r)
  <2> DEFINE mine == {c \in calls : c.by = r}
  <2>1. /\ pc'[r] = "idle" /\ lock' = None /\ calls' = (calls \ mine) \cup Abandoned(mine)
        /\ UNCHANGED <<images, uploads, deletes>>
    BY <1>5, OwnerFacts DEF Unanswered, journalVars
  <2>2. DeletesPlanned' /\ OneDelete'
    BY <1>1, <2>1, AbandonCounts DEF IInv, TypeInv, TypeOK, BackendTypeOK
  <2>3. NoStaleImage' /\ UploadsAlive'
    BY <1>1, <2>1, UploadsStay DEF AInv, NoStaleImage, prepared_deletes
  <2>4. Counts(pc[r], local[r])'
    BY <2>1 DEF Counts
  <2> QED
    BY <1>1, <2>1, <2>2, <2>3, <2>4, OwnerCounts
<1> QED BY <1>2, <1>3, <1>4, <1>5

LEMMA ServeCounts ==
  ASSUME IInv, IInv', JInv, OInv, AInv, NEW r \in Request, Serve(r)
  PROVE  AInv'
<1>1. ASSUME NEW S \in {{s} : s \in Subject} \cup {Subject}, DeleteSubjects(r, S)
      PROVE  AInv'
  <2>1. S \in SUBSET Subject
    OBVIOUS
  <2> QED
    BY <1>1, <2>1, ReadCounts
<1> QED
  BY <1>1, ReadCounts, BeginCounts, SentCounts, PlanCounts, AnswerCounts DEF Serve

\* A registration is executed: its intent keeps every delete without effect.
LEMMA AddKeepsCounts ==
  ASSUME IInv, JInv, OInv, AInv, NEW c \in calls, NEW f \in Face,
         CommitAdd(c, f), Answer(c, "ok", f), UNCHANGED <<storeVars, journalVars>>
  PROVE  AInv'
<1>1. PICK u \in uploads : u.key = c.key /\ u.subject = c.to /\ u.subject # None /\ Unused(u.key)
  BY OwnAdd DEF CommitAdd
<1>2. prepared_deletes = {} /\ \A d \in calls : d.op = "delete" => Spent(d)
  BY <1>1, Apart, AllSpent
<1>3. /\ \A g \in Face : subject'[g] = IF g = f THEN u.subject ELSE subject[g]
      /\ \A g \in Face : picture'[g] = IF g = f THEN u.key ELSE picture[g]
      /\ picture[f] = None /\ calls' = calls \ {c}
      /\ UNCHANGED <<images, uploads, deletes, pc>> /\ prepared_deletes' = {}
  BY <1>1, <1>2, AnswerTo
  DEF CommitAdd, IInv, TypeInv, TypeOK, BackendTypeOK, storeVars, journalVars, prepared_deletes
<1>4. NoStaleImage' /\ UploadsAlive'
  BY <1>1, <1>2, <1>3 DEF AInv, NoStaleImage, UploadsAlive
<1>5. DeletesPlanned' /\ OneDelete'
  <2>1. \A d \in calls : d.ids \subseteq Face
    BY DEF IInv, TypeInv, TypeOK, BackendTypeOK, Call
  <2> QED
    BY <1>2, <1>3, <2>1 DEF DeletesPlanned, OneDelete, Spent, Gone
<1>6. ASSUME NEW q \in Request PROVE Counts(pc[q], local[q])'
  <2>1. /\ pc'[q] = pc[q] /\ Counts(pc[q], local[q])
        /\ Holds(pc[q], local[q], uploads, prepared_deletes)
        /\ Promise(pc[q], local[q], uploads, prepared_deletes)
    BY <1>3, OwnerFacts, Facts DEF AInv
  <2>2. /\ local'[q].plan = local[q].plan /\ local'[q].upload = local[q].upload
        /\ pc[q] = "put" => local'[q].face = local[q].face
    <3>1. CASE q = c.by
      BY <3>1, AnswerTo, NoneAssumption
    <3>2. CASE q # c.by
      BY <3>2, AnswerTo
    <3> QED BY <3>1, <3>2
  <2>3. pc[q] # "plan"
    BY <1>1, <2>1 DEF Promise, Foreseen, Outside
  <2>4. ~(pc[q] = "await" /\ local[q].plan # None)
    BY <1>2, <2>1 DEF Holds
  <2>5. pc[q] = "put" /\ local[q].upload.subject = None => subject'[local'[q].face] # None
    BY <1>1, <1>3, <2>1, <2>2 DEF Counts, Holds
  <2> QED
    BY <2>1, <2>2, <2>3, <2>4, <2>5 DEF Counts
<1> QED
  BY <1>4, <1>5, <1>6 DEF AInv

\* A call ends that has unregistered nothing.
LEMMA EndCounts ==
  ASSUME IInv, JInv, AInv, NEW c \in calls, NEW x \in {"ok", "rejected"}, Answer(c, x, None),
         calls' = calls \ {c}, UNCHANGED <<subject, picture, storeVars, journalVars>>
  PROVE  AInv'
<1>1. /\ UNCHANGED <<images, uploads, deletes, pc>> /\ prepared_deletes' = prepared_deletes
  BY AnswerTo DEF storeVars, journalVars, prepared_deletes
<1>2. NoStaleImage' /\ UploadsAlive'
  BY <1>1, UploadsStay DEF AInv, NoStaleImage
<1>3. DeletesPlanned' /\ OneDelete'
  BY <1>1 DEF AInv, DeletesPlanned, OneDelete, Spent, Aimed, Gone, Targets, FacesOf
<1>4. ASSUME NEW q \in Request, q # c.by PROVE Counts(pc[q], local[q])'
  <2>1. local'[q] = local[q] /\ pc'[q] = pc[q]
    BY <1>1, <1>4, AnswerTo
  <2> QED
    BY <1>1, <2>1 DEF AInv, Counts, Spent, Gone, FacesOf
<1>5. ASSUME c.by # None PROVE Counts(pc[c.by], local[c.by])'
  <2>1. /\ c.by \in Request /\ pc[c.by] = "await" /\ pc'[c.by] = "await"
        /\ local'[c.by].plan = local[c.by].plan /\ local[c.by].reply = "none"
        /\ Counts("await", local[c.by])
    BY <1>1, <1>5, AnswerTo DEF AInv, JInv, TasksOK, CallsOwned
  <2>2. \A d \in calls' : d.by = None
    <3>1. ASSUME NEW d \in calls \ {c}, d.by # None PROVE FALSE
      BY <2>1, <3>1, OwnCalls, AnswerTo DEF Outside, JInv
    <3> QED BY <3>1
  <2> QED
    BY <1>1, <2>1, <2>2 DEF Counts, Spent, Gone
<1>6. \A q \in Request : Counts(pc[q], local[q])'
  BY <1>4, <1>5, NoneAssumption
<1> QED
  BY <1>2, <1>3, <1>6 DEF AInv

\* A delete is executed that was not spent: it keeps to its plan, no intent is
\* in the tables, and it was the last delete that could do anything.
LEMMA DeleteKeepsCounts ==
  ASSUME IInv, JInv, AInv, NEW c \in calls, CommitDelete(c), Answer(c, "ok", None),
         UNCHANGED <<storeVars, journalVars>>
  PROVE  AInv'
<1>1. /\ UNCHANGED <<images, uploads, deletes, pc, picture>> /\ prepared_deletes' = prepared_deletes
      /\ calls' = calls \ {c} /\ subject \in [Face -> Subject \cup {None}]
      /\ subject' = [f \in Face |-> IF f \in Targets(c) THEN None ELSE subject[f]]
  BY AnswerTo DEF CommitDelete, storeVars, journalVars, prepared_deletes, IInv, TypeInv, TypeOK,
     BackendTypeOK
<1>2. CASE Spent(c)
  <2>1. \A f \in Targets(c) : subject[f] = None
    BY <1>1, <1>2 DEF Spent, Gone, Targets, FacesOf
  <2>2. subject' = subject
    BY <1>1, <2>1
  <2> QED
    BY <1>1, <2>2, EndCounts
<1>3. CASE ~Spent(c)
  <2>1. PICK d \in prepared_deletes : Targets(c) \subseteq d.faces
    BY <1>3 DEF AInv, DeletesPlanned, CommitDelete, Aimed
  <2>2. uploads = {}
    BY <2>1, Apart
  <2>3. \A e \in calls' : e.op = "delete" => Spent(e)
    BY <1>1, <1>3 DEF AInv, OneDelete, CommitDelete
  <2>4. \A e \in calls' : e.op = "delete" => Spent(e)'
    <3>1. \A e \in calls : e.ids \subseteq Face
      BY DEF IInv, TypeInv, TypeOK, BackendTypeOK, Call
    <3> QED
      BY <1>1, <2>3, <3>1 DEF Spent, Gone
  <2>5. NoStaleImage' /\ UploadsAlive'
    BY <1>1, <2>1, <2>2 DEF AInv, NoStaleImage, UploadsAlive
  <2>6. DeletesPlanned' /\ OneDelete'
    BY <2>4 DEF DeletesPlanned, OneDelete
  <2>7. ASSUME NEW q \in Request PROVE Counts(pc[q], local[q])'
    <3>1. /\ pc'[q] = pc[q] /\ Counts(pc[q], local[q]) /\ pc[q] # "put" /\ pc[q] # "plan"
      BY <1>1, <2>1, <2>2, OwnerFacts, Facts DEF AInv, Promise, Holds
    <3>2. pc[q] = "await" /\ local[q].plan # None => q = c.by
      <4>1. ASSUME pc[q] = "await", local[q].plan # None PROVE q = c.by
        <5>1. c.by # None
          BY <1>3, <3>1, <4>1 DEF Counts, CommitDelete
        <5> QED
          BY <4>1, <5>1, OwnCalls DEF JInv, Outside
      <4> QED BY <4>1
    <3>3. q = c.by => local'[q].reply = "ok" /\ local'[q].plan = local[q].plan
      BY AnswerTo, NoneAssumption
    <3>4. q # c.by => local'[q] = local[q]
      BY AnswerTo
    <3> QED
      BY <2>4, <3>1, <3>2, <3>3, <3>4 DEF Counts
  <2> QED
    BY <2>5, <2>6, <2>7 DEF AInv
<1> QED BY <1>2, <1>3

\* A rename is executed while its handler waits: who is registered stays so.
LEMMA RenameKeepsCounts ==
  ASSUME IInv, IInv', JInv, OInv, AInv, NEW c \in calls, CommitRename(c), Answer(c, "ok", None),
         UNCHANGED <<storeVars, journalVars>>
  PROVE  AInv'
<1> DEFINE r == c.by
<1>1. /\ r \in Request /\ pc[r] = "await" /\ ~Outside(pc[r]) /\ c.ids = {} /\ c.to # None
      /\ local[r].upload = None /\ local[r].plan = None /\ local'[r].plan = None
  BY AnswerTo
  DEF CommitRename, OInv, CallsOK, RenamesOwned, DeletesAim, JInv, TasksOK, CallsOwned, Outside
<1>2. uploads = {} /\ prepared_deletes = {}
  BY <1>1, Facts DEF Promise, Foreseen, Mine
<1>3. /\ calls' = calls \ {c} /\ UNCHANGED <<picture, images, uploads, deletes, pc, lock>>
      /\ prepared_deletes' = {}
      /\ \A f \in Face : subject'[f] = None <=> subject[f] = None
  <2>1. \A f \in FacesOf(c.from) : subject[f] # None
    BY NoneAssumption DEF FacesOf, IInv, TypeInv, TypeOK, BackendTypeOK, Call
  <2>2. UNCHANGED <<images, uploads, deletes, pc, lock>>
    BY AnswerTo DEF Answer, storeVars, journalVars
  <2> QED
    BY <1>1, <1>2, <2>1, <2>2 DEF CommitRename, Targets, prepared_deletes
<1>4. NoStaleImage' /\ UploadsAlive'
  BY <1>2, <1>3 DEF AInv, NoStaleImage, UploadsAlive
<1>5. DeletesPlanned' /\ OneDelete'
  <2>1. \A e \in calls : e.op = "delete" => Spent(e)
    BY <1>2, AllSpent
  <2>2. \A e \in calls : e.ids \subseteq Face
    BY DEF IInv, TypeInv, TypeOK, BackendTypeOK, Call
  <2> QED
    BY <1>3, <2>1, <2>2 DEF DeletesPlanned, OneDelete, Spent, Gone
<1>6. Counts(pc[r], local[r])'
  BY <1>1, <1>3 DEF Counts
<1> HIDE DEF r
<1> QED
  BY <1>1, <1>3, <1>4, <1>5, <1>6, OwnerCounts

LEMMA BackendCounts ==
  ASSUME IInv, IInv', JInv, OInv, AInv, BackendStep
  PROVE  AInv'
<1>1. ASSUME NEW c \in calls, DropCall(c), Answer(c, "rejected", None),
             UNCHANGED <<storeVars, journalVars>>
      PROVE  AInv'
  BY <1>1, EndCounts DEF DropCall
<1> QED
  BY <1>1, AddKeepsCounts, DeleteKeepsCounts, RenameKeepsCounts DEF BackendStep

\* The gateway stands still, or is settled by hand with no call in flight.
LEMMA IdleCounts ==
  ASSUME IInv, JInv, OInv, AInv, Crash \/ Reconcile
  PROVE  AInv'
<1>1. UNCHANGED <<subject, picture>> /\ \A q \in Request : pc'[q] = "idle"
  BY DEF Crash, Reconcile, ReconcileUpload, ReconcileUndeleted, ReconcileDeleted, Quiet, Task,
         backendVars, gatewayVars
<1>2. \A q \in Request : Counts(pc[q], local[q])'
  BY <1>1 DEF Counts
<1>3. CASE Crash
  <2>1. /\ UNCHANGED <<images, uploads, deletes>>
        /\ calls' = (calls \ calls) \cup Abandoned(calls)
    BY <1>3 DEF Crash, journalVars
  <2>2. DeletesPlanned' /\ OneDelete'
    BY <1>1, <2>1, AbandonCounts DEF IInv, TypeInv, TypeOK, BackendTypeOK
  <2>3. NoStaleImage' /\ UploadsAlive'
    BY <1>1, <2>1, UploadsStay DEF AInv, NoStaleImage, prepared_deletes
  <2> QED
    BY <1>2, <2>2, <2>3 DEF AInv
<1>4. CASE Reconcile
  <2>1. calls = {} /\ calls' = {}
    BY <1>4 DEF Reconcile, ReconcileUpload, ReconcileUndeleted, ReconcileDeleted, Quiet, backendVars
  <2>2. DeletesPlanned' /\ OneDelete'
    BY <2>1 DEF DeletesPlanned, OneDelete
  <2>3. uploads' \subseteq uploads
    BY <1>4 DEF Reconcile, ReconcileUpload, ReconcileUndeleted, ReconcileDeleted,
       discard_upload, discard_delete, finish_delete_of
  <2>4. NoStaleImage'
    <3>1. CASE ReconcileUpload
      BY <1>1, <3>1, Discarded DEF ReconcileUpload, AInv, NoStaleImage
    <3>2. CASE ReconcileUndeleted
      <4>1. PICK d \in prepared_deletes : d.faces \subseteq FacesOf(Subject) /\ discard_delete(d)
        BY <3>2 DEF ReconcileUndeleted
      <4>2. \A f \in d.faces : subject[f] # None
        BY <4>1, NoneAssumption DEF FacesOf
      <4> QED
        BY <1>1, <4>1, <4>2 DEF AInv, NoStaleImage, discard_delete, prepared_deletes
    <3>3. CASE ReconcileDeleted
      <4>1. PICK d \in prepared_deletes : finish_delete_of(d, d.faces \ FacesOf(Subject))
        BY <3>3 DEF ReconcileDeleted
      <4>2. \A f \in Face : images'[f] # None =>
              images[f] = images'[f] /\ (f \notin d.faces \/ f \in FacesOf(Subject))
        BY <4>1 DEF finish_delete_of
      <4>3. \A e \in prepared_deletes : e # d => e \in prepared_deletes'
        BY <4>1 DEF finish_delete_of, prepared_deletes
      <4> QED
        BY <1>1, <4>2, <4>3, NoneAssumption DEF AInv, NoStaleImage, FacesOf
    <3> QED
      BY <1>4, <3>1, <3>2, <3>3 DEF Reconcile
  <2> QED
    BY <1>1, <1>2, <2>2, <2>3, <2>4, UploadsStay DEF AInv
<1> QED BY <1>3, <1>4

\* Nothing the associations depend on has changed.
LEMMA SameCounts ==
  ASSUME AInv, UNCHANGED <<subject, picture, calls, images, uploads, deletes, pc, local>>
  PROVE  AInv'
<1>1. \A q \in Request : Counts(pc[q], local[q])'
  BY CountsKept DEF AInv
<1> QED
  BY <1>1, CallsStay, UploadsStay DEF AInv, NoStaleImage, prepared_deletes

LEMMA AssociationsInit == Init => AInv
<1> SUFFICES ASSUME Init PROVE AInv
    OBVIOUS
<1>1. /\ \A f \in Face : images[f] = None
      /\ uploads = {} /\ calls = {} /\ \A r \in Request : pc[r] = "idle"
  BY DEF Init, BackendInit, JournalInit, Task
<1> QED
  BY <1>1 DEF AInv, NoStaleImage, UploadsAlive, DeletesPlanned, OneDelete, Counts

LEMMA AssociationsStep ==
  ASSUME Bypass = {}
  PROVE  IInv /\ IInv' /\ JInv /\ OInv /\ AInv /\ [Next]_vars => AInv'
<1> SUFFICES ASSUME IInv, IInv', JInv, OInv, AInv, [Next]_vars PROVE AInv'
    OBVIOUS
<1>1. CASE UNCHANGED vars \/ StoreStep
  <2>1. UNCHANGED <<subject, picture, calls, images, uploads, deletes, pc, local>>
    BY <1>1 DEF vars, StoreStep, backendVars, journalVars, gatewayVars
  <2> QED
    BY <2>1, SameCounts
<1>2. CASE Environment
  BY <1>1, <1>2, BackendCounts, IdleCounts DEF Environment, BypassAdd, BypassDelete
<1>3. CASE Next
  BY <1>2, <1>3, ArriveCounts, RecoverCounts, ServeCounts, WorkerCounts, FlushCounts DEF Next
<1> QED BY <1>1, <1>3

LEMMA AssociationsTracked ==
  ASSUME "put" \notin Late, "rename" \notin Late, Bypass = {}
  PROVE  Spec => []AInv
<1>1. IInv /\ IInv' /\ JInv /\ OInv /\ AInv /\ [Next]_vars => AInv'
  BY AssociationsStep
<1>2. Spec => []JInv
  BY ObjectsTracked
<1>3. Spec => []OInv
  BY OriginalsTracked
<1> QED
  BY <1>1, <1>2, <1>3, AssociationsInit, Inductive, PTL DEF Spec

\* With no writer beside the gateway, a face that is gone from the backend has
\* an association only while a prepared delete names it, whatever times out,
\* crashes or is executed late, renames excepted (app.py:150-171, 244-281).
THEOREM NothingStale ==
  ASSUME "put" \notin Late, "rename" \notin Late, Bypass = {}
  PROVE  Spec => []NoStaleImage
<1>1. Spec => []AInv
  BY AssociationsTracked
<1>2. AInv => NoStaleImage
  BY DEF AInv
<1> QED
  BY <1>1, <1>2, PTL

-----------------------------------------------------------------------------
(* The refinement: every step is one of the archive, or none.              *)

Implements == Archive!Next \/ UNCHANGED Archive!vars

Held(k) == \E f \in Face : images[f] = k
Claimed(k) == \E u \in uploads : u.key = k
Condemned(k) == \E d \in ready_deletes : k \in d.keys
Fresh(k) == k \notin minted \/ \E r \in Request : At(r, "begin") /\ local[r].upload.key = k

\* An object appears once: a put in flight has not been executed before.
PutsNew == \A p \in puts : store[p.key] = None

\* A key is in one stage at a time.
StageOK(k) ==
  /\ Held(k) => ~Claimed(k) /\ ~Condemned(k) /\ ~Fresh(k)
  /\ Claimed(k) => ~Condemned(k) /\ ~Fresh(k)
  /\ Condemned(k) => ~Fresh(k)
  /\ Held(k) => Stage(k) = "held"
  /\ Claimed(k) => Stage(k) = "claimed"
  /\ Condemned(k) => Stage(k) = "condemned"
  /\ Fresh(k) => Stage(k) = "fresh"

StagesOK == \A k \in Key : StageOK(k)

LEMMA StageIs == IInv /\ JInv => StagesOK
<1> SUFFICES ASSUME IInv, JInv, NEW k \in Key PROVE StageOK(k)
  BY DEF StagesOK
<1>1. Held(k) \/ Condemned(k) => Retired(k)
  BY DEF Held, Condemned, JInv, TablesOK, ImagesApart, OutgoingApart, Outgoing, ready_deletes,
     IInv, TypeInv, TypeOK, JournalTypeOK
<1>2. Held(k) => ~Condemned(k)
  BY DEF Held, Condemned, JInv, TablesOK, OutgoingApart, Outgoing, ready_deletes,
     IInv, TypeInv, TypeOK, JournalTypeOK
<1>3. Retired(k) => ~Claimed(k) /\ ~Fresh(k)
  BY DEF Retired, Claimed, Fresh
<1>4. Claimed(k) => ~Fresh(k)
  <2>1. ASSUME NEW r \in Request, At(r, "begin") PROVE uploads = {}
    BY <2>1, Facts DEF Promise, Foreseen, Outside, At
  <2> QED
    BY <2>1 DEF Claimed, Fresh, JInv, TasksOK, LiveKeys
<1>5. Stage(k) = CASE Held(k) -> "held" [] Claimed(k) -> "claimed" [] Condemned(k) -> "condemned"
                   [] Fresh(k) -> "fresh" [] OTHER -> "gone"
  BY DEF Stage, Held, Claimed, Condemned, Fresh
<1> QED
  BY <1>1, <1>2, <1>3, <1>4, <1>5 DEF StageOK

LEMMA StageThen == IInv' /\ JInv' => StagesOK'
<1>1. IInv /\ JInv => StagesOK
  BY StageIs
<1> QED
  BY <1>1, PTL

LEMMA StageSame ==
  ASSUME NEW k, Held(k)' = Held(k), Claimed(k)' = Claimed(k), Condemned(k)' = Condemned(k),
         Fresh(k)' = Fresh(k)
  PROVE  Stage(k)' = Stage(k)
  BY DEF Stage, Held, Claimed, Condemned, Fresh

\* The owner neither takes a new key nor starts with one.
LEMMA FreshSame ==
  ASSUME IInv, IInv', NEW r \in Request, ~Outside(pc[r]), lock' \in {lock, None},
         pc[r] # "begin", pc'[r] # "begin", minted' = minted
  PROVE  \A k \in Key : Fresh(k)' = Fresh(k)
<1>1. \A q \in Request : ~At(q, "begin") /\ ~At(q, "begin")'
  BY Alone DEF At, Outside
<1> QED
  BY <1>1 DEF Fresh

\* The archive does not see who waits, what is planned, and what is read.
LEMMA Unseen ==
  ASSUME UNCHANGED <<images, uploads, store, picture>>, ready_deletes' = ready_deletes,
         \A f \in Face : (subject'[f] = None) = (subject[f] = None),
         \A k \in Key : Fresh(k)' = Fresh(k)
  PROVE  Implements
<1>1. \A k \in Key : Stage(k)' = Stage(k)
  BY StageSame DEF Held, Claimed, Condemned
<1> QED
  BY <1>1 DEF Implements, Archive!vars

LEMMA MapsDiscard ==
  ASSUME IInv, IInv', JInv, JInv', NEW u \in uploads, discard_upload(u),
         UNCHANGED <<subject, picture, store>>, \A k \in Key : Fresh(k)' = Fresh(k),
         \A f \in Face : picture[f] = u.key => subject[f] = None
  PROVE  Implements
<1> DEFINE e == [faces |-> {}, keys |-> {u.key}, ready |-> TRUE]
<1>1. u.key \in Key /\ uploads = {u} /\ uploads' = {} /\ images' = images
  BY DEF discard_upload, IInv, OneIntent, TypeInv, TypeOK, JournalTypeOK, UploadRow
<1>2. ready_deletes' = ready_deletes \cup {e} /\ e.keys = {u.key}
  BY DEF discard_upload, ready_deletes
<1> HIDE DEF e
<1>3. Stage(u.key) = "claimed" /\ Stage(u.key)' = "condemned"
  BY <1>1, <1>2, StageIs, StageThen DEF StagesOK, StageOK, Claimed, Condemned
<1>4. \A k \in Key \ {u.key} : Stage(k)' = Stage(k)
  BY <1>1, <1>2, StageSame DEF Held, Claimed, Condemned
<1>5. \A f \in Face : (IF subject[f] = None THEN None ELSE picture[f]) # u.key
  BY <1>1, NoneAssumption
<1>6. Archive!Discard(u.key)
  BY <1>1, <1>3, <1>4, <1>5 DEF Archive!Discard, Archive!Move
<1> QED
  BY <1>1, <1>6 DEF Implements, Archive!Next

LEMMA MapsHold ==
  ASSUME IInv, IInv', JInv, JInv', NEW u \in uploads, NEW f \in Face, complete_upload(u, f),
         UNCHANGED <<subject, picture, store>>, \A k \in Key : Fresh(k)' = Fresh(k),
         subject[f] # None, picture[f] # None, store[u.key] = picture[f]
  PROVE  Implements
<1>1. /\ u.key \in Key /\ uploads = {u} /\ uploads' = {} /\ ready_deletes' = ready_deletes
      /\ images[f] = None /\ images' = [images EXCEPT ![f] = u.key]
      /\ images \in [Face -> Key \cup {None}]
  BY DEF complete_upload, IInv, OneIntent, TypeInv, TypeOK, JournalTypeOK, UploadRow, ready_deletes
<1>2. Stage(u.key) = "claimed" /\ Stage(u.key)' = "held"
  BY <1>1, StageIs, StageThen DEF StagesOK, StageOK, Claimed, Held
<1>3. ASSUME NEW k \in Key \ {u.key} PROVE Stage(k)' = Stage(k)
  <2>1. Held(k)' = Held(k)
    BY <1>1, <1>3, NoneAssumption DEF Held
  <2> QED
    BY <1>1, <1>3, <2>1, StageSame DEF Claimed, Condemned
<1>4. Archive!Hold(f, u.key)
  BY <1>1, <1>2, <1>3 DEF Archive!Hold, Archive!Move
<1> QED
  BY <1>1, <1>4 DEF Implements, Archive!Next

\* The faces F lose their associations, and the row e queues their objects.
LEMMA MapsForget ==
  ASSUME IInv, IInv', JInv, JInv', NEW F \in SUBSET Face, NEW e,
         \A f \in F : subject[f] = None,
         images' = [f \in Face |-> IF f \in F THEN None ELSE images[f]],
         ready_deletes' = ready_deletes \cup {e}, e.keys = {images[f] : f \in F} \ {None},
         UNCHANGED <<subject, picture, store, uploads>>, \A k \in Key : Fresh(k)' = Fresh(k)
  PROVE  Implements
<1> DEFINE G == {f \in F : images[f] # None}
<1>1. images \in [Face -> Key \cup {None}] /\ e.keys = {images[f] : f \in G}
  BY DEF IInv, TypeInv, TypeOK, JournalTypeOK
<1>2. \A k \in e.keys : k \in Key /\ Stage(k)' = "condemned"
  BY <1>1, StageThen DEF StagesOK, StageOK, Condemned
<1>3. ASSUME NEW k \in Key \ e.keys PROVE Stage(k)' = Stage(k)
  <2>1. Held(k)' = Held(k)
    BY <1>1, <1>3, NoneAssumption DEF Held
  <2> QED
    BY <1>3, <2>1, StageSame DEF Claimed, Condemned
<1>4. images' = [f \in Face |-> IF f \in G THEN None ELSE images[f]]
  BY <1>1
<1>5. \A f \in G : f \in Face /\ subject[f] = None /\ images[f] # None
  OBVIOUS
<1>6. Archive!Forget(G)
  <2>1. [k \in Key |-> Stage(k)]' =
          [k \in Key |-> IF k \in {images[f] : f \in G} THEN "condemned" ELSE [x \in Key |-> Stage(x)][k]]
    BY <1>1, <1>2, <1>3
  <2> HIDE DEF G
  <2> QED
    BY <1>4, <1>5, <2>1 DEF Archive!Forget, Archive!Move
<1>7. G \in SUBSET Face
  OBVIOUS
<1> QED
  BY <1>6, <1>7 DEF Implements, Archive!Next

\* Plans whose faces are all gone are finished.
LEMMA MapsFinish ==
  ASSUME IInv, IInv', JInv, JInv', NEW D \in SUBSET prepared_deletes, finish_delete(D),
         \A d \in D : \A f \in d.faces : subject[f] = None,
         UNCHANGED <<subject, picture, store>>, \A k \in Key : Fresh(k)' = Fresh(k)
  PROVE  Implements
<1>1. \A d \in prepared_deletes : d \in DeleteRow /\ ~d.ready /\ d.faces \subseteq Face
  BY DEF prepared_deletes, IInv, TypeInv, TypeOK, JournalTypeOK, DeleteRow
<1>2. CASE D = {}
  <2>1. images' = images /\ deletes' = deletes /\ uploads' = uploads
    BY <1>2 DEF finish_delete, IInv, TypeInv, TypeOK, JournalTypeOK
  <2> QED
    BY <2>1, Unseen DEF ready_deletes
<1>3. ASSUME NEW d \in D PROVE Implements
  <2> DEFINE e == [d EXCEPT !.ready = TRUE]
  <2>1. D = {d}
    BY <1>3 DEF IInv, OneIntent
  <2>2. e.ready /\ e.keys = d.keys
    BY <1>1, <1>3 DEF DeleteRow
  <2>3. deletes' = (deletes \ {d}) \cup {e}
    BY <2>1 DEF finish_delete
  <2>4. images' = [f \in Face |-> IF f \in d.faces THEN None ELSE images[f]]
    BY <2>1 DEF finish_delete
  <2> HIDE DEF e
  <2>5. ready_deletes' = ready_deletes \cup {e}
    BY <1>1, <1>3, <2>2, <2>3 DEF ready_deletes
  <2>6. e.keys = {images[f] : f \in d.faces} \ {None}
    BY <1>3, <2>2 DEF JInv, TablesOK, PlansExact
  <2> QED
    BY <1>1, <1>3, <2>4, <2>5, <2>6, MapsForget DEF finish_delete
<1> QED BY <1>2, <1>3

\* An upload begins with a key that nobody has used.
LEMMA MapsClaim ==
  ASSUME IInv, IInv', JInv, JInv', NEW u, NEW k \in Key, u.key = k, Fresh(k),
         uploads' = uploads \cup {u}, UNCHANGED <<images, deletes, subject, picture, store>>,
         \A x \in Key \ {k} : Fresh(x)' = Fresh(x)
  PROVE  Implements
<1>1. Stage(k) = "fresh" /\ Stage(k)' = "claimed"
  BY StageIs, StageThen DEF StagesOK, StageOK, Claimed
<1>2. \A x \in Key \ {k} : Stage(x)' = Stage(x)
  BY StageSame DEF Held, Claimed, Condemned, ready_deletes
<1>3. Archive!Claim(k)
  BY <1>1, <1>2 DEF Archive!Claim, Archive!Move
<1> QED
  BY <1>3 DEF Implements, Archive!Next

-----------------------------------------------------------------------------
(* What the steps of a handler are to the archive.                         *)

\* The owner moves on, and the archive does not see it.
LEMMA OwnerUnseen ==
  ASSUME IInv, IInv', NEW r \in Request, ~Outside(pc[r]), lock' \in {lock, None},
         pc[r] # "begin", pc'[r] # "begin",
         UNCHANGED <<subject, picture, images, uploads, store, minted>>,
         ready_deletes' = ready_deletes
  PROVE  Implements
  BY FreshSame, Unseen

LEMMA RecoverMaps ==
  ASSUME IInv, IInv', JInv, JInv', OInv, AInv, NEW r \in Request, Recover(r)
  PROVE  Implements
<1> DEFINE l == local[r]
<1>1. /\ pc[r] \in {"uploads", "settle", "confirm"} /\ ~Outside(pc[r]) /\ pc[r] # "begin"
      /\ pc'[r] \in {"uploads", "settle", "confirm", "flush", "idle"} /\ lock' \in {lock, None}
      /\ UNCHANGED <<subject, picture, store, minted>>
  BY OwnerFacts DEF Recover, RecoverMigration, RecoverSnapshot, RecoverPlans, SettleAdopt,
         SettlePending, SettleAmbiguous, SettleConflict, Confirm, RecoverFails,
         At, Outside, backendVars, storeVars, flushVars
<1>2. /\ l \in Local /\ Holds(pc[r], l, uploads, prepared_deletes) /\ Knows(pc[r], l)
  BY OwnerFacts DEF OInv, HandlerKnows
<1>3. \A k \in Key : Fresh(k)' = Fresh(k)
  BY <1>1, FreshSame
<1>4. CASE RecoverMigration(r)
  <2>1. PICK u \in l.todo : u.subject = None /\ discard_upload(u)
    BY <1>4 DEF RecoverMigration
  <2>2. u \in uploads
    BY <1>2, <1>4, <2>1 DEF RecoverMigration, Holds, At
  <2>3. Unused(u.key)
    BY <2>1, <2>2 DEF OInv, RowsOK, Intents
  <2> QED
    BY <1>1, <1>3, <2>1, <2>2, <2>3, MapsDiscard DEF Unused
<1>5. CASE SettleAdopt(r)
  <2>1. PICK f \in Added(r) : complete_upload(l.upload, f)
    BY <1>5 DEF SettleAdopt
  <2>2. pc[r] = "settle"
    BY <1>5 DEF SettleAdopt, At
  <2>3. l.upload \in uploads /\ f \in Face /\ picture[f] = l.upload.key
    BY <1>2, <2>2, Facts, LocalFields DEF Holds, Promise, Added, Knows
  <2>4. subject[f] # None
    BY <2>3 DEF AInv, UploadsAlive
  <2> QED
    BY <1>1, <1>3, <2>1, <2>3, <2>4, Registered, MapsHold
<1>6. CASE Confirm(r)
  <2>1. /\ finish_delete(Confirmed(r)) /\ Confirmed(r) \in SUBSET prepared_deletes
        /\ pc[r] = "confirm"
    BY <1>6 DEF Confirm, Confirmed, At
  <2>2. \A d \in Confirmed(r) : \A f \in d.faces : subject[f] = None
    BY <1>2, <2>1 DEF Knows, Confirmed
  <2> QED
    BY <1>1, <1>3, <2>1, <2>2, MapsFinish
<1>7. CASE \/ RecoverSnapshot(r) \/ RecoverPlans(r) \/ SettlePending(r)
           \/ SettleAmbiguous(r) \/ SettleConflict(r) \/ RecoverFails(r)
  <2>1. UNCHANGED <<images, uploads, deletes>>
    BY <1>7 DEF RecoverSnapshot, RecoverPlans, SettlePending, SettleAmbiguous, SettleConflict,
       RecoverFails, journalVars
  <2> QED
    BY <1>1, <2>1, OwnerUnseen DEF ready_deletes
<1> QED
  BY <1>4, <1>5, <1>6, <1>7 DEF Recover

\* Requests that read, calls that are sent, and calls given up.
LEMMA ReadMaps ==
  ASSUME IInv, IInv', JInv, OInv, NEW r \in Request,
         \/ Respond(r) \/ ServeImage(r) \/ RenameAnswered(r) \/ Unanswered(r)
         \/ PlanSubjects(r) \/ DeleteRejected(r)
         \/ \E f \in Face : OpenImage(r, f)
         \/ \E S \in SUBSET Subject : DeleteSubjects(r, S)
         \/ \E F \in SUBSET Face : DeleteFaces(r, F)
         \/ \E a, b \in Subject : Rename(r, a, b)
  PROVE  Implements
<1>1. /\ ~Outside(pc[r]) /\ pc[r] # "begin" /\ lock' \in {lock, None}
      /\ pc'[r] \in {"idle", "get", "fetch", "plan", "await"}
      /\ UNCHANGED <<subject, picture, images, uploads, store, minted>>
  BY OwnerFacts DEF Respond, ServeImage, RenameAnswered, Unanswered, PlanSubjects, DeleteRejected,
     OpenImage, DeleteSubjects, DeleteFaces, Rename, Send, Answered, plan_delete, discard_delete,
     At, Outside, backendVars, storeVars, journalVars, flushVars
<1>2. CASE PlanSubjects(r) \/ \E F \in SUBSET Face : DeleteFaces(r, F)
  <2>1. PICK F : plan_delete(F)
    BY <1>2 DEF PlanSubjects, DeleteFaces
  <2>2. ~DeletePlan(F).ready
    BY DEF DeletePlan
  <2>3. ready_deletes' = ready_deletes
    BY <2>1, <2>2 DEF plan_delete, ready_deletes
  <2> QED
    BY <1>1, <2>3, OwnerUnseen
<1>3. CASE DeleteRejected(r)
  <2>1. discard_delete(local[r].plan) /\ local[r].plan \in prepared_deletes
    BY <1>3, OwnerFacts DEF DeleteRejected, Answered, At, Holds
  <2>2. ready_deletes' = ready_deletes
    BY <2>1 DEF discard_delete, ready_deletes, prepared_deletes
  <2> QED
    BY <1>1, <2>2, OwnerUnseen
<1>4. CASE \/ Respond(r) \/ ServeImage(r) \/ RenameAnswered(r) \/ Unanswered(r)
           \/ \E f \in Face : OpenImage(r, f)
           \/ \E S \in SUBSET Subject : DeleteSubjects(r, S)
           \/ \E a, b \in Subject : Rename(r, a, b)
  <2>1. ready_deletes' = ready_deletes
    BY <1>4 DEF Respond, ServeImage, RenameAnswered, Unanswered, OpenImage, DeleteSubjects,
       Rename, journalVars, ready_deletes
  <2> QED
    BY <1>1, <2>1, OwnerUnseen
<1> QED BY <1>2, <1>3, <1>4

\* A new key is taken, and then claimed by an intent.
LEMMA BeginMaps ==
  ASSUME IInv, IInv', JInv, JInv', OInv, NEW r \in Request,
         \/ \E s \in Subject : AddFace(r, s)
         \/ BeginAdd(r) \/ BeginMigration(r)
  PROVE  Implements
<1> DEFINE l == local[r]
<1>1. /\ l \in Local /\ ~Outside(pc[r]) /\ lock' = lock
      /\ UNCHANGED <<subject, picture, images, deletes, store>>
  BY OwnerFacts DEF AddFace, BeginAdd, BeginMigration, begin_upload, At, Outside,
     backendVars, storeVars, journalVars
<1>2. \A q \in Request \ {r} : ~At(q, "begin") /\ ~At(q, "begin")'
  BY <1>1, Alone DEF At, Outside
<1>3. ASSUME NEW s \in Subject, AddFace(r, s) PROVE Implements
  <2>1. PICK k \in Key \ minted :
          /\ minted' = minted \cup {k}
          /\ Keep(r, [l EXCEPT !.upload = [key |-> k, subject |-> s, previous |-> FacesOf({s})]])
    BY <1>3 DEF AddFace
  <2> DEFINE u == [key |-> k, subject |-> s, previous |-> FacesOf({s})]
  <2>2. pc[r] = "dispatch" /\ pc'[r] = "begin" /\ uploads' = uploads
    BY <1>3, OwnerFacts DEF AddFace, At, journalVars
  <2>3. local'[r] = [l EXCEPT !.upload = u] /\ u.key = k
    BY <2>1, OwnerFacts
  <2> HIDE DEF u
  <2>4. local'[r].upload.key = k
    BY <1>1, <2>3 DEF Local
  <2>5. \A x \in Key : Fresh(x)' = Fresh(x)
    BY <1>2, <2>1, <2>2, <2>4 DEF Fresh, At
  <2> QED
    BY <1>1, <2>2, <2>5, Unseen DEF ready_deletes
<1>4. CASE BeginAdd(r)
  <2> DEFINE k == l.upload.key
             u == [key |-> k, subject |-> l.upload.subject, previous |-> l.upload.previous]
  <2>1. /\ pc[r] = "begin" /\ pc'[r] = "put" /\ minted' = minted /\ local' = local
        /\ uploads' = uploads \cup {u}
    BY <1>4, OwnerFacts DEF BeginAdd, begin_upload, At, flushVars
  <2>2. u.key = k /\ k \in Key
    BY <1>1, <2>1, Facts, LocalFields DEF Promise, UploadRow
  <2>3. Fresh(k) /\ \A x \in Key \ {k} : Fresh(x)' = Fresh(x)
    BY <1>2, <2>1 DEF Fresh, At
  <2> HIDE DEF u, k
  <2> QED
    BY <1>1, <2>1, <2>2, <2>3, MapsClaim
<1>5. CASE BeginMigration(r)
  <2>1. PICK k \in Key \ minted : minted' = minted \cup {k} /\ begin_upload(k, None, l.ids)
    BY <1>5 DEF BeginMigration
  <2> DEFINE u == [key |-> k, subject |-> None, previous |-> l.ids]
  <2>2. pc[r] = "fetch" /\ pc'[r] = "put" /\ uploads' = uploads \cup {u} /\ u.key = k
    BY <1>5, <2>1, OwnerFacts DEF BeginMigration, begin_upload, At
  <2> HIDE DEF u
  <2>3. Fresh(k) /\ \A x \in Key \ {k} : Fresh(x)' = Fresh(x)
    BY <1>2, <2>1, <2>2 DEF Fresh, At
  <2> QED
    BY <1>1, <2>1, <2>2, <2>3, MapsClaim
<1> QED BY <1>3, <1>4, <1>5

\* What becomes of an upload whose put or whose call has ended, and of a plan
\* that was carried out.
LEMMA AnswerMaps ==
  ASSUME IInv, IInv', JInv, JInv', OInv, AInv, NEW r \in Request,
         \/ PutSucceeds(r) \/ PutFails(r)
         \/ AddSucceeded(r) \/ AddRejected(r) \/ DeleteSucceeded(r)
  PROVE  Implements
<1> DEFINE l == local[r]
           u == l.upload
<1>1. /\ pc[r] \in {"put", "await"} /\ ~Outside(pc[r]) /\ pc[r] # "begin"
      /\ lock' \in {lock, None} /\ pc'[r] \in {"await", "idle", "flush"}
      /\ Holds(pc[r], l, uploads, prepared_deletes) /\ Knows(pc[r], l) /\ Counts(pc[r], l)
      /\ UNCHANGED <<subject, picture, store, minted>>
  BY OwnerFacts
  DEF PutSucceeds, PutFails, AddSucceeded, AddRejected, DeleteSucceeded, Answered, Send, AbandonPut,
      At, Outside, flushVars, storeVars, backendVars, OInv, HandlerKnows, AInv
<1>2. \A k \in Key : Fresh(k)' = Fresh(k)
  BY <1>1, FreshSame
<1>3. CASE PutSucceeds(r) \/ PutFails(r)
  <2>1. pc[r] = "put" /\ u \in uploads /\ PutKnows(l)
    BY <1>1, <1>3, Facts DEF PutSucceeds, PutFails, At, Promise, Holds, Knows
  <2>2. CASE PutSucceeds(r) /\ u.subject = None
    <3>1. complete_upload(u, l.face) /\ l.face \in Face /\ subject[l.face] # None
      BY <1>1, <2>1, <2>2 DEF PutSucceeds, Holds, Counts
    <3>2. puts = {}
      BY <1>1, <2>2, OwnPuts DEF PutSucceeds, JInv
    <3>3. store[u.key] = picture[l.face] /\ picture[l.face] # None
      BY <2>1, <2>2, <3>2 DEF PutKnows, Original
    <3> QED
      BY <1>1, <1>2, <2>1, <3>1, <3>3, MapsHold
  <2>3. CASE PutFails(r) /\ u.subject # None
    BY <1>1, <1>2, <2>1, <2>3, MapsDiscard DEF PutFails, PutKnows, Unused
  <2>4. CASE (PutSucceeds(r) /\ u.subject # None) \/ (PutFails(r) /\ u.subject = None)
    BY <1>1, <2>4, OwnerUnseen DEF PutSucceeds, PutFails, journalVars, ready_deletes
  <2> QED BY <1>3, <2>2, <2>3, <2>4
<1>4. CASE AddSucceeded(r)
  <2>1. /\ complete_upload(u, l.face)
        /\ u \in uploads /\ l.face \in Face /\ picture[l.face] = u.key
    BY <1>1, <1>4 DEF AddSucceeded, Answered, At, Holds, Knows, AwaitKnows
  <2>2. subject[l.face] # None
    BY <2>1 DEF AInv, UploadsAlive
  <2> QED
    BY <1>1, <1>2, <2>1, <2>2, Registered, MapsHold
<1>5. CASE AddRejected(r)
  <2>1. discard_upload(u) /\ u \in uploads /\ Unused(u.key)
    BY <1>1, <1>5 DEF AddRejected, Answered, At, Holds, Knows, AwaitKnows
  <2> QED
    BY <1>1, <1>2, <2>1, MapsDiscard DEF Unused
<1>6. CASE DeleteSucceeded(r)
  <2>1. /\ finish_delete({l.plan}) /\ {l.plan} \in SUBSET prepared_deletes
        /\ \A f \in l.plan.faces : subject[f] = None
    BY <1>1, <1>6 DEF DeleteSucceeded, Answered, At, Holds, Knows, AwaitKnows
  <2> QED
    BY <1>1, <1>2, <2>1, MapsFinish
<1> QED BY <1>3, <1>4, <1>5, <1>6

LEMMA ServeMaps ==
  ASSUME IInv, IInv', JInv, JInv', OInv, AInv, NEW r \in Request, Serve(r)
  PROVE  Implements
<1>1. ASSUME NEW S \in {{s} : s \in Subject} \cup {Subject}, DeleteSubjects(r, S)
      PROVE  Implements
  <2>1. S \in SUBSET Subject
    OBVIOUS
  <2> QED
    BY <1>1, <2>1, ReadMaps
<1> QED
  BY <1>1, ReadMaps, BeginMaps, AnswerMaps DEF Serve

LEMMA ArriveMaps ==
  ASSUME IInv, JInv, WorkerTick \/ \E r \in Request : Arrive(r) \/ Acquire(r)
  PROVE  Implements
<1>1. UNCHANGED <<subject, picture, images, uploads, deletes, store, minted>>
  BY DEF Arrive, Acquire, WorkerTick, flushVars, backendVars, storeVars, journalVars
<1>2. ASSUME NEW q \in Request
      PROVE  \/ pc'[q] = pc[q] /\ local'[q] = local[q]
             \/ pc[q] # "begin" /\ pc'[q] # "begin"
  <2>1. CASE WorkerTick
    BY <1>2, <2>1, WorkerAssumption DEF WorkerTick, GoTo, IInv, TypeInv, TypeOK, GatewayTypeOK, Task
  <2>2. ASSUME NEW r \in Request, Arrive(r) \/ Acquire(r)
        PROVE  \/ pc'[q] = pc[q] /\ local'[q] = local[q]
               \/ pc[q] # "begin" /\ pc'[q] # "begin"
    BY <1>2, <2>2
    DEF Arrive, Acquire, GoTo, Keep, IInv, TypeInv, TypeOK, GatewayTypeOK, Task
  <2> QED BY <2>1, <2>2
<1>3. \A k \in Key : Fresh(k)' = Fresh(k)
  BY <1>1, <1>2 DEF Fresh, At
<1> QED
  BY <1>1, <1>3, Unseen DEF ready_deletes

\* A flush erases condemned objects, and then takes their row.
LEMMA FlushMaps ==
  ASSUME IInv, IInv', JInv, JInv', NEW t \in Task, Flush(t)
  PROVE  Implements
<1>1. /\ UNCHANGED <<subject, picture, images, uploads, minted>>
      /\ \A q \in Request : \/ pc'[q] = pc[q] /\ local'[q] = local[q]
                            \/ pc[q] # "begin" /\ pc'[q] # "begin"
  BY OwnerFacts
  DEF Flush, FlushRead, FlushRow, FlushUnqueue, FlushFails, FlushEnds, GoTo, Release, Keep,
      DeleteObjects, GatewayTypeOK, Task, flushVars, backendVars, storeVars, journalVars
<1>2. \A k \in Key : Fresh(k)' = Fresh(k)
  BY <1>1 DEF Fresh, At
<1>3. CASE FlushRead(t) \/ FlushEnds(t)
  BY <1>1, <1>2, <1>3, Unseen DEF FlushRead, FlushEnds, storeVars, journalVars, ready_deletes
<1>4. CASE FlushFails(t) \/ \E d \in rows[t] : FlushRow(t, d)
  <2>1. PICK d \in rows[t] : \E K \in SUBSET d.keys : DeleteObjects(K)
    BY <1>4 DEF FlushFails, FlushRow
  <2>2. deletes' = deletes /\ store \in [Key -> Picture \cup {None}]
    BY <1>4 DEF FlushFails, FlushRow, journalVars, IInv, TypeInv, TypeOK, StoreTypeOK
  <2> DEFINE K == {k \in Key : store'[k] # store[k]}
  <2>3. ASSUME NEW k \in K PROVE store[k] # None /\ store'[k] = None /\ k \in d.keys
    BY <2>1, <2>2, <2>3 DEF DeleteObjects
  <2>4. ASSUME NEW k \in K PROVE Stage(k) = "condemned"
    <3>1. Retired(k) /\ ~Held(k)
      BY <2>4, FlushErases DEF Held
    <3>2. PICK e \in deletes : k \in e.keys
      BY <2>3, <2>4, <3>1 DEF JInv, TablesOK, NoOrphan, Held, Retired
    <3>3. e \in ready_deletes
      BY <2>4, <3>1, <3>2, NoneAssumption
      DEF ready_deletes, prepared_deletes, JInv, TablesOK, PlansExact, Held, IInv, TypeInv, TypeOK,
          JournalTypeOK, DeleteRow
    <3> QED
      BY <3>2, <3>3, StageIs DEF StagesOK, StageOK, Condemned
  <2>5. store' = [k \in Key |-> IF k \in K THEN None ELSE store[k]]
    BY <2>1, <2>3 DEF DeleteObjects
  <2>6. \A k \in Key : Stage(k)' = Stage(k)
    BY <1>1, <1>2, <2>2, StageSame DEF Held, Claimed, Condemned, ready_deletes
  <2>7. K \in SUBSET Key
    OBVIOUS
  <2> HIDE DEF K
  <2>8. Archive!Erase(K)
    BY <1>1, <2>4, <2>5, <2>6, <2>7 DEF Archive!Erase
  <2> QED
    BY <2>7, <2>8 DEF Implements, Archive!Next
<1>5. CASE FlushUnqueue(t)
  <2>1. deletes' = deletes \ {row[t]} /\ store' = store
    BY <1>5 DEF FlushUnqueue, storeVars
  <2> DEFINE K == {k \in Key : Condemned(k) /\ ~Condemned(k)'}
  <2>2. ASSUME NEW k \in K PROVE store[k] = None
    <3>1. PICK d \in ready_deletes : k \in d.keys
      BY <2>2 DEF Condemned
    <3>2. d = row[t]
      BY <2>1, <2>2, <3>1 DEF Condemned, ready_deletes
    <3>3. row[t] # None
      BY <3>1, <3>2, NoRowAssumption DEF ready_deletes, IInv, TypeInv, TypeOK, JournalTypeOK
    <3> QED
      BY <3>1, <3>2, <3>3 DEF JInv, TablesOK, RowsErased
  <2>3. ASSUME NEW k \in K PROVE Stage(k) = "condemned" /\ Stage(k)' = "gone"
    <3>1. Condemned(k) /\ k \in Key
      BY <2>3
    <3>2. Stage(k) = "condemned" /\ ~Held(k) /\ ~Claimed(k) /\ ~Fresh(k)
      BY <3>1, StageIs DEF StagesOK, StageOK
    <3>3. ~Held(k)' /\ ~Claimed(k)' /\ ~Condemned(k)' /\ ~Fresh(k)'
      BY <1>1, <1>2, <2>3, <3>2 DEF Held, Claimed
    <3> QED
      BY <3>2, <3>3 DEF Stage, Held, Claimed, Condemned, Fresh
  <2>4. ASSUME NEW k \in Key \ K PROVE Stage(k)' = Stage(k)
    <3>1. Condemned(k)' = Condemned(k)
      BY <2>1, <2>4 DEF Condemned, ready_deletes
    <3> QED
      BY <1>1, <1>2, <3>1, StageSame DEF Held, Claimed
  <2>5. K \in SUBSET Key
    OBVIOUS
  <2> HIDE DEF K
  <2>6. Archive!Finish(K)
    BY <1>1, <2>1, <2>2, <2>3, <2>4, <2>5 DEF Archive!Finish, Archive!Move
  <2> QED
    BY <2>5, <2>6 DEF Implements, Archive!Next
<1> QED
  BY <1>3, <1>4, <1>5 DEF Flush

-----------------------------------------------------------------------------
(* What the environment does to the archive.                               *)

\* A step that no handler takes, and that registers or stores something.
LEMMA StagesStay ==
  ASSUME UNCHANGED <<images, uploads, deletes, minted, pc>>,
         \A q \in Request : local'[q].upload = local[q].upload
  PROVE  /\ ready_deletes' = ready_deletes
         /\ \A k \in Key : Fresh(k)' = Fresh(k) /\ Stage(k)' = Stage(k)
<1>1. ready_deletes' = ready_deletes /\ \A k \in Key : Fresh(k)' = Fresh(k)
  BY DEF ready_deletes, Fresh, At
<1> QED
  BY <1>1, StageSame DEF Held, Claimed, Condemned

LEMMA BackendMaps ==
  ASSUME IInv, JInv, OInv, BackendStep
  PROVE  Implements
<1>1. UNCHANGED <<images, uploads, deletes, store>>
  BY DEF BackendStep, storeVars, journalVars
<1>2. ASSUME NEW c \in calls, NEW x \in {"ok", "rejected"}, NEW f \in Face \cup {None},
             Answer(c, x, f)
      PROVE  /\ ready_deletes' = ready_deletes
             /\ \A k \in Key : Fresh(k)' = Fresh(k) /\ Stage(k)' = Stage(k)
  <2>1. UNCHANGED <<pc, minted>>
    BY <1>2 DEF Answer, flushVars
  <2>2. ASSUME NEW q \in Request PROVE local'[q].upload = local[q].upload
    <3>1. c \in Call /\ local[q] \in Local
      BY Facts DEF IInv, TypeInv, TypeOK, BackendTypeOK
    <3>2. CASE c.by = q
      BY <1>2, <3>1, <3>2, AnswerTo, NoneAssumption
    <3>3. CASE c.by # q
      BY <1>2, <3>1, <3>3, AnswerTo
    <3> QED BY <3>2, <3>3
  <2> QED
    BY <1>1, <2>1, <2>2, StagesStay
<1>3. ASSUME NEW c \in calls, NEW f \in Face, CommitAdd(c, f), Answer(c, "ok", f)
      PROVE  Implements
  <2>1. PICK u \in uploads : /\ u.key = c.key /\ u.subject = c.to /\ u.subject # None
                             /\ store[u.key] = u.key /\ Unused(u.key) /\ u.key \in Key
    BY <1>3, OwnAdd DEF CommitAdd
  <2>2. /\ picture[f] = None /\ subject[f] = None /\ images[f] = None /\ u.key # None
        /\ \A g \in Face : subject'[g] = IF g = f THEN u.subject ELSE subject[g]
        /\ \A g \in Face : picture'[g] = IF g = f THEN u.key ELSE picture[g]
    BY <1>3, <2>1, NoneAssumption
    DEF CommitAdd, OInv, FacesOK, RowsOK, RowsIssued, IInv, TypeInv, TypeOK, BackendTypeOK
  <2>3. Stage(u.key) = "claimed" /\ \A k \in Key : Stage(k)' = Stage(k)
    BY <1>2, <1>3, <2>1, StageIs DEF StagesOK, StageOK, Claimed
  <2>4. Archive!Register(f, u.key)
    BY <1>1, <2>1, <2>2, <2>3 DEF Archive!Register, Unused
  <2> QED
    BY <2>1, <2>4 DEF Implements, Archive!Next
<1>4. ASSUME NEW c \in calls, CommitDelete(c), Answer(c, "ok", None) PROVE Implements
  <2>1. Targets(c) \in SUBSET Face
    BY DEF Targets, FacesOf, IInv, TypeInv, TypeOK, BackendTypeOK, Call
  <2>2. \A k \in Key : Stage(k)' = Stage(k)
    BY <1>2, <1>4
  <2> PICK G \in SUBSET Face : G = Targets(c)
    BY <2>1
  <2>3. /\ \A f \in Face : subject'[f] = IF f \in G THEN None ELSE subject[f]
        /\ picture' = picture
    BY <1>4 DEF CommitDelete
  <2>4. Archive!Unregister(G)
    BY <1>1, <2>2, <2>3 DEF Archive!Unregister
  <2> QED
    BY <2>4 DEF Implements, Archive!Next
<1>5. ASSUME NEW c \in calls, CommitRename(c), Answer(c, "ok", None) PROVE Implements
  <2>1. c.to # None /\ \A f \in Targets(c) : subject[f] # None
    BY <1>5, NoneAssumption
    DEF CommitRename, OInv, CallsOK, RenamesOwned, Targets, FacesOf, IInv, TypeInv, TypeOK,
        BackendTypeOK, Call
  <2> DEFINE F == Targets(c)
  <2>2. /\ \A f \in Face : subject'[f] = IF f \in F THEN c.to ELSE subject[f]
        /\ picture' = picture
    BY <1>5 DEF CommitRename
  <2>3. \A f \in Face : (subject'[f] = None) = (subject[f] = None)
    BY <2>1, <2>2
  <2> QED
    BY <1>1, <1>2, <1>5, <2>2, <2>3, Unseen
<1>6. ASSUME NEW c \in calls, DropCall(c), Answer(c, "rejected", None) PROVE Implements
  BY <1>1, <1>2, <1>6, Unseen DEF DropCall
<1> QED
  BY <1>3, <1>4, <1>5, <1>6 DEF BackendStep

LEMMA StoreMaps ==
  ASSUME IInv, JInv, OInv, PutsNew, StoreStep
  PROVE  Implements
<1>1. PICK p \in puts : PutLands(p)
  BY DEF StoreStep
<1>2. UNCHANGED <<subject, picture, images, uploads, deletes, minted, pc, local>>
  BY DEF StoreStep, backendVars, journalVars, gatewayVars
<1>3. p.key \in Key /\ p.picture \in Key \cup Face /\ store[p.key] = None
  BY DEF PutsNew, IInv, TypeInv, TypeOK, StoreTypeOK, Put, Picture
<1>4. Claimed(p.key)
  <2>1. PICK r \in Request : At(r, "put") /\ local[r].upload.key = p.key
    BY DEF JInv, TasksOK, PutsOwned
  <2>2. local[r].upload \in uploads
    BY <2>1, OwnerFacts, Facts DEF Holds, Promise, At
  <2> QED
    BY <2>1, <2>2 DEF Claimed
<1>5. Stage(p.key) = "claimed" /\ \A k \in Key : Stage(k)' = Stage(k)
  BY <1>2, <1>3, <1>4, StagesStay, StageIs DEF StagesOK, StageOK
<1>6. Archive!Store(p.key, p.picture)
  BY <1>1, <1>2, <1>3, <1>5 DEF Archive!Store, PutLands
<1> QED
  BY <1>3, <1>6 DEF Implements, Archive!Next

\* A key that was taken and not yet claimed is lost.
LEMMA CrashMaps ==
  ASSUME IInv, IInv', JInv, JInv', Crash
  PROVE  Implements
<1>1. /\ UNCHANGED <<subject, picture, images, uploads, deletes, store, minted>>
      /\ \A q \in Request : pc'[q] = "idle"
  BY DEF Crash, journalVars, Task
<1>2. CASE \E r \in Request : At(r, "begin")
  <2>1. PICK r \in Request : At(r, "begin")
    BY <1>2
  <2> PICK k \in Key : k = local[r].upload.key /\ k \in minted
    BY <2>1, Facts, LocalFields DEF JInv, TasksOK, LiveKeys, At, Promise, UploadRow
  <2>2. Fresh(k)
    BY <2>1 DEF Fresh
  <2>3. \A q \in Request \ {r} : ~At(q, "begin")
    BY <2>1, Facts, NoneAssumption DEF At, Outside
  <2>4. ~Fresh(k)' /\ \A x \in Key \ {k} : Fresh(x)' = Fresh(x)
    BY <1>1, <2>2, <2>3 DEF Fresh, At
  <2>5. Stage(k) = "fresh" /\ ~Held(k) /\ ~Claimed(k) /\ ~Condemned(k)
    BY <2>2, StageIs DEF StagesOK, StageOK
  <2>6. ~Held(k)' /\ ~Claimed(k)' /\ ~Condemned(k)'
    BY <1>1, <2>5 DEF Held, Claimed, Condemned, ready_deletes
  <2>7. Stage(k)' = "gone"
    BY <2>4, <2>6 DEF Stage, Held, Claimed, Condemned, Fresh
  <2>8. \A x \in Key \ {k} : Stage(x)' = Stage(x)
    BY <1>1, <2>4, StageSame DEF Held, Claimed, Condemned, ready_deletes
  <2>9. Archive!Lose(k)
    BY <1>1, <2>5, <2>7, <2>8 DEF Archive!Lose, Archive!Move
  <2> QED
    BY <2>2, <2>9 DEF Implements, Archive!Next
<1>3. CASE ~\E r \in Request : At(r, "begin")
  <2>1. \A k \in Key : Fresh(k)' = Fresh(k)
    BY <1>1, <1>3 DEF Fresh, At
  <2> QED
    BY <1>1, <2>1, Unseen DEF ready_deletes
<1> QED BY <1>2, <1>3

LEMMA ReconcileMaps ==
  ASSUME IInv, IInv', JInv, JInv', OInv, Reconcile
  PROVE  Implements
<1>1. UNCHANGED <<subject, picture, store, minted, pc, local>>
  BY DEF Reconcile, ReconcileUpload, ReconcileUndeleted, ReconcileDeleted,
     backendVars, storeVars, gatewayVars
<1>2. \A k \in Key : Fresh(k)' = Fresh(k)
  BY <1>1 DEF Fresh, At
<1>3. CASE ReconcileUpload
  <2>1. PICK u \in uploads :
          /\ u.subject # None /\ FacesOf({u.subject}) \subseteq u.previous /\ discard_upload(u)
    BY <1>3 DEF ReconcileUpload
  <2>2. \A f \in Face : picture[f] = u.key => subject[f] = None
    BY <2>1 DEF OInv, RowsOK, Intents, OnlyNew, FacesOf
  <2> QED
    BY <1>1, <1>2, <2>1, <2>2, MapsDiscard
<1>4. CASE ReconcileUndeleted
  <2>1. UNCHANGED <<images, uploads>> /\ ready_deletes' = ready_deletes
    BY <1>4 DEF ReconcileUndeleted, discard_delete, prepared_deletes, ready_deletes
  <2> QED
    BY <1>1, <1>2, <2>1, Unseen
<1>5. CASE ReconcileDeleted
  <2>1. PICK d \in prepared_deletes : finish_delete_of(d, d.faces \ FacesOf(Subject))
    BY <1>5 DEF ReconcileDeleted
  <2> DEFINE F == d.faces \ FacesOf(Subject)
             e == [DeletePlan(d.faces \cap F) EXCEPT !.ready = TRUE]
  <2>2. F \in SUBSET Face /\ ~d.ready /\ d.faces \cap F = F /\ \A f \in F : subject[f] = None
    BY DEF FacesOf, prepared_deletes, IInv, TypeInv, TypeOK, JournalTypeOK, BackendTypeOK, DeleteRow
  <2>3. e.ready /\ e.keys = {images[f] : f \in F} \ {None}
    BY <2>2 DEF DeletePlan
  <2>4. /\ images' = [f \in Face |-> IF f \in F THEN None ELSE images[f]]
        /\ deletes' = (deletes \ {d}) \cup {e} /\ uploads' = uploads
    BY <2>1, <2>2 DEF finish_delete_of
  <2> HIDE DEF F, e
  <2>5. ready_deletes' = ready_deletes \cup {e}
    BY <2>2, <2>3, <2>4 DEF ready_deletes
  <2> QED
    BY <1>1, <1>2, <2>2, <2>3, <2>4, <2>5, MapsForget
<1> QED
  BY <1>3, <1>4, <1>5 DEF Reconcile

-----------------------------------------------------------------------------
(* A put that is under way has not been executed.                          *)

LEMMA FreshEmpty ==
  ASSUME IInv, JInv, NEW k \in Key, Fresh(k)
  PROVE  store[k] = None
<1>1. ~Held(k) /\ ~Claimed(k) /\ ~Condemned(k)
  BY StageIs DEF StagesOK, StageOK
<1>2. \A d \in prepared_deletes : d.faces \subseteq Face /\ k \notin d.keys
  BY <1>1 DEF Held, JInv, TablesOK, PlansExact, prepared_deletes, IInv, TypeInv, TypeOK,
     JournalTypeOK, DeleteRow
<1> QED
  BY <1>1, <1>2
  DEF Held, Claimed, Condemned, prepared_deletes, ready_deletes, JInv, TablesOK, NoOrphan

LEMMA PutsBegin ==
  ASSUME IInv, JInv, NEW r \in Request, BeginAdd(r) \/ BeginMigration(r)
  PROVE  PutsNew'
<1>1. /\ puts = {} /\ store' = store
  BY OwnPuts DEF BeginAdd, BeginMigration, At, Outside, JInv
<1>2. CASE BeginAdd(r)
  <2>1. PICK k \in Key : k = local[r].upload.key /\ pc[r] = "begin"
    BY <1>2, Facts, LocalFields DEF BeginAdd, At, Promise, UploadRow
  <2>2. store[k] = None
    BY <2>1, FreshEmpty DEF Fresh, At
  <2>3. \A p \in puts' : p.key = k
    BY <1>1, <1>2, <2>1 DEF BeginAdd
  <2> QED
    BY <1>1, <2>2, <2>3 DEF PutsNew
<1>3. CASE BeginMigration(r)
  <2>1. PICK k \in Key \ minted :
          puts' = puts \cup {[key |-> k, picture |-> picture[local[r].face]]}
    BY <1>3 DEF BeginMigration
  <2>2. store[k] = None
    BY <2>1, FreshEmpty DEF Fresh
  <2>3. \A p \in puts' : p.key = k
    BY <1>1, <2>1
  <2> QED
    BY <1>1, <2>2, <2>3 DEF PutsNew
<1> QED BY <1>2, <1>3

\* Every put under way is the same request.
LEMMA PutsEnd ==
  ASSUME IInv, JInv, OInv, StoreStep
  PROVE  PutsNew'
<1>1. PICK p \in puts : PutLands(p)
  BY DEF StoreStep
<1>2. PICK r \in Request : At(r, "put") /\ local[r].upload.key = p.key
  BY DEF JInv, TasksOK, PutsOwned
<1>3. ~Outside(pc[r]) /\ PutKnows(local[r])
  BY <1>2 DEF At, Outside, OInv, HandlerKnows, Knows
<1>4. ASSUME NEW q \in puts PROVE q = p
  <2>1. q.key = p.key /\ q.picture = p.picture
    BY <1>2, <1>3, OwnPuts DEF PutKnows, JInv
  <2> QED
    BY <2>1 DEF IInv, TypeInv, TypeOK, StoreTypeOK, Put
<1> QED
  BY <1>1, <1>4 DEF PutLands, PutsNew

LEMMA PutsOld ==
  ASSUME TypeOK, PutsNew, puts' \subseteq puts, \A k \in Key : store'[k] \in {store[k], None}
  PROVE  PutsNew'
  BY DEF PutsNew, TypeOK, StoreTypeOK, Put

LEMMA PutsStep ==
  ASSUME IInv, JInv, OInv, PutsNew, Bypass = {}, [Next]_vars
  PROVE  PutsNew'
<1>1. TypeOK
  BY DEF IInv, TypeInv
<1>2. CASE UNCHANGED storeVars
  BY <1>1, <1>2, PutsOld DEF storeVars
<1>3. ASSUME NEW r \in Request, Serve(r) PROVE PutsNew'
  <2>1. CASE PutFails(r)
    <3>1. puts' \subseteq puts /\ store' = store
      BY <2>1 DEF PutFails, AbandonPut
    <3> QED
      BY <1>1, <3>1, PutsOld
  <2>2. CASE BeginAdd(r) \/ BeginMigration(r)
    BY <2>2, PutsBegin
  <2>3. CASE ~PutFails(r) /\ ~BeginAdd(r) /\ ~BeginMigration(r)
    <3>1. UNCHANGED storeVars
      BY <1>3, <2>3
      DEF Serve, Respond, ServeImage, PutSucceeds, PlanSubjects, AddSucceeded, AddRejected,
          DeleteSucceeded, DeleteRejected, RenameAnswered, Unanswered, OpenImage, AddFace,
          DeleteFaces, DeleteSubjects, Rename
    <3> QED
      BY <1>2, <3>1
  <2> QED BY <2>1, <2>2, <2>3
<1>4. ASSUME NEW t \in Task, Flush(t) PROVE PutsNew'
  <2>1. CASE FlushFails(t) \/ \E d \in rows[t] : FlushRow(t, d)
    <3>1. \E K : DeleteObjects(K)
      BY <2>1 DEF FlushFails, FlushRow
    <3> QED
      BY <1>1, <3>1, PutsOld DEF DeleteObjects
  <2>2. CASE FlushRead(t) \/ FlushUnqueue(t) \/ FlushEnds(t)
    BY <1>2, <2>2 DEF FlushRead, FlushUnqueue, FlushEnds
  <2> QED BY <1>4, <2>1, <2>2 DEF Flush
<1>5. CASE Crash
  <2>1. puts' \subseteq puts /\ store' = store
    BY <1>5 DEF Crash
  <2> QED
    BY <1>1, <2>1, PutsOld
<1>6. CASE BackendStep \/ Reconcile
  BY <1>2, <1>6
  DEF BackendStep, Reconcile, ReconcileUpload, ReconcileUndeleted, ReconcileDeleted
<1>7. CASE Environment
  BY <1>5, <1>6, <1>7, PutsEnd DEF Environment, BypassAdd, BypassDelete
<1>8. ASSUME NEW r \in Request, Arrive(r) \/ Acquire(r) \/ Recover(r) PROVE PutsNew'
  BY <1>2, <1>8
  DEF Arrive, Acquire, Recover, RecoverMigration, RecoverSnapshot, RecoverPlans, SettleAdopt,
      SettlePending, SettleAmbiguous, SettleConflict, Confirm, RecoverFails
<1>9. CASE UNCHANGED vars \/ WorkerTick
  BY <1>2, <1>9 DEF vars, WorkerTick, storeVars
<1> QED
  BY <1>3, <1>4, <1>7, <1>8, <1>9 DEF Next

-----------------------------------------------------------------------------
(* The refinement.                                                         *)

LEMMA ArchiveInit == Init => Archive!Init
<1> SUFFICES ASSUME Init PROVE Archive!Init
  OBVIOUS
<1>1. \A f \in Face : (IF subject[f] = None THEN None ELSE picture[f]) = IF f \in Legacy THEN f ELSE None
  BY DEF Init, BackendInit
<1>2. \A k \in Key : Stage(k) = "fresh"
  BY NoneAssumption DEF Stage, Init, JournalInit, ready_deletes
<1> QED
  BY <1>1, <1>2 DEF Archive!Init, Init, JournalInit, StoreInit

LEMMA ArchiveStep ==
  ASSUME Bypass = {}
  PROVE  IInv /\ IInv' /\ JInv /\ JInv' /\ OInv /\ AInv /\ PutsNew /\ [Next]_vars => Implements
<1> SUFFICES ASSUME IInv, IInv', JInv, JInv', OInv, AInv, PutsNew, [Next]_vars
    PROVE  Implements
  OBVIOUS
<1>1. CASE UNCHANGED vars
  <2>1. /\ UNCHANGED <<subject, picture, images, uploads, deletes, store, minted, pc, local>>
    BY <1>1 DEF vars, backendVars, storeVars, journalVars, gatewayVars
  <2>2. ready_deletes' = ready_deletes /\ \A k \in Key : Fresh(k)' = Fresh(k)
    BY <2>1 DEF ready_deletes, Fresh, At
  <2> QED
    BY <2>1, <2>2, Unseen
<1>2. CASE Environment
  BY <1>2, BackendMaps, StoreMaps, CrashMaps, ReconcileMaps DEF Environment, BypassAdd, BypassDelete
<1>3. ASSUME NEW r \in Request, Recover(r) \/ Serve(r) PROVE Implements
  BY <1>3, RecoverMaps, ServeMaps
<1>4. CASE WorkerTick \/ \E r \in Request : Arrive(r) \/ Acquire(r)
  BY <1>4, ArriveMaps
<1>5. ASSUME NEW t \in Task, Flush(t) PROVE Implements
  BY <1>5, FlushMaps
<1> QED
  BY <1>1, <1>2, <1>3, <1>4, <1>5 DEF Next

\* The gateway implements the archive, for any number of requests, faces, keys
\* and crashes, and with adds and deletes that commit late: each of its steps
\* is one step in the life of keys, or none (app.py:92-281, journal.py:60-121).
THEOREM ArchiveKept ==
  ASSUME "put" \notin Late, "rename" \notin Late, Bypass = {}
  PROVE  Spec => KeepsArchive
<1>1. Init => PutsNew
  BY DEF Init, StoreInit, PutsNew
<1>2. IInv /\ JInv /\ OInv /\ PutsNew /\ [Next]_vars => PutsNew'
  BY PutsStep
<1>3. IInv /\ IInv' /\ JInv /\ JInv' /\ OInv /\ AInv /\ PutsNew /\ [Next]_vars
        => Archive!Next \/ UNCHANGED Archive!vars
  BY ArchiveStep DEF Implements
<1>4. Spec => []JInv
  BY ObjectsTracked
<1>5. Spec => []OInv
  BY OriginalsTracked
<1>6. Spec => []AInv
  BY AssociationsTracked
<1>7. Init => Archive!Init
  BY ArchiveInit
<1> QED
  BY <1>1, <1>2, <1>3, <1>4, <1>5, <1>6, <1>7, Inductive, PTL DEF Spec, KeepsArchive, Archive!Spec
=============================================================================
