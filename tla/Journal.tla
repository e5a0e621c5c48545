------------------------------- MODULE Journal ------------------------------
(***************************************************************************)
(* The durable SQLite journal (journal.py), one namespace of it: the image *)
(* associations, the upload intents and the delete outbox.  Each operator  *)
(* is one method, which is one committed transaction.                      *)
(***************************************************************************)
EXTENDS GatewayTypes

VARIABLES
  images,    \* table images: images[f] is the object key of f, or None
  uploads,   \* table uploads: intents of unfinished uploads
  deletes    \* table deletes: prepared deletes and the ready outbox

journalVars == <<images, uploads, deletes>>

JournalInit ==
  /\ images = [f \in Face |-> None]
  /\ uploads = {}
  /\ deletes = {}

JournalTypeOK ==
  /\ images \in [Face -> Key \cup {None}]
  /\ uploads \subseteq UploadRow
  /\ deletes \subseteq DeleteRow

prepared_deletes == {d \in deletes : ~d.ready}
ready_deletes == {d \in deletes : d.ready}

begin_upload(k, s, previous) ==
  /\ uploads' = uploads \cup {[key |-> k, subject |-> s, previous |-> previous]}
  /\ UNCHANGED <<images, deletes>>

\* (namespace, image_id) is the primary key of images: a second INSERT for f
\* raises and rolls the transaction back, so the operator is not enabled.
complete_upload(u, f) ==
  /\ images[f] = None
  /\ images' = [images EXCEPT ![f] = u.key]
  /\ uploads' = uploads \ {u}
  /\ UNCHANGED deletes

\* Mutant: the intent is dropped and its object is not queued.
discard_upload_forgets(u) == uploads' = uploads \ {u} /\ UNCHANGED <<images, deletes>>

discard_upload(u) ==
  /\ deletes' = deletes \cup {[faces |-> {}, keys |-> {u.key}, ready |-> TRUE]}
  /\ uploads' = uploads \ {u}
  /\ UNCHANGED images

\* Mutant: the NULL keys of images without a row are kept as keys.
DeletePlan_nulls(F) ==
  [faces |-> F, keys |-> {images[f] : f \in F}, ready |-> FALSE]

\* The row plan_delete inserts: the targets, with the object keys known now.
DeletePlan(F) ==
  [faces |-> F, keys |-> {images[f] : f \in F} \ {None}, ready |-> FALSE]

plan_delete(F) ==
  /\ deletes' = deletes \cup {DeletePlan(F)}
  /\ UNCHANGED <<images, uploads>>

\* Mutant: the rows of images survive the delete.
finish_delete_keeps(D) ==
  /\ deletes' = (deletes \ D) \cup {[d EXCEPT !.ready = TRUE] : d \in D}
  /\ UNCHANGED <<images, uploads>>

\* finish_delete of every row of D, in the transaction(s) of one task step.
finish_delete(D) ==
  /\ images' = [f \in Face |-> IF \E d \in D : f \in d.faces
                               THEN None ELSE images[f]]
  /\ deletes' = (deletes \ D) \cup {[d EXCEPT !.ready = TRUE] : d \in D}
  /\ UNCHANGED uploads

\* finish_delete with deleted_ids = F: the other images leave the row.
finish_delete_of(d, F) ==
  /\ images' = [f \in Face |-> IF f \in d.faces \cap F THEN None ELSE images[f]]
  /\ deletes' = (deletes \ {d}) \cup
                  {[DeletePlan(d.faces \cap F) EXCEPT !.ready = TRUE]}
  /\ UNCHANGED uploads

discard_delete(d) ==
  /\ deletes' = deletes \ {d}
  /\ UNCHANGED <<images, uploads>>
=============================================================================
