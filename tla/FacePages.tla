----------------------------- MODULE FacePages -----------------------------
(***************************************************************************)
(* Gateway.face_ids lists a collection page by page, with one request per  *)
(* page, and the collection may change between two pages: a mutation whose *)
(* answer was lost may be executed at any time.  This module follows one   *)
(* mutation from the listing made before it to what recover() concludes    *)
(* from the listings made after it.  OssGateway takes each listing in one  *)
(* step; the invariants below say why it may.                              *)
(***************************************************************************)
EXTENDS Integers, FiniteSets

CONSTANTS
  Face,       \* image ids, numbered in the order in which they are listed
  Mine,       \* those that belong, or will belong, to one subject
  Size,       \* faces on a page (1000)
  PageLimit   \* the last page that may be followed by another (10000)

ASSUME PagesAssumption ==
  /\ Face \subseteq Nat /\ IsFiniteSet(Face)
  /\ Mine \subseteq Face
  /\ Size \in Nat \ {0}
  /\ PageLimit \in Nat

VARIABLES
  present,   \* the faces registered
  work,      \* the mutation: "add", "subject" (all of Mine) or "faces"
  fresh,     \* the face an "add" registers
  known,     \* previous_ids of the intent, or the targets of the delete
  stage,     \* "before", "unconfirmed", "after", or how it ended
  page, ids, \* the locals of face_ids
  adopted    \* the ids recover() gave the new picture to

vars == <<present, work, fresh, known, stage, page, ids, adopted>>

Listing == {"before", "after"}
Ended == {"adopted", "confirmed", "ambiguous", "exceeded"}

TypeOK ==
  /\ present \subseteq Face
  /\ work \in {"add", "subject", "faces"}
  /\ fresh \in Mine
  /\ known \subseteq Face
  /\ stage \in Listing \cup {"unconfirmed"} \cup Ended
  /\ page \in 0 .. PageLimit /\ (stage \notin Listing => page = 0)
  /\ ids \subseteq Face
  /\ adopted \subseteq Face

\* The targets of "faces" are named by the client; other mutations list first.
Init ==
  /\ fresh \in Mine
  /\ present \in SUBSET (Face \ {fresh})
  /\ \/ /\ work \in {"add", "subject"}
        /\ known = {} /\ stage = "before"
     \/ /\ work = "faces"
        /\ known \in SUBSET (Face \ {fresh}) /\ stage = "unconfirmed"
  /\ page = 0 /\ ids = {} /\ adopted = {}

-----------------------------------------------------------------------------
(* GET /faces                                                              *)

\* With a subject, except that recovery of deletes looks at all faces.
Listed == IF stage = "after" /\ work # "add" THEN present ELSE present \cap Mine

Position(f) == Cardinality({g \in Listed : g < f})

OnPage(p) == {f \in Listed : p * Size <= Position(f) /\ Position(f) < (p + 1) * Size}

\* Mutant: the loop ends one page early.
LastPage_early(p) == (p + 2) * Size >= Cardinality(Listed)

\* page + 1 >= total_pages, which is the number of pages that hold all faces.
LastPage(p) == (p + 1) * Size >= Cardinality(Listed)

\* Mutant: page is compared before it is incremented.
Exceeds_late(p) == p > PageLimit

\* Page p was not the last one, and no other may follow it.
Exceeds(p) == p + 1 > PageLimit

-----------------------------------------------------------------------------
(* face_ids, and what its callers do with the ids.                         *)

\* The intent is written and the mutation sent; its answer is lost.
Prepare(I) ==
  /\ stage = "before"
  /\ known' = I
  /\ stage' = "unconfirmed"
  /\ UNCHANGED adopted

\* Mutant: any id that is not known settles the upload.
RecoverUpload_any(I) ==
  /\ stage = "after" /\ work = "add"
  /\ \/ I = known /\ stage' = "unconfirmed" /\ UNCHANGED adopted
     \/ I # known /\ stage' = "adopted" /\ adopted' = I
  /\ UNCHANGED known

RecoverUpload(I) ==
  /\ stage = "after" /\ work = "add"
  /\ LET added == I \ known IN
       /\ stage' = CASE Cardinality(added) = 1 -> "adopted"
                     [] added = {} -> "unconfirmed"
                     [] OTHER -> "ambiguous"
       /\ adopted' = IF Cardinality(added) = 1 THEN added ELSE adopted
  /\ UNCHANGED known

\* Mutant: a delete counts as executed when some of its faces are gone.
RecoverDelete_some(I) ==
  /\ stage = "after" /\ work # "add"
  /\ stage' = IF known \ I # {} THEN "confirmed" ELSE "unconfirmed"
  /\ UNCHANGED <<known, adopted>>

RecoverDelete(I) ==
  /\ stage = "after" /\ work # "add"
  /\ stage' = IF known # {} /\ known \cap I = {} THEN "confirmed" ELSE "unconfirmed"
  /\ UNCHANGED <<known, adopted>>

\* One response, and the code up to the next await.
ReadPage ==
  /\ stage \in Listing
  /\ LET I == ids \cup OnPage(page) IN
       \/ /\ LastPage(page)
          /\ Prepare(I) \/ RecoverUpload(I) \/ RecoverDelete(I)
          /\ page' = 0 /\ ids' = {}
       \/ /\ ~LastPage(page) /\ Exceeds(page)
          /\ stage' = IF stage = "before" THEN "exceeded" ELSE "unconfirmed"
          /\ page' = 0 /\ ids' = {}
          /\ UNCHANGED <<known, adopted>>
       \/ /\ ~LastPage(page) /\ ~Exceeds(page)
          /\ page' = page + 1 /\ ids' = I
          /\ UNCHANGED <<known, stage, adopted>>
  /\ UNCHANGED <<present, work, fresh>>

\* A page is refused or not answered: the request fails.  A failed listing
\* before the mutation leaves nothing behind, so only recovery is followed up.
ReadFails ==
  /\ stage = "after"
  /\ stage' = "unconfirmed"
  /\ page' = 0 /\ ids' = {}
  /\ UNCHANGED <<present, work, fresh, known, adopted>>

\* The next request of the service.
Recover ==
  /\ stage = "unconfirmed"
  /\ stage' = "after"
  /\ UNCHANGED <<present, work, fresh, known, page, ids, adopted>>

-----------------------------------------------------------------------------
(* The backend executes the mutation.                                      *)

CommitAdd ==
  /\ stage \in {"unconfirmed", "after"} /\ work = "add"
  /\ present' = present \cup {fresh}
  /\ UNCHANGED <<work, fresh, known, stage, page, ids, adopted>>

\* Not necessarily all faces at once.
CommitDelete ==
  /\ stage \in {"unconfirmed", "after"} /\ work # "add"
  /\ \E D \in SUBSET (known \cap present) : present' = present \ D
  /\ UNCHANGED <<work, fresh, known, stage, page, ids, adopted>>

Next == ReadPage \/ ReadFails \/ Recover \/ CommitAdd \/ CommitDelete

Spec == Init /\ [][Next]_vars

-----------------------------------------------------------------------------
(***************************************************************************)
(* A delete counts as executed only if none of its faces is registered any *)
(* more, although the listing that shows it may have been made while the   *)
(* faces were being deleted and the pages shifted (app.py:146).            *)
(***************************************************************************)
ConfirmedGone == stage = "confirmed" => known \cap present = {}

(***************************************************************************)
(* An upload is settled with the face it registered and with no other one, *)
(* wherever in the listing the new face appears (app.py:131), and the case *)
(* of several new faces needs a writer that bypasses the gateway.          *)
(***************************************************************************)
AdoptedFresh ==
  /\ stage = "adopted" => adopted = {fresh} /\ fresh \in present
  /\ stage # "ambiguous"

(***************************************************************************)
(* A listing with no mutation under way is exact: the intent names all     *)
(* faces of the subject there were before the mutation, so that a face     *)
(* which was there before is never taken for the new one, nor left out of  *)
(* the delete of a subject (app.py:191, 353).                              *)
(***************************************************************************)
KnownExact ==
  /\ stage \in {"unconfirmed", "after"} /\ work = "add" =>
       present \cap Mine \in {known, known \cup {fresh}}
  /\ stage \in {"unconfirmed", "after"} /\ work = "subject" =>
       present \cap Mine \subseteq known
=============================================================================
