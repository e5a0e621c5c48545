-------------------------- MODULE FacePages_proofs --------------------------
(***************************************************************************)
(* Proofs about FacePages for any collection and any page size.            *)
(***************************************************************************)
EXTENDS FacePages, FiniteSetTheorems, WellFoundedInduction, NaturalsInduction, TLAPS

\* The new face of an upload is on no list made before the upload.
FreshInv ==
  /\ stage = "before" => fresh \notin present
  /\ stage \in {"unconfirmed", "after"} /\ work = "add" => fresh \notin known

\* What the pages read so far have shown.
SeenInv ==
  /\ stage = "before" => ids = {f \in Listed : Position(f) < page * Size}
  /\ stage = "unconfirmed" => ids = {}
  /\ stage = "after" /\ work = "add" => ids \subseteq present \cap Mine

\* As long as no face of a delete has been seen, all that remain are ahead.
AheadInv ==
  stage = "after" /\ work # "add" /\ ids \cap known = {} =>
    \A f \in known \cap present : page * Size <= Position(f)

IInv ==
  /\ TypeOK
  /\ FreshInv
  /\ SeenInv
  /\ AheadInv
  /\ ConfirmedGone
  /\ AdoptedFresh
  /\ KnownExact

-----------------------------------------------------------------------------
\* A set of numbers that is not empty has a smallest member.
LEMMA Smallest ==
  ASSUME NEW D \in SUBSET Nat, D # {}
  PROVE  \E d \in D : \A e \in D : d <= e
<1>1. \E d \in D : \A e \in D : ~ (<<e, d>> \in OpToRel(<, Nat))
  BY WFMin, NatLessThanWellFounded, Zenon
<1>2. PICK d \in D : \A e \in D : ~ (<<e, d>> \in OpToRel(<, Nat))
  BY <1>1
<1>3. \A e \in D : ~ (e < d)
  BY <1>2 DEF OpToRel
<1> QED
  BY <1>3

\* Positions are numbers below the length of the list.
LEMMA PositionBounds ==
  ASSUME TypeOK, NEW f \in Listed
  PROVE  /\ Position(f) \in Nat
         /\ Cardinality(Listed) \in Nat
         /\ Position(f) < Cardinality(Listed)
<1> DEFINE B == {g \in Listed : g < f}
<1>1. Listed \subseteq Face /\ f \in Nat
  BY PagesAssumption DEF TypeOK, Listed
<1>2. IsFiniteSet(Listed)
  BY <1>1, PagesAssumption, FS_Subset
<1>3. B \subseteq Listed /\ f \notin B
  BY <1>1
<1>4. IsFiniteSet(B) /\ Cardinality(B) <= Cardinality(Listed) /\ Cardinality(B) # Cardinality(Listed)
  BY <1>2, <1>3, FS_Subset
<1>5. Cardinality(B) \in Nat /\ Cardinality(Listed) \in Nat
  BY <1>2, <1>4, FS_CardinalityType
<1> QED
  BY <1>4, <1>5 DEF Position

\* Page boundaries are numbers, and the next one is not before this one.
LEMMA Boundaries ==
  ASSUME NEW p \in Nat
  PROVE  p * Size \in Nat /\ (p + 1) * Size \in Nat /\ p * Size <= (p + 1) * Size
<1>1. Size \in Nat
  BY PagesAssumption
<1>2. (p + 1) * Size = p * Size + Size
  BY <1>1
<1>3. p * Size \in Nat
  BY <1>1
<1> QED
  BY <1>1, <1>2, <1>3

\* A page shows what is between its boundaries.
LEMMA Shown ==
  ASSUME TypeOK, NEW f \in Listed, page * Size <= Position(f), f \notin OnPage(page)
  PROVE  (page + 1) * Size <= Position(f)
<1>1. page \in Nat
  BY PagesAssumption DEF TypeOK
<1> QED
  BY <1>1, PositionBounds, Boundaries DEF OnPage

\* Nothing is listed behind the last page.
LEMMA NothingBehind ==
  ASSUME TypeOK, LastPage(page), NEW f \in Listed
  PROVE  Position(f) < (page + 1) * Size
<1>1. page \in Nat
  BY PagesAssumption DEF TypeOK
<1> QED
  BY <1>1, PositionBounds, Boundaries DEF LastPage

\* The faces of a list P in front of f.
InFront(P, f) == {g \in P : g < f}

\* Removing faces that are all behind the n-th place leaves the others there.
LEMMA StillAhead ==
  ASSUME NEW P \in SUBSET Face, NEW K, NEW D \in SUBSET (K \cap P), NEW n \in Nat,
         \A h \in K \cap P : n <= Cardinality(InFront(P, h)),
         NEW f \in (K \cap P) \ D
  PROVE  n <= Cardinality(InFront(P \ D, f))
<1> USE DEF InFront
<1> DEFINE After == InFront(P \ D, f)
<1>0. P \subseteq Nat /\ IsFiniteSet(P) /\ f \in Nat
  BY PagesAssumption, FS_Subset
<1>1. IsFiniteSet(After) /\ Cardinality(After) \in Nat
  <2>1. After \in SUBSET P
    OBVIOUS
  <2> QED
    BY <1>0, <2>1, FS_Subset, FS_CardinalityType
<1>2. CASE \A d \in D : ~ (d < f)
  <2>1. After = InFront(P, f)
    BY <1>2
  <2> QED
    BY <2>1
<1>3. CASE \E d \in D : d < f
  <2>1. D \subseteq Nat /\ D # {}
    BY <1>0, <1>3
  <2>2. PICK d \in D : \A e \in D : d <= e
    BY <2>1, Smallest
  <2>3. d < f
    BY <1>0, <1>3, <2>1, <2>2
  <2> DEFINE Before == InFront(P, d)
  <2>4. Before \in SUBSET After
    <3>1. SUFFICES ASSUME NEW g \in Before
                   PROVE  g \in After
      OBVIOUS
    <3>2. g \in P /\ g < d /\ g \in Nat /\ d \in Nat
      BY <1>0, <2>1
    <3>3. g \notin D
      BY <2>2, <3>2
    <3>4. g < f
      BY <1>0, <2>3, <3>2
    <3> QED
      BY <3>2, <3>3, <3>4
  <2>5. n <= Cardinality(Before)
    OBVIOUS
  <2>6. IsFiniteSet(Before) /\ Cardinality(Before) <= Cardinality(After)
    BY <1>1, <2>4, FS_Subset
  <2>7. Cardinality(Before) \in Nat
    BY <2>6, FS_CardinalityType
  <2>8. n <= Cardinality(After)
    <3> HIDE DEF After, Before
    <3> QED
      BY <1>1, <2>5, <2>6, <2>7
  <2> QED
    BY <2>8
<1> QED
  BY <1>2, <1>3

-----------------------------------------------------------------------------
\* Before the first page nothing has been read, and there is no answer yet.
LEMMA InitInv == Init => IInv
<1>1. SUFFICES ASSUME Init
               PROVE  IInv
  OBVIOUS
<1>2. TypeOK
  BY <1>1, PagesAssumption DEF Init, TypeOK, Listing, Ended
<1>3. 0 * Size = 0
  BY PagesAssumption
<1>4. \A f \in Listed : ~ (Position(f) < page * Size)
  BY <1>1, <1>2, <1>3, PositionBounds DEF Init
<1>5. SeenInv
  BY <1>1, <1>4, Zenon DEF Init, SeenInv
<1>6. FreshInv /\ AheadInv /\ ConfirmedGone /\ AdoptedFresh /\ KnownExact
  BY <1>1 DEF Init, FreshInv, AheadInv, ConfirmedGone, AdoptedFresh, KnownExact
<1> QED
  BY <1>2, <1>5, <1>6 DEF IInv

\* The pages read before a mutation add up to the whole list.
LEMMA ReadPageBefore ==
  ASSUME IInv, ReadPage, stage = "before"
  PROVE  IInv'
<1> DEFINE I == ids \cup OnPage(page)
<1>0. page \in Nat /\ Listed = present \cap Mine
  BY PagesAssumption DEF IInv, TypeOK, Listed
<1>1. I = {f \in Listed : Position(f) < (page + 1) * Size}
  <2>1. page * Size \in Nat /\ (page + 1) * Size \in Nat /\ page * Size <= (page + 1) * Size
    BY <1>0, Boundaries
  <2>2. \A f \in Listed : Position(f) \in Nat
    BY PositionBounds DEF IInv
  <2>3. ids = {f \in Listed : Position(f) < page * Size}
    BY DEF IInv, SeenInv
  <2> QED
    BY <2>1, <2>2, <2>3 DEF OnPage
<1>2. I \subseteq Face
  BY <1>0, <1>1, PagesAssumption DEF IInv, TypeOK
<1>3. present' = present /\ work' = work /\ fresh' = fresh /\ fresh \notin present
  BY DEF ReadPage, IInv, FreshInv
<1>4. CASE LastPage(page) /\ Prepare(I) /\ page' = 0 /\ ids' = {}
  <2>1. I = present \cap Mine
    BY <1>0, <1>1, <1>4, NothingBehind DEF IInv
  <2>2. known' = present \cap Mine /\ stage' = "unconfirmed" /\ adopted' = adopted
    BY <1>4, <2>1 DEF Prepare
  <2>3. TypeOK'
    BY <1>2, <1>3, <1>4, <2>1, <2>2, PagesAssumption DEF IInv, TypeOK, Listing
  <2>4. (FreshInv /\ SeenInv /\ AheadInv /\ ConfirmedGone /\ AdoptedFresh)'
    BY <1>3, <1>4, <2>2 DEF FreshInv, SeenInv, AheadInv, ConfirmedGone, AdoptedFresh
  <2>5. KnownExact'
    BY <1>3, <2>2 DEF KnownExact
  <2> QED
    BY <2>3, <2>4, <2>5 DEF IInv
<1>5. CASE stage' = "exceeded" /\ page' = 0 /\ ids' = {} /\ UNCHANGED <<known, adopted>>
  <2>1. TypeOK'
    BY <1>3, <1>5, PagesAssumption DEF IInv, TypeOK, Listing, Ended
  <2>2. (FreshInv /\ SeenInv /\ AheadInv /\ ConfirmedGone /\ AdoptedFresh /\ KnownExact)'
    BY <1>5 DEF FreshInv, SeenInv, AheadInv, ConfirmedGone, AdoptedFresh, KnownExact
  <2> QED
    BY <2>1, <2>2 DEF IInv
<1>6. CASE /\ ~Exceeds(page) /\ page' = page + 1 /\ ids' = I
           /\ UNCHANGED <<known, stage, adopted>>
  <2>1. page + 1 \in 0 .. PageLimit
    BY <1>0, <1>6, PagesAssumption DEF Exceeds
  <2>2. TypeOK'
    BY <1>2, <1>3, <1>6, <2>1 DEF IInv, TypeOK, Listing
  <2>3. SeenInv'
    BY <1>0, <1>1, <1>3, <1>6 DEF SeenInv, Listed, Position
  <2>4. (FreshInv /\ AheadInv /\ ConfirmedGone /\ AdoptedFresh /\ KnownExact)'
    BY <1>3, <1>6 DEF FreshInv, AheadInv, ConfirmedGone, AdoptedFresh, KnownExact
  <2> QED
    BY <2>2, <2>3, <2>4 DEF IInv
<1> QED
  BY <1>4, <1>5, <1>6 DEF ReadPage, RecoverUpload, RecoverDelete

\* The pages read after an upload show what was known and the new face.
LEMMA ReadPageUpload ==
  ASSUME IInv, ReadPage, stage = "after", work = "add"
  PROVE  IInv'
<1> DEFINE I == ids \cup OnPage(page)
<1>0. page \in Nat /\ Listed = present \cap Mine
  BY PagesAssumption DEF IInv, TypeOK, Listed
<1>1. I \subseteq present \cap Mine /\ I \subseteq Face
  BY <1>0, PagesAssumption DEF IInv, SeenInv, OnPage
<1>2. present' = present /\ work' = work /\ fresh' = fresh
  BY DEF ReadPage
<1>3. present \cap Mine \in {known, known \cup {fresh}} /\ fresh \notin known
  BY DEF IInv, KnownExact, FreshInv
<1>4. IsFiniteSet(I \ known) /\ I \ known \subseteq {fresh}
  <2>1. I \ known \in SUBSET Face
    BY <1>1
  <2> QED
    BY <1>1, <1>3, <2>1, PagesAssumption, FS_Subset
<1>5. CASE LastPage(page) /\ RecoverUpload(I) /\ page' = 0 /\ ids' = {}
  <2>1. known' = known
    BY <1>5 DEF RecoverUpload
  <2>2. CASE I \ known = {}
    <3>1. Cardinality(I \ known) = 0
      BY <2>2, FS_EmptySet
    <3>2. stage' = "unconfirmed" /\ adopted' = adopted
      BY <1>5, <2>2, <3>1 DEF RecoverUpload
    <3>3. TypeOK'
      BY <1>2, <1>5, <2>1, <3>2, PagesAssumption DEF IInv, TypeOK, Listing
    <3>4. (FreshInv /\ SeenInv /\ AheadInv /\ ConfirmedGone /\ AdoptedFresh /\ KnownExact)'
      BY <1>2, <1>3, <1>5, <2>1, <3>2
         DEF FreshInv, SeenInv, AheadInv, ConfirmedGone, AdoptedFresh, KnownExact
    <3> QED
      BY <3>3, <3>4 DEF IInv
  <2>3. CASE I \ known = {fresh}
    <3>1. Cardinality(I \ known) = 1
      BY <2>3, FS_Singleton
    <3>2. stage' = "adopted" /\ adopted' = {fresh} /\ fresh \in present
      BY <1>1, <1>5, <2>3, <3>1 DEF RecoverUpload
    <3>3. TypeOK'
      BY <1>2, <1>5, <2>1, <3>2, PagesAssumption DEF IInv, TypeOK, Listing, Ended
    <3>4. (FreshInv /\ SeenInv /\ AheadInv /\ ConfirmedGone /\ AdoptedFresh /\ KnownExact)'
      BY <1>2, <3>2 DEF FreshInv, SeenInv, AheadInv, ConfirmedGone, AdoptedFresh, KnownExact
    <3> QED
      BY <3>3, <3>4 DEF IInv
  <2> QED
    BY <1>4, <2>2, <2>3
<1>6. CASE stage' = "unconfirmed" /\ page' = 0 /\ ids' = {} /\ UNCHANGED <<known, adopted>>
  <2>1. TypeOK'
    BY <1>2, <1>6, PagesAssumption DEF IInv, TypeOK, Listing
  <2>2. (FreshInv /\ SeenInv /\ AheadInv /\ ConfirmedGone /\ AdoptedFresh /\ KnownExact)'
    BY <1>2, <1>3, <1>6
       DEF FreshInv, SeenInv, AheadInv, ConfirmedGone, AdoptedFresh, KnownExact
  <2> QED
    BY <2>1, <2>2 DEF IInv
<1>7. CASE /\ ~Exceeds(page) /\ page' = page + 1 /\ ids' = I
           /\ UNCHANGED <<known, stage, adopted>>
  <2>1. page + 1 \in 0 .. PageLimit
    BY <1>0, <1>7, PagesAssumption DEF Exceeds
  <2>2. TypeOK'
    BY <1>1, <1>2, <1>7, <2>1 DEF IInv, TypeOK, Listing
  <2>3. (FreshInv /\ SeenInv /\ AheadInv /\ ConfirmedGone /\ AdoptedFresh /\ KnownExact)'
    BY <1>1, <1>2, <1>3, <1>7
       DEF FreshInv, SeenInv, AheadInv, ConfirmedGone, AdoptedFresh, KnownExact
  <2> QED
    BY <2>2, <2>3 DEF IInv
<1> QED
  BY <1>5, <1>6, <1>7 DEF ReadPage, Prepare, RecoverDelete

\* A list without any face of a delete was made after the last one had gone.
LEMMA ReadPageDelete ==
  ASSUME IInv, ReadPage, stage = "after", work # "add"
  PROVE  IInv'
<1> DEFINE I == ids \cup OnPage(page)
<1>0. page \in Nat /\ Listed = present
  BY PagesAssumption DEF IInv, TypeOK, Listed
<1>1. I \subseteq Face
  BY <1>0 DEF IInv, TypeOK, OnPage
<1>2. present' = present /\ work' = work /\ fresh' = fresh
  BY DEF ReadPage
<1>3. ASSUME I \cap known = {}, NEW f \in known \cap present
      PROVE  (page + 1) * Size <= Position(f)
  <2>1. ids \cap known = {} /\ f \notin OnPage(page)
    BY <1>3
  <2>2. page * Size <= Position(f)
    BY <2>1 DEF IInv, AheadInv
  <2> QED
    BY <1>0, <2>1, <2>2, Shown DEF IInv
<1>4. CASE LastPage(page) /\ RecoverDelete(I) /\ page' = 0 /\ ids' = {}
  <2>1. known' = known /\ adopted' = adopted /\ stage' \in {"confirmed", "unconfirmed"}
    BY <1>4 DEF RecoverDelete
  <2>2. TypeOK'
    BY <1>2, <1>4, <2>1, PagesAssumption DEF IInv, TypeOK, Listing, Ended
  <2>3. ASSUME stage' = "confirmed", NEW f \in known \cap present
        PROVE  FALSE
    <3>1. I \cap known = {}
      BY <1>4, <2>3 DEF RecoverDelete
    <3>2. (page + 1) * Size <= Position(f)
      BY <1>3, <2>3, <3>1
    <3>3. Position(f) < (page + 1) * Size
      BY <1>0, <1>4, <2>3, NothingBehind DEF IInv
    <3>4. Position(f) \in Nat /\ (page + 1) * Size \in Nat
      BY <1>0, <2>3, PositionBounds, Boundaries DEF IInv
    <3> QED
      BY <3>2, <3>3, <3>4
  <2>4. ConfirmedGone'
    BY <1>2, <2>1, <2>3 DEF ConfirmedGone
  <2>5. (FreshInv /\ SeenInv /\ AheadInv /\ AdoptedFresh /\ KnownExact)'
    BY <1>2, <1>4, <2>1 DEF IInv, FreshInv, SeenInv, AheadInv, AdoptedFresh, KnownExact
  <2> QED
    BY <2>2, <2>4, <2>5 DEF IInv
<1>5. CASE stage' = "unconfirmed" /\ page' = 0 /\ ids' = {} /\ UNCHANGED <<known, adopted>>
  <2>1. TypeOK'
    BY <1>2, <1>5, PagesAssumption DEF IInv, TypeOK, Listing
  <2>2. (FreshInv /\ SeenInv /\ AheadInv /\ ConfirmedGone /\ AdoptedFresh /\ KnownExact)'
    BY <1>2, <1>5
       DEF IInv, FreshInv, SeenInv, AheadInv, ConfirmedGone, AdoptedFresh, KnownExact
  <2> QED
    BY <2>1, <2>2 DEF IInv
<1>6. CASE /\ ~Exceeds(page) /\ page' = page + 1 /\ ids' = I
           /\ UNCHANGED <<known, stage, adopted>>
  <2>1. page + 1 \in 0 .. PageLimit
    BY <1>0, <1>6, PagesAssumption DEF Exceeds
  <2>2. TypeOK'
    BY <1>1, <1>2, <1>6, <2>1 DEF IInv, TypeOK, Listing
  <2>3. AheadInv'
    <3>1. \A f : Position(f)' = Position(f)
      BY <1>2, <1>6 DEF Position, Listed
    <3> QED
      BY <1>2, <1>3, <1>6, <3>1 DEF AheadInv
  <2>4. (FreshInv /\ SeenInv /\ ConfirmedGone /\ AdoptedFresh /\ KnownExact)'
    BY <1>2, <1>6 DEF IInv, FreshInv, SeenInv, ConfirmedGone, AdoptedFresh, KnownExact
  <2> QED
    BY <2>2, <2>3, <2>4 DEF IInv
<1> QED
  BY <1>4, <1>5, <1>6 DEF ReadPage, Prepare, RecoverUpload

\* A page that fails ends the listing, and the mutation stays unconfirmed.
LEMMA ListingFails ==
  ASSUME IInv, ReadFails
  PROVE  IInv'
<1>1. /\ UNCHANGED <<present, work, fresh, known, adopted>>
      /\ page' = 0 /\ ids' = {} /\ stage = "after" /\ stage' = "unconfirmed"
  BY DEF ReadFails
<1>2. TypeOK'
  BY <1>1, PagesAssumption DEF IInv, TypeOK, Listing
<1>3. (FreshInv /\ SeenInv /\ AheadInv /\ ConfirmedGone /\ AdoptedFresh /\ KnownExact)'
  BY <1>1 DEF IInv, FreshInv, SeenInv, AheadInv, ConfirmedGone, AdoptedFresh, KnownExact
<1> QED
  BY <1>2, <1>3 DEF IInv

\* At the first page everything is still ahead.
LEMMA ListingStarts ==
  ASSUME IInv, Recover
  PROVE  IInv'
<1>1. /\ UNCHANGED <<present, work, fresh, known, adopted, page, ids>>
      /\ page = 0 /\ ids = {} /\ stage = "unconfirmed" /\ stage' = "after"
  BY DEF Recover, IInv, TypeOK, SeenInv, Listing
<1>2. TypeOK'
  BY <1>1 DEF IInv, TypeOK, Listing
<1>3. AheadInv'
  <2>1. SUFFICES ASSUME NEW f \in known \cap present, work # "add"
                 PROVE  0 * Size <= Cardinality({g \in present : g < f})
    BY <1>1 DEF AheadInv, Position, Listed
  <2>2. {g \in present : g < f} \in SUBSET Face
    BY DEF IInv, TypeOK
  <2>3. Cardinality({g \in present : g < f}) \in Nat
    BY <2>2, PagesAssumption, FS_Subset, FS_CardinalityType
  <2> QED
    BY <2>3, PagesAssumption
<1>4. (FreshInv /\ SeenInv /\ ConfirmedGone /\ AdoptedFresh /\ KnownExact)'
  BY <1>1 DEF IInv, FreshInv, SeenInv, ConfirmedGone, AdoptedFresh, KnownExact
<1> QED
  BY <1>2, <1>3, <1>4 DEF IInv

\* The backend registers the one face of the upload.
LEMMA AddExecuted ==
  ASSUME IInv, CommitAdd
  PROVE  IInv'
<1>1. /\ UNCHANGED <<work, fresh, known, stage, page, ids, adopted>>
      /\ present' = present \cup {fresh} /\ work = "add"
      /\ stage \in {"unconfirmed", "after"}
  BY DEF CommitAdd
<1>2. fresh \in Mine /\ fresh \in Face
  BY PagesAssumption DEF IInv, TypeOK
<1>3. TypeOK'
  BY <1>1, <1>2 DEF IInv, TypeOK
<1>4. (FreshInv /\ SeenInv /\ AheadInv /\ ConfirmedGone /\ AdoptedFresh /\ KnownExact)'
  BY <1>1, <1>2 DEF IInv, FreshInv, SeenInv, AheadInv, ConfirmedGone, AdoptedFresh, KnownExact
<1> QED
  BY <1>3, <1>4 DEF IInv

\* The backend deletes faces, and the pages move towards the front.
LEMMA DeleteExecuted ==
  ASSUME IInv, CommitDelete
  PROVE  IInv'
<1>1. /\ UNCHANGED <<work, fresh, known, stage, page, ids, adopted>>
      /\ work # "add" /\ stage \in {"unconfirmed", "after"}
  BY DEF CommitDelete
<1>2. PICK D \in SUBSET (known \cap present) : present' = present \ D
  BY DEF CommitDelete
<1>3. present \in SUBSET Face /\ page * Size \in Nat
  BY Boundaries, PagesAssumption DEF IInv, TypeOK
<1>4. AheadInv'
  <2>1. SUFFICES ASSUME stage = "after", ids \cap known = {}, NEW f \in known \cap present'
                 PROVE  page * Size <= Cardinality(InFront(present \ D, f))
    BY <1>1, <1>2 DEF AheadInv, Position, Listed, InFront
  <2>2. \A h \in known \cap present : page * Size <= Cardinality(InFront(present, h))
    BY <1>1, <2>1 DEF IInv, AheadInv, Position, Listed, InFront
  <2>3. f \in (known \cap present) \ D
    BY <1>2, <2>1
  <2> QED
    BY <1>3, <2>2, <2>3, StillAhead
<1>5. TypeOK'
  BY <1>1, <1>2 DEF IInv, TypeOK
<1>6. (FreshInv /\ SeenInv /\ ConfirmedGone /\ AdoptedFresh /\ KnownExact)'
  BY <1>1, <1>2 DEF IInv, FreshInv, SeenInv, ConfirmedGone, AdoptedFresh, KnownExact
<1> QED
  BY <1>4, <1>5, <1>6 DEF IInv

LEMMA StepInv == IInv /\ [Next]_vars => IInv'
<1>1. SUFFICES ASSUME IInv, [Next]_vars
               PROVE  IInv'
  OBVIOUS
<1>2. CASE ReadPage
  <2>1. stage = "before" \/ stage = "after"
    BY <1>2 DEF ReadPage, Listing
  <2> QED
    BY <1>1, <1>2, <2>1, ReadPageBefore, ReadPageUpload, ReadPageDelete
<1>3. CASE ReadFails
  BY <1>1, <1>3, ListingFails
<1>4. CASE Recover
  BY <1>1, <1>4, ListingStarts
<1>5. CASE CommitAdd
  BY <1>1, <1>5, AddExecuted
<1>6. CASE CommitDelete
  BY <1>1, <1>6, DeleteExecuted
<1>7. CASE UNCHANGED vars
  BY <1>1, <1>7 DEF vars, IInv, TypeOK, FreshInv, SeenInv, AheadInv, ConfirmedGone,
                    AdoptedFresh, KnownExact, Listed, Position
<1> QED
  BY <1>1, <1>2, <1>3, <1>4, <1>5, <1>6, <1>7 DEF Next

-----------------------------------------------------------------------------
LEMMA Inductive == Spec => []IInv
<1>1. Init => IInv
  BY InitInv
<1>2. IInv /\ [Next]_vars => IInv'
  BY StepInv
<1> QED
  BY <1>1, <1>2, PTL DEF Spec

(***************************************************************************)
(* recover() confirms no delete of which a face is still registered,       *)
(* however large the collection and whatever the page size, and wherever   *)
(* between two pages the delete takes effect (app.py:140-147).             *)
(***************************************************************************)
THEOREM DeletesConfirmed == Spec => []ConfirmedGone
<1>1. IInv => ConfirmedGone
  BY DEF IInv
<1> QED
  BY <1>1, Inductive, PTL

(***************************************************************************)
(* recover() gives a picture to the face its upload registered, and never  *)
(* finds the upload ambiguous (app.py:130-139).                            *)
(***************************************************************************)
THEOREM UploadsAdopted == Spec => []AdoptedFresh
<1>1. IInv => AdoptedFresh
  BY DEF IInv
<1> QED
  BY <1>1, Inductive, PTL

(***************************************************************************)
(* The ids in an intent are those of all faces of the subject, and nothing *)
(* but the mutation it announces changes them (app.py:191, 353).           *)
(***************************************************************************)
THEOREM ListsExact == Spec => []KnownExact
<1>1. IInv => KnownExact
  BY DEF IInv
<1> QED
  BY <1>1, Inductive, PTL

\* Every variable keeps its type, and the page its limit (app.py:113).
THEOREM PageTypes == Spec => []TypeOK
<1>1. IInv => TypeOK
  BY DEF IInv
<1> QED
  BY <1>1, Inductive, PTL
=============================================================================
