--------------------------- MODULE Archive_proofs ---------------------------
(***************************************************************************)
(* Proofs about Archive for any faces and keys.  The gateway implements    *)
(* Archive (GatewayProperties!KeepsArchive), so what is proved here of its *)
(* keys holds of the gateway's objects wherever that has been checked.     *)
(***************************************************************************)
EXTENDS Archive, TLAPS

\* A picture is registered with one face only.
OnePicture ==
  \A f, g \in Face : registered[f] \in Key /\ registered[f] = registered[g] => f = g

\* A face that has an original holds its key, and shares it with no other.
HeldByOne ==
  /\ \A f \in Face : original[f] # None => stage[original[f]] = "held"
  /\ \A f, g \in Face : original[f] # None /\ original[f] = original[g] => f = g

IInv == TypeOK /\ OnePicture /\ HeldByOne /\ Kept /\ Matching

-----------------------------------------------------------------------------
\* Initially no key is in use, and legacy faces have their own picture.
LEMMA InitInv ==
  ASSUME Distinct, Init
  PROVE  IInv
<1>1. TypeOK
  BY DEF Distinct, Init, TypeOK, Stages
<1>2. \A f \in Face : registered[f] \notin Key /\ original[f] = None
  BY DEF Distinct, Init
<1> QED
  BY <1>1, <1>2 DEF IInv, OnePicture, HeldByOne, Kept, Matching

\* A registered picture is held by its face or still claimed, so its key is in
\* no other stage.
LEMMA InUse ==
  ASSUME Distinct, IInv, NEW f \in Face, registered[f] \in Key
  PROVE  stage[registered[f]] \in {"claimed", "held"}
  BY DEF Distinct, IInv, TypeOK, Kept, HeldByOne

\* Claiming or losing a fresh key touches nobody.
LEMMA FreshKeeps ==
  ASSUME Distinct, IInv, NEW k \in Key, Claim(k) \/ Lose(k)
  PROVE  IInv'
<1>1. stage[k] = "fresh" /\ UNCHANGED <<registered, original, object>>
  BY DEF Claim, Lose
<1>2. \E to \in {"claimed", "gone"} : stage' = [j \in Key |-> IF j \in {k} THEN to ELSE stage[j]]
  BY DEF Claim, Lose, Move
<1>3. TypeOK'
  BY <1>1, <1>2 DEF IInv, TypeOK, Stages
<1>4. \A j \in Key : j # k => stage'[j] = stage[j]
  BY <1>2
<1>5. \A f \in Face : registered[f] # k /\ original[f] # k
  BY <1>1, InUse DEF IInv, HeldByOne, Distinct
<1>6. OnePicture' /\ Matching'
  BY <1>1 DEF IInv, OnePicture, Matching
<1>7. HeldByOne'
  BY <1>1, <1>4, <1>5 DEF IInv, TypeOK, HeldByOne
<1>8. Kept'
  BY <1>1, <1>4, <1>5 DEF IInv, Kept
<1> QED
  BY <1>3, <1>6, <1>7, <1>8 DEF IInv

\* A picture is stored where none was, so no registered picture is replaced.
LEMMA StoreKeeps ==
  ASSUME Distinct, IInv, NEW k \in Key, NEW p \in Key \cup Face, Store(k, p)
  PROVE  IInv'
<1>1. stage[k] = "claimed" /\ object[k] = None /\ UNCHANGED <<registered, original, stage>>
  BY DEF Store
<1>2. TypeOK'
  BY DEF Store, IInv, TypeOK
<1>3. \A j \in Key : j # k => object'[j] = object[j]
  BY DEF Store, IInv, TypeOK
<1>4. \A f \in Face : registered[f] # k /\ original[f] # k
  BY <1>1 DEF IInv, HeldByOne, Kept, Distinct
<1>5. OnePicture' /\ HeldByOne'
  BY <1>1 DEF IInv, OnePicture, HeldByOne
<1>6. Kept'
  BY <1>1, <1>3, <1>4 DEF IInv, Kept
<1>7. Matching'
  BY <1>1, <1>3, <1>4 DEF IInv, TypeOK, Matching
<1> QED
  BY <1>2, <1>5, <1>6, <1>7 DEF IInv

\* A new face comes with a picture that nobody has.
LEMMA RegisterKeeps ==
  ASSUME Distinct, IInv, NEW f \in Face, NEW k \in Key, Register(f, k)
  PROVE  IInv'
<1>1. /\ original[f] = None /\ stage[k] = "claimed" /\ object[k] = k
      /\ \A g \in Face : registered[g] # k
      /\ UNCHANGED <<original, stage, object>>
  BY DEF Register
<1>2. TypeOK' /\ registered'[f] = k
  BY DEF Register, IInv, TypeOK
<1>3. \A g \in Face : g # f => registered'[g] = registered[g]
  BY DEF Register, IInv, TypeOK
<1>4. OnePicture'
  BY <1>1, <1>2, <1>3 DEF IInv, OnePicture
<1>5. HeldByOne'
  BY <1>1 DEF IInv, HeldByOne
<1>6. Kept'
  BY <1>1, <1>2, <1>3 DEF IInv, Kept
<1>7. Matching'
  BY <1>1, <1>2, <1>3 DEF IInv, Matching
<1> QED
  BY <1>2, <1>4, <1>5, <1>6, <1>7 DEF IInv

\* The key a face takes was claimed, so nobody held it.
LEMMA HoldKeeps ==
  ASSUME Distinct, IInv, NEW f \in Face, NEW k \in Key, Hold(f, k)
  PROVE  IInv'
<1>1. /\ stage[k] = "claimed" /\ original[f] = None /\ registered[f] = object[k]
      /\ UNCHANGED <<registered, object>>
  BY DEF Hold
<1>2. TypeOK' /\ original'[f] = k /\ stage'[k] = "held"
  BY DEF Hold, Move, IInv, TypeOK, Stages
<1>3. \A g \in Face : g # f => original'[g] = original[g]
  BY DEF Hold, IInv, TypeOK
<1>4. \A j \in Key : j # k => stage'[j] = stage[j]
  BY DEF Hold, Move
<1>5. \A g \in Face : original[g] # k
  BY <1>1 DEF IInv, HeldByOne, Distinct
<1>6. OnePicture'
  BY <1>1 DEF IInv, OnePicture
<1>7. HeldByOne'
  BY <1>1, <1>2, <1>3, <1>4, <1>5 DEF IInv, TypeOK, HeldByOne
<1>8. ASSUME NEW g \in Face, registered[g] \in Key
      PROVE  /\ object[registered[g]] = registered[g]
             /\ original'[g] = registered[g] \/ stage'[registered[g]] = "claimed"
  <2>1. object[registered[g]] = registered[g]
    BY <1>8 DEF IInv, Kept
  <2>2. CASE registered[g] = k
    <3>1. registered[g] = registered[f]
      BY <1>1, <2>1, <2>2
    <3>2. g = f
      BY <3>1, <1>8 DEF IInv, OnePicture
    <3> QED
      BY <2>1, <2>2, <3>2, <1>2
  <2>3. CASE registered[g] # k
    <3>1. original[g] = registered[g] \/ stage[registered[g]] = "claimed"
      BY <1>8 DEF IInv, Kept
    <3>2. original[g] = registered[g] => g # f
      BY <1>1, <1>8 DEF Distinct
    <3> QED
      BY <2>1, <2>3, <3>1, <3>2, <1>3, <1>4, <1>8
  <2> QED
    BY <2>2, <2>3
<1>9. Kept'
  BY <1>8, <1>1 DEF Kept
<1>10. Matching'
  BY <1>1, <1>2, <1>3 DEF IInv, Matching
<1> QED
  BY <1>2, <1>6, <1>7, <1>9, <1>10 DEF IInv

\* Faces that are removed leave the others as they are.
LEMMA UnregisterKeeps ==
  ASSUME Distinct, IInv, NEW F \in SUBSET Face, Unregister(F)
  PROVE  IInv'
<1>1. UNCHANGED <<original, stage, object>>
  BY DEF Unregister
<1>2. \A f \in Face : registered'[f] = None \/ registered'[f] = registered[f]
  BY DEF Unregister
<1>3. TypeOK'
  BY DEF Unregister, IInv, TypeOK
<1>4. OnePicture' /\ Kept'
  BY <1>1, <1>2 DEF IInv, OnePicture, Kept, Distinct
<1>5. HeldByOne' /\ Matching'
  BY <1>1, <1>2 DEF IInv, HeldByOne, Matching
<1> QED
  BY <1>3, <1>4, <1>5 DEF IInv

\* Keys of removed faces are condemned; no face that stays has one of them.
LEMMA ForgetKeeps ==
  ASSUME Distinct, IInv, NEW F \in SUBSET Face, Forget(F)
  PROVE  IInv'
<1> DEFINE K == {original[f] : f \in F}
<1>1. /\ \A f \in F : registered[f] = None /\ original[f] # None
      /\ UNCHANGED <<registered, object>>
  BY DEF Forget
<1>2. \A g \in Face : original'[g] = IF g \in F THEN None ELSE original[g]
  BY DEF Forget
<1>3. \A j \in Key : stage'[j] = IF j \in K THEN "condemned" ELSE stage[j]
  BY DEF Forget, Move
<1>4. TypeOK'
  <2>1. original' \in [Face -> Key \cup {None}]
    BY DEF Forget, IInv, TypeOK
  <2>2. stage' \in [Key -> Stages]
    BY DEF Forget, Move, IInv, TypeOK, Stages
  <2> QED
    BY <2>1, <2>2, <1>1 DEF IInv, TypeOK
<1>5. \A g \in Face : g \notin F => original[g] = None \/ original[g] \notin K
  BY DEF IInv, HeldByOne
<1>6. \A j \in K : stage[j] = "held"
  BY <1>1 DEF IInv, HeldByOne
<1>7. OnePicture' /\ Matching'
  BY <1>1, <1>2 DEF IInv, OnePicture, Matching
<1>8. HeldByOne'
  BY <1>2, <1>3, <1>5 DEF IInv, TypeOK, HeldByOne
<1>9. ASSUME NEW g \in Face, registered[g] \in Key
      PROVE  /\ object[registered[g]] = registered[g]
             /\ original'[g] = registered[g] \/ stage'[registered[g]] = "claimed"
  <2>1. g \notin F
    BY <1>1, <1>9 DEF Distinct
  <2>2. stage[registered[g]] = "claimed" => stage'[registered[g]] = "claimed"
    BY <1>3, <1>6, <1>9
  <2> QED
    BY <2>1, <2>2, <1>2, <1>9 DEF IInv, Kept
<1>10. Kept'
  BY <1>9, <1>1 DEF Kept
<1> QED
  BY <1>4, <1>7, <1>8, <1>10 DEF IInv

\* A claim nobody was registered with can be given up.
LEMMA DiscardKeeps ==
  ASSUME Distinct, IInv, NEW k \in Key, Discard(k)
  PROVE  IInv'
<1>1. /\ stage[k] = "claimed" /\ \A f \in Face : registered[f] # k
      /\ UNCHANGED <<registered, original, object>>
  BY DEF Discard
<1>2. TypeOK' /\ \A j \in Key : j # k => stage'[j] = stage[j]
  BY DEF Discard, Move, IInv, TypeOK, Stages
<1>3. \A f \in Face : original[f] # k
  BY <1>1 DEF IInv, HeldByOne, Distinct
<1>4. OnePicture' /\ Matching'
  BY <1>1 DEF IInv, OnePicture, Matching
<1>5. HeldByOne'
  BY <1>1, <1>2, <1>3 DEF IInv, TypeOK, HeldByOne
<1>6. Kept'
  BY <1>1, <1>2 DEF IInv, Kept
<1> QED
  BY <1>2, <1>4, <1>5, <1>6 DEF IInv

\* Only condemned keys are erased and ended, and no face uses one of them.
LEMMA EraseKeeps ==
  ASSUME Distinct, IInv, NEW K \in SUBSET Key, Erase(K) \/ Finish(K)
  PROVE  IInv'
<1>1. /\ \A k \in K : stage[k] = "condemned"
      /\ UNCHANGED <<registered, original>>
  BY DEF Erase, Finish
<1>2. /\ \A j \in Key \ K : object'[j] = object[j]
      /\ \A j \in Key \ K : stage'[j] = stage[j]
  BY DEF Erase, Finish, Move
<1>3. TypeOK'
  BY DEF Erase, Finish, Move, IInv, TypeOK, Stages
<1>4. \A f \in Face : registered[f] \in Key => registered[f] \notin K
  BY <1>1, InUse
<1>5. \A f \in Face : original[f] # None => original[f] \in Key \ K
  BY <1>1 DEF IInv, TypeOK, HeldByOne
<1>6. OnePicture'
  BY <1>1 DEF IInv, OnePicture
<1>7. HeldByOne' /\ Matching'
  BY <1>1, <1>2, <1>5 DEF IInv, HeldByOne, Matching
<1>8. Kept'
  BY <1>1, <1>2, <1>4 DEF IInv, Kept
<1> QED
  BY <1>3, <1>6, <1>7, <1>8 DEF IInv

\* Every step of an archive keeps the inductive invariant.
LEMMA StepKeeps ==
  ASSUME Distinct, IInv, [Next]_vars
  PROVE  IInv'
<1>1. ASSUME NEW k \in Key, Claim(k) \/ Lose(k)
      PROVE  IInv'
  BY <1>1, FreshKeeps
<1>2. ASSUME NEW k \in Key, Discard(k)
      PROVE  IInv'
  BY <1>2, DiscardKeeps
<1>3. ASSUME NEW k \in Key, NEW p \in Key \cup Face, Store(k, p)
      PROVE  IInv'
  BY <1>3, StoreKeeps
<1>4. ASSUME NEW f \in Face, NEW k \in Key, Register(f, k)
      PROVE  IInv'
  BY <1>4, RegisterKeeps
<1>5. ASSUME NEW f \in Face, NEW k \in Key, Hold(f, k)
      PROVE  IInv'
  BY <1>5, HoldKeeps
<1>6. ASSUME NEW F \in SUBSET Face, Unregister(F)
      PROVE  IInv'
  BY <1>6, UnregisterKeeps
<1>7. ASSUME NEW F \in SUBSET Face, Forget(F)
      PROVE  IInv'
  BY <1>7, ForgetKeeps
<1>8. ASSUME NEW K \in SUBSET Key, Erase(K) \/ Finish(K)
      PROVE  IInv'
  BY <1>8, EraseKeeps
<1>9. CASE UNCHANGED vars
  BY <1>9 DEF vars, IInv, TypeOK, OnePicture, HeldByOne, Kept, Matching
<1> QED
  BY <1>1, <1>2, <1>3, <1>4, <1>5, <1>6, <1>7, <1>8, <1>9 DEF Next

-----------------------------------------------------------------------------
\* The original of every face that was registered with one is stored and safe
\* from erasure for as long as the face is registered:
\* complete_upload gives a claim up only in the transaction that writes the image
\* row (journal.py:55-59).
THEOREM OriginalsAreKept ==
  ASSUME Distinct
  PROVE  Spec => []Kept
<1>1. Init => IInv
  BY InitInv
<1>2. IInv /\ [Next]_vars => IInv'
  BY StepKeeps
<1>3. IInv => Kept
  BY DEF IInv
<1> QED
  BY <1>1, <1>2, <1>3, PTL DEF Spec

\* What a registered face holds is the picture it was registered with, and no
\* two faces hold one key.
THEOREM OriginalsMatch ==
  ASSUME Distinct
  PROVE  Spec => [](Matching /\ HeldByOne)
<1>1. Init => IInv
  BY InitInv
<1>2. IInv /\ [Next]_vars => IInv'
  BY StepKeeps
<1>3. IInv => Matching /\ HeldByOne
  BY DEF IInv
<1> QED
  BY <1>1, <1>2, <1>3, PTL DEF Spec
=============================================================================
