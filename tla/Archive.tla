------------------------------- MODULE Archive ------------------------------
(***************************************************************************)
(* What the gateway promises of originals, without requests, locks, tables *)
(* or crashes.  Every object key has one life:                             *)
(*                                                                         *)
(*   fresh -> claimed -> held by one face -> condemned -> gone             *)
(*                    \_______________________/                            *)
(*                                                                         *)
(* An object is stored only while its key is claimed and erased only once  *)
(* the key is condemned; a key is condemned only when no registered face   *)
(* has its picture, and never comes back.                                  *)
(***************************************************************************)
CONSTANTS Face, Legacy, Key, None

\* What an instance gives the constants, and the theorems assume of them.
Distinct == Legacy \subseteq Face /\ Face \cap Key = {} /\ None \notin Face \cup Key

VARIABLES
  registered,  \* registered[f]: the picture of f, None unless f is registered
  original,    \* original[f]: the key that holds the original of f, or None
  stage,       \* stage[k]: where key k is in its life
  object       \* object[k]: the picture stored under k, or None

vars == <<registered, original, stage, object>>

Stages == {"fresh", "claimed", "held", "condemned", "gone"}

TypeOK ==
  /\ registered \in [Face -> Key \cup Face \cup {None}]
  /\ original \in [Face -> Key \cup {None}]
  /\ stage \in [Key -> Stages]
  /\ object \in [Key -> Key \cup Face \cup {None}]

Init ==
  /\ registered = [f \in Face |-> IF f \in Legacy THEN f ELSE None]
  /\ original = [f \in Face |-> None]
  /\ stage = [k \in Key |-> "fresh"]
  /\ object = [k \in Key |-> None]

Move(K, to) == stage' = [k \in Key |-> IF k \in K THEN to ELSE stage[k]]

Claim(k) ==
  /\ stage[k] = "fresh"
  /\ Move({k}, "claimed")
  /\ UNCHANGED <<registered, original, object>>

\* A crash before the claim: the key is not used again.
Lose(k) ==
  /\ stage[k] = "fresh"
  /\ Move({k}, "gone")
  /\ UNCHANGED <<registered, original, object>>

Store(k, p) ==
  /\ stage[k] = "claimed" /\ object[k] = None
  /\ object' = [object EXCEPT ![k] = p]
  /\ UNCHANGED <<registered, original, stage>>

\* A face is registered only with a picture that is stored and claimed.
Register(f, k) ==
  /\ registered[f] = None /\ original[f] = None
  /\ stage[k] = "claimed" /\ object[k] = k
  /\ \A g \in Face : registered[g] # k
  /\ registered' = [registered EXCEPT ![f] = k]
  /\ UNCHANGED <<original, stage, object>>

\* A key is given to a registered face whose very picture it holds.
Hold(f, k) ==
  /\ stage[k] = "claimed"
  /\ original[f] = None
  /\ registered[f] # None /\ registered[f] = object[k]
  /\ original' = [original EXCEPT ![f] = k]
  /\ Move({k}, "held")
  /\ UNCHANGED <<registered, object>>

Unregister(F) ==
  /\ registered' = [f \in Face |-> IF f \in F THEN None ELSE registered[f]]
  /\ UNCHANGED <<original, stage, object>>

\* Only faces that are no longer registered lose their originals.
Forget(F) ==
  /\ \A f \in F : registered[f] = None /\ original[f] # None
  /\ original' = [f \in Face |-> IF f \in F THEN None ELSE original[f]]
  /\ Move({original[f] : f \in F}, "condemned")
  /\ UNCHANGED <<registered, object>>

\* A claim is given up only if no face was registered with its picture.
Discard(k) ==
  /\ stage[k] = "claimed"
  /\ \A f \in Face : registered[f] # k
  /\ Move({k}, "condemned")
  /\ UNCHANGED <<registered, original, object>>

Erase(K) ==
  /\ \A k \in K : stage[k] = "condemned"
  /\ object' = [k \in Key |-> IF k \in K THEN None ELSE object[k]]
  /\ UNCHANGED <<registered, original, stage>>

Finish(K) ==
  /\ \A k \in K : stage[k] = "condemned" /\ object[k] = None
  /\ Move(K, "gone")
  /\ UNCHANGED <<registered, original, object>>

Next ==
  \/ \E F \in SUBSET Face : Unregister(F)
  \/ \E k \in Key : Claim(k) \/ Lose(k) \/ Discard(k)
  \/ \E k \in Key, p \in Key \cup Face : Store(k, p)
  \/ \E f \in Face, k \in Key : Register(f, k) \/ Hold(f, k)
  \/ \E F \in SUBSET Face : Forget(F)
  \/ \E K \in SUBSET Key : Erase(K) \/ Finish(K)

Spec == Init /\ [][Next]_vars
-----------------------------------------------------------------------------
\* The original of a registered face is stored; the face holds it, or the key
\* is still claimed for it.
Kept ==
  \A f \in Face : registered[f] \in Key =>
    /\ object[registered[f]] = registered[f]
    /\ \/ original[f] = registered[f]
       \/ stage[registered[f]] = "claimed"

\* What a registered face holds is its own picture.
Matching ==
  \A f \in Face : original[f] # None /\ registered[f] # None =>
    object[original[f]] = registered[f]
=============================================================================
