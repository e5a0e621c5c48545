----------------------------- MODULE ObjectStore ----------------------------
(***************************************************************************)
(* The S3-compatible object store behind S3Store (store.py): objects by    *)
(* key, and PutObject requests that have been sent and have not landed.    *)
(***************************************************************************)
EXTENDS GatewayTypes

VARIABLES
  store,   \* store[k]: the picture stored under k, or None
  puts     \* PutObject requests in flight

storeVars == <<store, puts>>

StoreInit ==
  /\ store = [k \in Key |-> None]
  /\ puts = {}

StoreTypeOK ==
  /\ store \in [Key -> Picture \cup {None}]
  /\ puts \subseteq Put

\* put_object reaches the store.
PutLands(p) ==
  /\ store' = [store EXCEPT ![p.key] = p.picture]
  /\ puts' = puts \ {p}

\* delete_object of every key in K: idempotent.
DeleteObjects(K) ==
  /\ store' = [k \in Key |-> IF k \in K THEN None ELSE store[k]]
  /\ UNCHANGED puts

\* The gateway gives up on its put of object k; it stays in flight only where
\* the environment lets a put outlive its request.
AbandonPut(k) ==
  /\ puts' = IF "put" \in Late THEN puts ELSE {p \in puts : p.key # k}
  /\ UNCHANGED store
=============================================================================
