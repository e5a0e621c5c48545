----------------------------- MODULE CompreFace -----------------------------
(***************************************************************************)
(* The recognition backend, external to the repository, as the gateway and *)
(* its test double (services/oss-gateway/tests/test_gateway.py) use it.    *)
(* It registers faces under subjects, issues fresh image ids, and may      *)
(* execute a mutation long after the gateway gave up on the response.      *)
(***************************************************************************)
EXTENDS GatewayTypes

VARIABLES
  subject,   \* subject[f]: the subject f is registered under, or None
  picture,   \* picture[f]: the original f was registered with; None while the
             \* id has not been issued.  Kept after the face is deleted.
  calls      \* mutations received and not yet executed

backendVars == <<subject, picture, calls>>

BackendInit ==
  /\ subject \in [Face -> Subject \cup {None}]
  /\ \A f \in Face : subject[f] # None <=> f \in Legacy
  /\ picture = [f \in Face |-> IF f \in Legacy THEN f ELSE None]
  /\ calls = {}

BackendTypeOK ==
  /\ subject \in [Face -> Subject \cup {None}]
  /\ picture \in [Face -> Picture \cup {None}]
  /\ calls \subseteq Call

\* What GET /faces lists for the given subjects (all of them: Subject).
FacesOf(subjects) == {f \in Face : subject[f] \in subjects}

issued == {f \in Face : picture[f] # None}

\* The faces a mutation applies to when it executes.
Targets(c) == c.ids \cup FacesOf(c.from)

CommitAdd(c, f) ==
  /\ c.op = "add"
  /\ picture[f] = None
  /\ subject' = [subject EXCEPT ![f] = c.to]
  /\ picture' = [picture EXCEPT ![f] = c.key]
  /\ calls' = calls \ {c}

CommitDelete(c) ==
  /\ c.op = "delete"
  /\ subject' = [f \in Face |-> IF f \in Targets(c) THEN None ELSE subject[f]]
  /\ calls' = calls \ {c}
  /\ UNCHANGED picture

CommitRename(c) ==
  /\ c.op = "rename"
  /\ subject' = [f \in Face |-> IF f \in Targets(c) THEN c.to ELSE subject[f]]
  /\ calls' = calls \ {c}
  /\ UNCHANGED picture

\* A mutation ends without effect: refused with a 4xx, or lost on the way.
DropCall(c) ==
  /\ calls' = calls \ {c}
  /\ UNCHANGED <<subject, picture>>
=============================================================================
