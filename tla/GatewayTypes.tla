---------------------------- MODULE GatewayTypes ----------------------------
(***************************************************************************)
(* Constants and record types shared by the modules of the object-storage  *)
(* gateway (services/oss-gateway).  Everything here belongs to ONE service *)
(* key: the gateway keeps a lock and a journal namespace per key, and no   *)
(* row, lock or face of one key is touched by a request of another.        *)
(***************************************************************************)
EXTENDS Naturals, FiniteSets

CONSTANTS
  Request,     \* handler tasks of the gateway process, reused once idle
  Worker,      \* the background task that flushes the outbox
  Face,        \* image identifiers the backend may issue
  Legacy,      \* faces whose original was saved in the backend's database
  Key,         \* object keys (fresh uuids)
  Subject,     \* subject names
  None,        \* SQL NULL, no owner, no value
  Late,        \* remote operations that may still execute after the
               \* gateway stopped waiting for them
  Bypass,      \* writes the backend may receive without the gateway
  FlushLimit,  \* rows one flush reads (LIMIT 50)
  MaxCrash,    \* bound: crashes of the gateway in one behaviour
  MaxCalls,    \* bound: calls in flight when a mutation is sent, it included
  MaxRows      \* bound: delete rows when a mutation is sent, its own included

RemoteOps == {"add", "delete", "rename", "put"}

ASSUME LegacyAssumption == Legacy \subseteq Face
ASSUME LateAssumption == Late \subseteq RemoteOps
ASSUME BypassAssumption == Bypass \subseteq {"add", "delete"}
ASSUME LimitAssumption == FlushLimit \in Nat \ {0}
ASSUME BoundAssumption == {MaxCrash, MaxCalls, MaxRows} \subseteq Nat
ASSUME WorkerAssumption == Worker \notin Request
ASSUME NoneAssumption ==
         None \notin Request \cup {Worker} \cup Face \cup Key \cup Subject
ASSUME PictureAssumption == Face \cap Key = {}

Task == Request \cup {Worker}

(***************************************************************************)
(* Original images are told apart by where they come from: the picture of  *)
(* an upload is named by the object key minted for that upload, the        *)
(* picture of a legacy face by the face itself.                            *)
(***************************************************************************)
Picture == Key \cup Face

\* Rows of the journal's tables "uploads" and "deletes".  An operation id is
\* as fresh as the object key of its row, so the key stands for both.  A
\* delete row lists image ids and the object keys known for them.
UploadRow == [key: Key, subject: Subject \cup {None}, previous: SUBSET Face]
DeleteRow == [faces: SUBSET Face, keys: SUBSET Key, ready: BOOLEAN]

ASSUME NoRowAssumption == None \notin UploadRow \cup DeleteRow

\* A mutation the backend has received and not finished.  "by" is the task
\* awaiting the response, None once nobody does.  An add registers picture
\* "key" under subject "to"; a delete removes the faces "ids" and those of the
\* subjects "from"; a rename moves the faces of "from" to "to".
Call == [op: {"add", "delete", "rename"}, by: Request \cup {None},
         key: Key \cup {None}, to: Subject \cup {None},
         from: SUBSET Subject, ids: SUBSET Face]

\* A PutObject request travelling to the object store.
Put == [key: Key, picture: Picture]
=============================================================================
