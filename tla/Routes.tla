------------------------------- MODULE Routes -------------------------------
(***************************************************************************)
(* One request on its way through proxy() of the gateway (app.py): what it *)
(* is taken for, what is refused before anything is written, what is       *)
(* journaled before it is forwarded, and what its client is told.  Other   *)
(* requests of the service appear as "unresolved", the result of recover().*)
(***************************************************************************)
EXTENDS Requests, FiniteSets

CONSTANTS
  Name,      \* names of subjects callers use
  Id,        \* image identifiers callers use
  Enrolled,  \* names of the subjects that have a face
  Pictured,  \* the subject of the face whose image callers name
  None       \* no call yet, no response yet

ASSUME RoutesAssumption ==
  /\ Enrolled \subseteq Name /\ Pictured \in Enrolled
  /\ \A n \in Name \cup Id : IsName(n)

Op == {"create", "delete_subject", "list", "add", "delete_face", "recognize",
       "detect", "rename", "list_faces", "delete_faces", "delete_list",
       "verify_face", "download", "static"}
SdkOp == {"create", "delete_subject", "list", "add", "delete_face", "recognize", "detect"}
OpsOf(c) == IF c \in Sdks THEN SdkOp ELSE IF c = "web" THEN SdkOp \cup {"list_faces"} ELSE Op

ReadOps == {"list", "list_faces", "recognize", "verify_face", "download", "static"}
ImageOps == {"add", "recognize", "detect", "verify_face"}
ListOps == {"delete_list"}
PathOps == {"delete_subject", "delete_face", "rename"}

\* What a call names: a subject, an image, or nothing.
Named(op) ==
  CASE op \in {"create", "delete_subject", "add", "rename"} -> Name
    [] op \in {"list_faces", "delete_faces"} -> Name \cup {NoName}
    [] op = "delete_face" -> Id
    [] op \in {"verify_face", "download", "static"} -> {n \in Id : IsWord(n)}
    [] OTHER -> {NoName}

Bodies(op) ==
  CASE op \in ImageOps -> {"image", "text", "large"}
    [] op \in ListOps -> {"ids", "badids"}
    [] OTHER -> {"none"}

Built(op, n, body) ==
  CASE op = "create" -> create_subject(n)
    [] op = "delete_subject" -> delete_subject(n)
    [] op = "list" -> list_subjects
    [] op = "add" -> add_face(n, body)
    [] op = "delete_face" -> delete_face(n)
    [] op = "recognize" -> recognize(body)
    [] op = "detect" -> detect(body)
    [] op = "rename" -> rename_subject(n)
    [] op = "list_faces" -> list_faces(n)
    [] op = "delete_faces" -> delete_faces(n)
    [] op = "delete_list" -> delete_list(body)
    [] op = "verify_face" -> verify_face(n, body)
    [] op = "download" -> download(n)
    [] op = "static" -> static_image(n)

Keys == {"good", "bad", "none"}

ASSUME NoneAssumption ==
  \A op \in Op : \A n \in Named(op), body \in Bodies(op) :
    /\ Built(op, n, body) # None
    /\ \A c \in Clients, key \in Keys : [client |-> c, op |-> op, name |-> n, key |-> key] # None

\* Image identifiers, as uuid.UUID of Python and UUID.fromString of Java take
\* them: only Python accepts the form without hyphens.
Canonical == Token("id")
PythonId == {Canonical, Token("ID"), Token("idhex")}
JavaId == {Canonical, Token("ID")}

VARIABLES
  call,        \* the call: client, operation, what it names, key
  request,     \* its request as it travels
  step,        \* where it is
  unresolved,  \* an operation of the service is unconfirmed
  plan,        \* faces the journal plans to remove
  journal,     \* the operation in the journal: "clean", "intent" or "done"
  effect,      \* faces the backend added and removed
  answer,      \* the response
  raised       \* what the client raised, None if it returned

vars == <<call, request, step, unresolved, plan, journal, effect, answer, raised>>

Step == {"idle", "sent", "admitted", "forwarded", "settling", "answered", "over"}
Statuses == {200, 400, 401, 404, 413, 429, 502, 503}
Answers == [status : Statuses, noface : BOOLEAN]
\* What a read of the backend may be refused with, and how it may fail: call()
\* answers 502, an unreadable body 503, any other status is forwarded.
Failures == Statuses \ {200, 413}
NoEffect == [added |-> {}, removed |-> {}]
Classes == {"authentication", "noface", "ratelimit", "server", "api", "identifier", "plain"}

TypeOK ==
  /\ step \in Step
  /\ unresolved \in BOOLEAN
  /\ plan \subseteq Enrolled
  /\ journal \in {"clean", "intent", "done"}
  /\ effect \in [added : SUBSET Name, removed : SUBSET Enrolled]
  /\ answer \in Answers \cup {None}
  /\ raised \in [class : Classes, status : Statuses \cup {500, None}] \cup {None}
  /\ step = "idle" <=> call = None
  /\ step \in Step \ {"idle", "over"} => request # None

Init ==
  /\ call = None /\ request = None /\ step = "idle"
  /\ unresolved \in BOOLEAN
  /\ plan = {} /\ journal = "clean" /\ effect = NoEffect
  /\ answer = None /\ raised = None

-----------------------------------------------------------------------------
(* The client.                                                             *)

\* Without a key no request is made, and the Go client makes a plain error of it.
KeyMissing(c) == IF c = "go" THEN Raised("plain", None) ELSE Raised("authentication", 401)
BadIdentifier(c) == Raised("identifier", IF c \in {"python", "async"} THEN 400 ELSE None)

Raise(error) ==
  /\ raised' = error
  /\ step' = "over"
  /\ UNCHANGED answer

\* The key is looked up, and identifiers that change the path are refused,
\* before anything is sent.  REST callers only name what a path can carry.
Ask(c, op, n, body, key) ==
  /\ step = "idle"
  /\ c = "rest" /\ op \in PathOps => path_segment(n)
  /\ call' = [client |-> c, op |-> op, name |-> n, key |-> key]
  /\ CASE op \in PathOps /\ ~path_segment(n) ->
            Raise(BadIdentifier(c)) /\ UNCHANGED request
       [] c \in Sdks /\ key = "none" -> Raise(KeyMissing(c)) /\ UNCHANGED request
       [] OTHER -> /\ request' = Built(op, n, body)
                   /\ step' = "sent"
                   /\ UNCHANGED <<answer, raised>>
  /\ UNCHANGED <<unresolved, plan, journal, effect>>

Receive ==
  /\ step = "answered"
  /\ step' = "over"
  /\ raised' = IF answer.status < 300 THEN None ELSE Raises(answer)[call.client]
  /\ UNCHANGED <<call, request, unresolved, plan, journal, effect, answer>>

-----------------------------------------------------------------------------
(* What the gateway takes a request for.                                   *)

\* Mutant: the path is not decoded.
uri_raw == request.rest

uri == unquote(request.rest)

Ends(word) ==
  /\ request.base = "faces" /\ Len(uri) = 3
  /\ uri[1] # Token("/") /\ uri[2] = Token("/") /\ uri[3] = Token(word)

static == request.base = "static"
image == Ends("img")
verify == request.method = "POST" /\ Ends("verify")
Collection == request.base = "faces" /\ uri = <<>>
face_delete == request.method = "DELETE" /\ request.base = "faces" /\ IsWord(uri)
face_list == request.method = "POST" /\ request.base = "faces" /\ uri = <<Token("delete")>>
subject_delete == request.method = "DELETE" /\ request.base = "subjects"

mutation ==
  \/ Collection /\ request.method \in {"POST", "DELETE"}
  \/ face_delete \/ subject_delete \/ face_list

Recognition == request.base \in {"subjects", "faces", "recognize"}

Locked == static \/ image \/ mutation \/ (Recognition /\ call.key # "none")

\* Mutant: every POST counts as a write.
read_only_get == request.method = "GET"

read_only ==
  \/ request.method = "GET"
  \/ request.method = "POST" /\ (request.base = "recognize" \/ verify)

\* The gateway answers; the handler leaves the lock.
Respond(status) ==
  /\ answer' = [status |-> status, noface |-> FALSE]
  /\ step' = "answered"
  /\ UNCHANGED <<call, request, unresolved, effect, raised>>

Untouched == UNCHANGED <<plan, journal>>

TooLarge ==
  /\ step = "sent"
  /\ request.body = "large"
  /\ Respond(413) /\ Untouched

\* Requests of other services, and of no service: passed on without a lock.
PassOn ==
  /\ step = "sent"
  /\ request.body # "large" /\ ~Locked
  /\ step' = "forwarded"
  /\ UNCHANGED <<call, request, unresolved, plan, journal, effect, answer, raised>>

\* authorize(): the backend does not know the key, refuses it, or is not there.
Unauthorized ==
  /\ step = "sent"
  /\ request.body # "large" /\ Locked
  /\ \E status \in Failures : Respond(status) /\ Untouched

Admit ==
  /\ step = "sent"
  /\ request.body # "large" /\ Locked
  /\ call.key = "good"
  /\ step' = "admitted"
  /\ UNCHANGED <<call, request, unresolved, plan, journal, effect, answer, raised>>

\* A read of recover() fails.
RecoverFails ==
  /\ step = "admitted"
  /\ \E status \in Failures : Respond(status) /\ Untouched

Gate ==
  /\ step = "admitted"
  /\ unresolved /\ ~read_only
  /\ Respond(503) /\ Untouched

Serving == step = "admitted" /\ ~(unresolved /\ ~read_only)
Download == request.method = "GET" /\ (static \/ image)

ReadImage ==
  /\ Serving /\ Download
  /\ IF uri[1] \in PythonId THEN \E status \in {200} \cup Failures : Respond(status)
                            ELSE Respond(400)
  /\ Untouched

Adding == Collection /\ request.method = "POST"
Deleting == mutation /\ ~Adding

BadSubject == request.query \in {NoName, <<>>, <<Token("51 characters")>>}

\* The subject and the picture are looked at before the backend is asked.
RefuseAdd ==
  /\ Serving /\ Adding
  /\ BadSubject \/ request.body # "image"
  /\ Respond(400) /\ Untouched

\* face_ids fails, or the object cannot be stored and its intent is discarded.
AddUnavailable ==
  /\ Serving /\ Adding
  /\ ~BadSubject /\ request.body = "image"
  /\ \E status \in Failures : Respond(status) /\ Untouched

Forward ==
  /\ step' = "forwarded"
  /\ UNCHANGED <<call, request, unresolved, effect, answer, raised>>

BeginAdd ==
  /\ Serving /\ Adding
  /\ ~BadSubject /\ request.body = "image"
  /\ journal' = "intent"
  /\ Forward /\ UNCHANGED plan

ById == face_delete \/ face_list
BadIds == IF face_list THEN request.body # "ids" ELSE uri[1] \notin PythonId

RefuseDelete ==
  /\ Serving /\ Deleting /\ ById
  /\ BadIds
  /\ Respond(400) /\ Untouched

\* The faces of a subject, or of all, as the backend lists them.
Listed(n) == IF n = NoName THEN Enrolled ELSE Enrolled \cap {n}

\* Mutant: a subject is taken for its faces, without asking the backend.
Planned_unlisted ==
  IF ById THEN {Pictured}
  ELSE {IF subject_delete THEN uri ELSE request.query} \ {NoName}

Planned ==
  IF ById THEN {Pictured}
  ELSE Listed(IF subject_delete THEN uri ELSE request.query)

PlanDelete ==
  /\ Serving /\ Deleting
  /\ ById => ~BadIds
  /\ plan' = Planned
  /\ journal' = "intent"
  /\ Forward

ListingFails ==
  /\ Serving /\ Deleting /\ ~ById
  /\ \E status \in Failures : Respond(status) /\ Untouched

\* Creating and renaming subjects, recognition, lists.
Proxy ==
  /\ Serving /\ ~Download /\ ~mutation
  /\ Forward /\ Untouched

-----------------------------------------------------------------------------
(* The backend, and what the gateway makes of its answer.                  *)

\* What the backend takes the request for, from the path it decodes itself.
Erases == request.method = "DELETE"
Enrols == request.method = "POST" /\ request.base = "faces" /\ request.rest = <<>>
ErasesList == request.method = "POST" /\ request.base = "faces" /\ request.rest = <<Token("delete")>>
ErasesOne == Erases /\ request.base = "faces" /\ request.rest # <<>>

Understood ==
  /\ ErasesOne => request.rest \in {<<id>> : id \in JavaId}
  /\ ErasesList => request.body = "ids"

Executed ==
  [added |-> IF Enrols THEN {request.query} ELSE {},
   removed |->
     CASE ErasesOne \/ ErasesList -> {Pictured}
       [] Erases /\ request.base = "subjects" -> Listed(unquote(request.rest))
       [] Erases /\ request.base = "faces" /\ request.rest = <<>> -> Listed(request.query)
       [] OTHER -> {}]

Execute == Understood /\ call.key = "good" /\ effect' = Executed

Backend ==
  /\ step = "forwarded"
  /\ step' = "settling"
  /\ \/ Execute /\ answer' = [status |-> 200, noface |-> FALSE]
     \/ \E status \in {400, 401, 404, 429}, noface \in BOOLEAN :
          /\ noface => status = 400
          /\ answer' = [status |-> status, noface |-> noface]
          /\ UNCHANGED effect
     \/ \E status \in {502, 503} :
          /\ answer' = [status |-> status, noface |-> FALSE]
          /\ Execute \/ UNCHANGED effect
  /\ UNCHANGED <<call, request, unresolved, plan, journal, raised>>

\* Mutant: whatever is not a success ends the operation.
Settle_final ==
  /\ step = "settling"
  /\ journal' = IF journal = "intent" THEN "done" ELSE journal
  /\ step' = "answered"
  /\ UNCHANGED <<call, request, unresolved, plan, effect, answer, raised>>

\* Success completes the operation and a refusal discards it; after a 5xx or a
\* lost response it stays in the journal.
Settle ==
  /\ step = "settling"
  /\ journal' = IF journal = "intent" /\ answer.status < 500 THEN "done" ELSE journal
  /\ step' = "answered"
  /\ UNCHANGED <<call, request, unresolved, plan, effect, answer, raised>>

\* The body of a success names no image: the handler raises, and the face that
\* was added stays in the journal.
AddUnreadable ==
  /\ step = "settling"
  /\ Adding /\ answer.status = 200
  /\ Respond(503) /\ Untouched

Next ==
  \/ \E c \in Clients : \E op \in OpsOf(c) :
       \E n \in Named(op), body \in Bodies(op), key \in Keys :
         Ask(c, op, n, body, key)
  \/ TooLarge \/ PassOn \/ Unauthorized \/ Admit
  \/ RecoverFails \/ Gate \/ ReadImage
  \/ RefuseAdd \/ AddUnavailable \/ BeginAdd
  \/ RefuseDelete \/ PlanDelete \/ ListingFails \/ Proxy
  \/ Backend \/ Settle \/ AddUnreadable \/ Receive

Spec == Init /\ [][Next]_vars
-----------------------------------------------------------------------------
Asked ==
  CASE call.op = "delete_subject" -> Listed(call.name)
    [] call.op = "delete_faces" -> Listed(call.name)
    [] call.op \in {"delete_face", "delete_list"} -> {Pictured}
    [] OTHER -> {}

\* The three readers of a path agree: the faces the journal plans to remove,
\* the faces the backend removes and the faces the caller named are the same,
\* also for names with "/" and names that look encoded (app.py:317: "Decode
\* exactly once"); and a name that a path carries arrives as it was given.
PlansWhatIsAsked ==
  /\ effect.removed # {} => effect.removed = plan /\ effect.removed = Asked
  /\ effect.added # {} => effect.added = {call.name}
  /\ request # None /\ call.op \in PathOps => unquote(request.rest) = call.name

\* What an answer says is what happened: no face came or went behind a 4xx, and
\* the journal keeps no intent for one; faces that came or went without a
\* success are still in the journal, for the next recovery.
AnswersAreHonest ==
  step \in {"answered", "over"} /\ answer # None =>
    /\ answer.status \in 300..499 => effect = NoEffect /\ journal # "intent"
    /\ answer.status >= 500 /\ effect # NoEffect => journal = "intent"

\* "Queries, image reads, recognition and verification of one image are allowed
\* while an operation is unconfirmed, later writes are answered 503"
\* (docs/object-storage.md:43), and only writes are.
WritesWait ==
  unresolved /\ request # None /\ Locked =>
    /\ call.op \notin ReadOps => step \notin {"forwarded", "settling"} /\ journal = "clean"
    /\ call.op \in ReadOps /\ step = "admitted" => Serving

\* "The SDKs keep the status" of an unknown service, which is 404 and not 401
\* (docs/protocol.md:18): a client reports the status it was answered, but for
\* the server errors of the Python clients, and reports a refused key only if
\* the key was refused or missing.
StatusKept ==
  step = "over" /\ raised # None /\ raised.class # "identifier" =>
    /\ answer # None => raised.status =
         IF raised.class = "server" THEN 500 ELSE answer.status
    /\ raised.class = "authentication" => call.key # "good" \/ answer.status = 401
    /\ raised.class = "noface" => answer.noface
=============================================================================
