----------------------------- MODULE FaceService -----------------------------
(***************************************************************************)
(* The RuoYi integration (FaceController, FaceService): logged-in users    *)
(* enrol their own face, verify themselves by it, remove it and look it    *)
(* up.  Each HTTP request is a session of its own thread; a handler calls  *)
(* the service one call after another and holds no lock between them.      *)
(***************************************************************************)
EXTENDS Recognizer

CONSTANTS
  User,        \* users of the host application
  Bound,       \* Bound[u]: the subject "user_<id>" of u
  Supervised,  \* bound: users whose account changes
  Session      \* requests served at the same time

ASSUME FaceServiceAssumption ==
  /\ Bound \in [User -> Subject]
  /\ \A u, v \in User : Bound[u] = Bound[v] => u = v
  /\ Supervised \subseteq User

VARIABLES
  account,   \* account[u]: status of u in the host application
  session    \* session[r]: the request being handled, or None

serviceVars == <<account, session>>

\* An uploaded picture: who may be recognised in it, and how many faces it has.
Picture == [of : Person, faces : {1, 2}]

\* "answered": the service has answered; "verified": the user is told so.
Stage == {"detect", "call", "answered", "verified"}

Handling ==
  [op : {"register", "login", "delete"}, user : User, picture : Picture \cup {None},
   at : Stage, found : Subject \cup {None}]

ASSUME HandlingAssumption == None \notin Picture \cup Handling

ServiceTypeOK ==
  /\ account \in [User -> {"active", "disabled"}]
  /\ session \in [Session -> Handling \cup {None}]
  /\ \A r \in Session : session[r] # None =>
       /\ session[r].picture = None <=> session[r].op = "delete"
       /\ session[r].found # None => session[r].op = "login"

ServiceInit ==
  /\ account = [u \in User |-> "active"]
  /\ session = [r \in Session |-> None]

Request(r, op, stage) ==
  session[r] # None /\ session[r].op = op /\ session[r].at = stage

Advance(r, stage) == session' = [session EXCEPT ![r].at = stage]
End(r) == session' = [session EXCEPT ![r] = None]

-----------------------------------------------------------------------------
\* Mutant: whoever is logged in.
requireOwner_any(u, actor) == TRUE

\* A user manages the face bound to the user's own id only.
requireOwner(u, actor) == u = actor

active(u) == account[u] = "active"

\* An administrator of the host disables, deletes or restores a user.
ChangeAccount(u) ==
  /\ account' = [account EXCEPT ![u] = IF @ = "active" THEN "disabled" ELSE "active"]
  /\ UNCHANGED <<session, recognizerVars>>

Begin(r, op, u, picture, stage) ==
  /\ session[r] = None
  /\ session' = [session EXCEPT ![r] =
       [op |-> op, user |-> u, picture |-> picture, at |-> stage, found |-> None]]
  /\ UNCHANGED <<account, recognizerVars>>

\* register() passes the id of the caller on.
registerFace(r, u, picture) == active(u) /\ Begin(r, "register", u, picture, "detect")

loginByFace(r, u, picture) == Begin(r, "login", u, picture, "detect")

deleteFace(r, actor, u) == requireOwner(u, actor) /\ Begin(r, "delete", u, None, "call")

OneFace(picture) == picture.faces = 1

Detect(r) ==
  /\ Request(r, "register", "detect") \/ Request(r, "login", "detect")
  /\ IF OneFace(session[r].picture) THEN Advance(r, "call") ELSE End(r)
  /\ UNCHANGED <<account, recognizerVars>>

WriteOf(r) ==
  IF session[r].op = "register"
  THEN [op |-> "add", subject |-> Bound[session[r].user], person |-> session[r].picture.of]
  ELSE [op |-> "delete", subject |-> Bound[session[r].user], person |-> None]

Writing(r, stage) == Request(r, "register", stage) \/ Request(r, "delete", stage)

\* addFace and deleteSubject reach the service.
Execute(r) ==
  /\ Writing(r, "call")
  /\ Perform(WriteOf(r))
  /\ Advance(r, "answered")
  /\ UNCHANGED <<account, late>>

\* Mutant: a write succeeds when it has been sent.
Answer_early(r) ==
  /\ Writing(r, "call") \/ Writing(r, "answered")
  /\ End(r)
  /\ late' = IF Writing(r, "call") THEN late \cup {WriteOf(r)} ELSE late
  /\ UNCHANGED <<account, subjects, faces>>

\* The write is answered "success".
Answer(r) ==
  /\ Writing(r, "answered")
  /\ End(r)
  /\ UNCHANGED <<account, recognizerVars>>

\* Refused, timed out or lost, before or after it was executed: "error".
Fail(r) ==
  /\ session[r] # None /\ session[r].at # "verified"
  /\ End(r)
  /\ late' = IF Writing(r, "call") THEN late \cup {WriteOf(r)} ELSE late
  /\ UNCHANGED <<account, subjects, faces>>

\* The service looks for the face in the picture; the SDK ranks what it finds.
Search(r) ==
  /\ Request(r, "login", "call")
  /\ LET matches == Matches(session[r].picture.of) IN
       \E s \in IF matches = {} THEN {None} ELSE matches :
         session' = [session EXCEPT ![r] = [@ EXCEPT !.at = "answered", !.found = s]]
  /\ UNCHANGED <<account, recognizerVars>>

\* The best match is bound to the caller, whose account is active by now.
Verified(r) ==
  \E u \in User :
    Bound[u] = session[r].found /\ requireOwner(u, session[r].user) /\ active(u)

Verify(r) ==
  /\ Request(r, "login", "answered")
  /\ IF Verified(r) THEN Advance(r, "verified") ELSE End(r)
  /\ UNCHANGED <<account, recognizerVars>>

Leave(r) ==
  /\ Request(r, "login", "verified")
  /\ End(r)
  /\ UNCHANGED <<account, recognizerVars>>

\* Every step of the service but the success of a write.
ServiceNext ==
  \/ \E u \in Supervised : ChangeAccount(u)
  \/ \E r \in Session :
       \/ \E u \in User, picture \in Picture : registerFace(r, u, picture) \/ loginByFace(r, u, picture)
       \/ \E actor, u \in User : deleteFace(r, actor, u)
       \/ Detect(r) \/ Execute(r) \/ Fail(r) \/ Search(r) \/ Verify(r) \/ Leave(r)
=============================================================================
