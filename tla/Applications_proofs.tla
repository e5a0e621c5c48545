------------------------- MODULE Applications_proofs -------------------------
(***************************************************************************)
(* What the host application and the web console may promise of one        *)
(* recognition service, for any users, subjects, requests, refreshes and   *)
(* deletions at the same time, and any writes that are executed after      *)
(* their senders gave up.                                                  *)
(*                                                                         *)
(* A confirmed deletion lasts as long as no registration of the subject is *)
(* on its way, and a handler never knows of the others.  So the induction  *)
(* follows, for a deletion that no registration overlaps, what it has done *)
(* to the faces of the subject (DeletionsTold), and for a verification     *)
(* that began afterwards what it can still find (BarredFail).  A list is   *)
(* put together from answers given at different times: FetchSound says of  *)
(* each refresh that what it knows so far was true at some time that the   *)
(* console remembers.                                                      *)
(***************************************************************************)
EXTENDS Applications, FiniteSetTheorems, TLAPS

\* Who enrols a face names a person.
WellFormed(w) == w \in Write /\ (w.op = "add" => w.person \in Person)

RecognizerInv ==
  /\ RecognizerTypeOK
  /\ \A s \in Subject : IsFiniteSet(faces[s]) /\ FaceCount(s) \in 0 .. MaxFaces
  /\ \A w \in late : WellFormed(w)

Logins == {r \in Session : session[r] # None /\ session[r].op = "login"}

SessionInv ==
  /\ ServiceTypeOK
  /\ \A r \in Logins : session[r].at # "detect" => session[r].picture.faces = 1
  /\ \A r \in Logins : session[r].at = "verified" => session[r].found = Bound[session[r].user]

ViewInv ==
  /\ ViewTypeOK
  /\ table \in [rows : Rows, newest : BOOLEAN]
  /\ task \in [Task -> [write : Write, done : BOOLEAN] \cup {None}]
  /\ fetching \in [Refresh ->
       [listed : BOOLEAN, rows : Rows, todo : SUBSET Subject, newest : BOOLEAN] \cup {None}]
  /\ \A t \in Task : task[t] # None => WellFormed(task[t].write)
  /\ \A k \in Refresh : fetching[k] # None /\ ~fetching[k].listed =>
       DOMAIN fetching[k].rows = {} /\ fetching[k].todo = {}

-----------------------------------------------------------------------------
\* The subject has no face, and nothing on its way gives it one.
Emptied == faces[Own] = {} /\ ~Pending

DeletionsTold ==
  /\ gone => Emptied
  /\ quiet \subseteq Deletions
  /\ \A c \in quiet : ~Pending /\ (Performed(c) => faces[Own] = {})

BarredFail ==
  \A r \in barred :
    /\ r \in Verifying /\ Emptied
    /\ session[r].at # "verified"
    /\ session[r].at = "answered" => session[r].found # Own

IdleFail ==
  /\ idle \subseteq Verifying
  /\ \A r \in idle : session[r].at # "verified"

\* What a list says of the subject was so at one of the times remembered.
Remembered(times, rows, todo) ==
  /\ Own \in todo \cup DOMAIN rows => \E v \in times : v.exists
  /\ Own \in DOMAIN rows => \E v \in times : rows[Own] \in {v.count, None}
  /\ Own \notin todo \cup DOMAIN rows => \E v \in times : ~v.exists

FetchSound ==
  \A k \in Refresh : fetching[k] # None /\ fetching[k].listed /\ fetching[k].newest =>
    Remembered(known, fetching[k].rows, fetching[k].todo)

TableSound == table.newest => Remembered(known, table.rows, {})

HistoryInv ==
  /\ DeletionsTold
  /\ BarredFail
  /\ IdleFail
  /\ StateOf \in known
  /\ FetchSound
  /\ TableSound

IInv == RecognizerInv /\ SessionInv /\ ViewInv /\ HistoryInv

-----------------------------------------------------------------------------
(* The faces of the subjects.                                              *)

\* A write that is accepted leaves the service as it should be.
LEMMA PerformSound ==
  ASSUME RecognizerInv, NEW w, WellFormed(w), Perform(w)
  PROVE  /\ subjects' \subseteq Subject
         /\ faces' \in [Subject -> SUBSET (Person \X (1 .. MaxFaces))]
         /\ \A s \in Subject \ subjects' : faces'[s] = {}
         /\ \A s \in Subject : IsFiniteSet(faces'[s]) /\ FaceCount(s)' \in 0 .. MaxFaces
<1> DEFINE x == w.subject
<1>1. x \in Subject /\ w.op \in {"create", "delete", "add"} /\ MaxFaces \in Nat \ {0}
  BY RecognizerAssumption DEF WellFormed, Write
<1>2. /\ subjects \subseteq Subject
      /\ faces \in [Subject -> SUBSET (Person \X (1 .. MaxFaces))]
      /\ \A s \in Subject \ subjects : faces[s] = {}
      /\ \A s \in Subject : IsFiniteSet(faces[s]) /\ Cardinality(faces[s]) \in 0 .. MaxFaces
  BY DEF RecognizerInv, RecognizerTypeOK, FaceCount
<1>3. CASE w.op = "create"
  <2>1. faces' = faces /\ subjects' = subjects \cup {x}
    BY <1>1, <1>2, <1>3 DEF Perform
  <2> QED
    BY <1>1, <1>2, <2>1 DEF FaceCount
<1>4. CASE w.op = "delete"
  <2>1. faces' = [faces EXCEPT ![x] = {}] /\ subjects' = subjects \ {x}
    BY <1>4 DEF Perform
  <2>2. IsFiniteSet({}) /\ Cardinality({}) = 0
    BY FS_EmptySet
  <2>3. \A s \in Subject : faces'[s] = IF s = x THEN {} ELSE faces[s]
    BY <1>1, <1>2, <2>1
  <2>4. \A s \in Subject : IsFiniteSet(faces'[s]) /\ Cardinality(faces'[s]) \in 0 .. MaxFaces
    BY <1>1, <1>2, <2>2, <2>3
  <2> QED
    BY <1>1, <1>2, <2>1, <2>3, <2>4 DEF FaceCount
<1>5. CASE w.op = "add"
  <2> DEFINE new == <<w.person, Cardinality(faces[x]) + 1>>
  <2>1. faces' = [faces EXCEPT ![x] = @ \cup {new}] /\ subjects' = subjects \cup {x}
    BY <1>5 DEF Perform, FaceCount
  <2>2. Cardinality(faces[x]) < MaxFaces
    BY <1>5 DEF Perform, Accepts, FaceCount
  <2>3. w.person \in Person
    BY <1>5 DEF WellFormed
  <2>4. new \in Person \X (1 .. MaxFaces)
    BY <1>1, <1>2, <2>2, <2>3
  <2>5. /\ IsFiniteSet(faces[x] \cup {new})
        /\ Cardinality(faces[x] \cup {new}) \in {Cardinality(faces[x]), Cardinality(faces[x]) + 1}
    BY <1>1, <1>2, FS_AddElement
  <2>6. \A s \in Subject : faces'[s] = IF s = x THEN faces[x] \cup {new} ELSE faces[s]
    BY <1>1, <1>2, <2>1
  <2> HIDE DEF new
  <2>7. \A s \in Subject : IsFiniteSet(faces'[s]) /\ Cardinality(faces'[s]) \in 0 .. MaxFaces
    <3>1. Cardinality(faces[x]) \in 0 .. MaxFaces
      BY <1>1, <1>2
    <3>2. Cardinality(faces[x] \cup {new}) \in 0 .. MaxFaces
      BY <1>1, <2>2, <2>5, <3>1
    <3> QED
      BY <1>2, <2>5, <2>6, <3>2
  <2>8. faces' \in [Subject -> SUBSET (Person \X (1 .. MaxFaces))]
    BY <1>1, <1>2, <2>1, <2>4
  <2> QED
    BY <1>1, <1>2, <2>1, <2>6, <2>7, <2>8 DEF FaceCount
<1> QED
  BY <1>1, <1>3, <1>4, <1>5

\* Only a registration gives the subject a face.
LEMMA PerformOwn ==
  ASSUME RecognizerInv, NEW w, WellFormed(w), Perform(w), Own \in Subject, faces[Own] = {},
         ~ (w.op = "add" /\ w.subject = Own)
  PROVE  faces'[Own] = {}
<1>1. faces \in [Subject -> SUBSET (Person \X (1 .. MaxFaces))]
  BY DEF RecognizerInv, RecognizerTypeOK
<1>2. w.op \in {"create", "delete", "add"} /\ w.subject \in Subject
  BY DEF WellFormed, Write
<1>3. CASE w.subject = Own
  BY <1>1, <1>2, <1>3 DEF Perform
<1>4. CASE w.subject # Own
  BY <1>1, <1>2, <1>4 DEF Perform
<1> QED
  BY <1>3, <1>4

LEMMA PerformDelete ==
  ASSUME RecognizerInv, NEW w, WellFormed(w), Perform(w), w.op = "delete"
  PROVE  faces'[w.subject] = {}
BY DEF RecognizerInv, RecognizerTypeOK, WellFormed, Write, Perform

LEMMA OwnSubject == Own \in Subject /\ Own # None
BY FaceServiceAssumption, ApplicationsAssumption, RecognizerAssumption DEF Own

-----------------------------------------------------------------------------
(* The sessions of the host application.                                   *)

LEMMA WriteOfFormed ==
  ASSUME SessionInv, NEW r \in Session, session[r] # None, session[r].op \in {"register", "delete"}
  PROVE  WellFormed(WriteOf(r))
<1>1. session[r] \in Handling /\ (session[r].picture = None <=> session[r].op = "delete")
  BY DEF SessionInv, ServiceTypeOK
<1>2. session[r].user \in User /\ Bound[session[r].user] \in Subject
  BY <1>1, FaceServiceAssumption DEF Handling
<1>3. session[r].op = "register" => session[r].picture.of \in Person
  BY <1>1 DEF Handling, Picture
<1> QED
  BY <1>2, <1>3 DEF WriteOf, WellFormed, Write
\* What SessionInv says of one request.
Handled(h) ==
  /\ h.picture = None <=> h.op = "delete"
  /\ h.found # None => h.op = "login"
  /\ h.op = "login" /\ h.at # "detect" => h.picture.faces = 1
  /\ h.op = "login" /\ h.at = "verified" => h.found = Bound[h.user]

LEMMA SessionOne ==
  ASSUME SessionInv, NEW r \in Session, session[r] # None
  PROVE  session[r] \in Handling /\ Handled(session[r])
BY DEF SessionInv, ServiceTypeOK, Logins, Handled

\* A step that changes one request.
LEMMA SessionSet ==
  ASSUME SessionInv, NEW r \in Session, NEW h \in Handling \cup {None},
         h # None => Handled(h),
         session' = [session EXCEPT ![r] = h], UNCHANGED account
  PROVE  SessionInv'
<1>1. session \in [Session -> Handling \cup {None}]
  BY DEF SessionInv, ServiceTypeOK
<1>2. session' \in [Session -> Handling \cup {None}]
  BY <1>1
<1>3. \A q \in Session : session'[q] = IF q = r THEN h ELSE session[q]
  BY <1>1
<1>4. \A q \in Session : session'[q] # None => Handled(session'[q])
  BY <1>3, SessionOne
<1> QED
  BY <1>2, <1>4 DEF SessionInv, ServiceTypeOK, Logins, Handled

LEMMA SessionEnds ==
  ASSUME SessionInv, NEW r \in Session, End(r), UNCHANGED account
  PROVE  SessionInv'
BY SessionSet DEF End

LEMMA SessionAdvances ==
  ASSUME SessionInv, NEW r \in Session, session[r] # None, NEW stage \in Stage,
         Handled([session[r] EXCEPT !.at = stage]), Advance(r, stage), UNCHANGED account
  PROVE  SessionInv'
<1>1. session[r] \in Handling
  BY SessionOne
<1>2. [session[r] EXCEPT !.at = stage] \in Handling
  BY <1>1 DEF Handling
<1>3. session' = [session EXCEPT ![r] = [session[r] EXCEPT !.at = stage]]
  BY DEF Advance, SessionInv, ServiceTypeOK
<1> QED
  BY <1>2, <1>3, SessionSet

LEMMA SessionBegins ==
  ASSUME SessionInv, NEW r \in Session, NEW u \in User,
         NEW op \in {"register", "login", "delete"}, NEW picture \in Picture \cup {None},
         NEW stage \in Stage, Begin(r, op, u, picture, stage),
         picture = None <=> op = "delete", op = "login" => stage = "detect"
  PROVE  SessionInv'
<1> DEFINE h == [op |-> op, user |-> u, picture |-> picture, at |-> stage, found |-> None]
<1>1. h \in Handling
  BY DEF Handling
<1>2. Handled(h)
  BY DEF Handled
<1>3. session' = [session EXCEPT ![r] = h] /\ UNCHANGED account
  BY DEF Begin
<1> QED
  BY <1>1, <1>2, <1>3, SessionSet

LEMMA SessionStep ==
  ASSUME SessionInv, ServiceNext \/ \E r \in Session : Answer(r)
  PROVE  SessionInv'
<1>1. ASSUME NEW u \in Supervised, ChangeAccount(u)
      PROVE  SessionInv'
  BY <1>1, FaceServiceAssumption DEF ChangeAccount, SessionInv, ServiceTypeOK, Logins
<1>2. ASSUME NEW r \in Session, NEW u \in User, NEW picture \in Picture,
             registerFace(r, u, picture) \/ loginByFace(r, u, picture)
      PROVE  SessionInv'
  <2>1. picture # None /\ "detect" \in Stage
    BY HandlingAssumption DEF Stage
  <2> QED
    BY <1>2, <2>1, SessionBegins DEF registerFace, loginByFace
<1>3. ASSUME NEW r \in Session, NEW actor \in User, NEW u \in User, deleteFace(r, actor, u)
      PROVE  SessionInv'
  <2>1. "call" \in Stage
    BY DEF Stage
  <2> QED
    BY <1>3, <2>1, SessionBegins DEF deleteFace
<1>4. ASSUME NEW r \in Session, Detect(r)
      PROVE  SessionInv'
  <2>1. session[r] # None /\ session[r].op \in {"register", "login"} /\ UNCHANGED account
    BY <1>4 DEF Detect, Request
  <2>2. session[r] \in Handling /\ Handled(session[r])
    BY <2>1, SessionOne
  <2>3. CASE OneFace(session[r].picture)
    <3>1. Advance(r, "call") /\ "call" \in Stage
      BY <1>4, <2>3 DEF Detect, Stage
    <3>2. Handled([session[r] EXCEPT !.at = "call"])
      BY <2>2, <2>3 DEF Handled, Handling, OneFace
    <3> QED
      BY <2>1, <3>1, <3>2, SessionAdvances
  <2>4. CASE ~OneFace(session[r].picture)
    BY <1>4, <2>1, <2>4, SessionEnds DEF Detect
  <2> QED
    BY <2>3, <2>4
<1>5. ASSUME NEW r \in Session, Execute(r)
      PROVE  SessionInv'
  <2>1. session[r] # None /\ session[r].op \in {"register", "delete"} /\ UNCHANGED account
    BY <1>5 DEF Execute, Writing, Request
  <2>2. session[r] \in Handling /\ Handled(session[r])
    BY <2>1, SessionOne
  <2>3. Handled([session[r] EXCEPT !.at = "answered"])
    BY <2>1, <2>2 DEF Handled, Handling
  <2>4. Advance(r, "answered") /\ "answered" \in Stage
    BY <1>5 DEF Execute, Stage
  <2> QED
    BY <2>1, <2>3, <2>4, SessionAdvances
<1>6. ASSUME NEW r \in Session, Fail(r)
      PROVE  SessionInv'
  BY <1>6, SessionEnds DEF Fail
<1>7. ASSUME NEW r \in Session, Search(r)
      PROVE  SessionInv'
  <2>1. session[r] # None /\ session[r].op = "login" /\ session[r].at = "call" /\ UNCHANGED account
    BY <1>7 DEF Search, Request
  <2>2. session[r] \in Handling /\ Handled(session[r])
    BY <2>1, SessionOne
  <2>3. PICK s \in Subject \cup {None} :
          session' = [session EXCEPT ![r] = [@ EXCEPT !.at = "answered", !.found = s]]
    BY <1>7 DEF Search, Matches
  <2> DEFINE h == [session[r] EXCEPT !.at = "answered", !.found = s]
  <2>4. h \in Handling
    BY <2>2 DEF Handling, Stage
  <2>5. Handled(h)
    BY <2>1, <2>2 DEF Handled, Handling
  <2>6. session' = [session EXCEPT ![r] = h]
    BY <2>3 DEF SessionInv, ServiceTypeOK
  <2> QED
    BY <2>1, <2>4, <2>5, <2>6, SessionSet
<1>8. ASSUME NEW r \in Session, Verify(r)
      PROVE  SessionInv'
  <2>1. session[r] # None /\ session[r].op = "login" /\ session[r].at = "answered" /\ UNCHANGED account
    BY <1>8 DEF Verify, Request
  <2>2. session[r] \in Handling /\ Handled(session[r])
    BY <2>1, SessionOne
  <2>3. CASE Verified(r)
    <3>1. Advance(r, "verified") /\ "verified" \in Stage
      BY <1>8, <2>3 DEF Verify, Stage
    <3>2. session[r].found = Bound[session[r].user]
      BY <2>3 DEF Verified, requireOwner
    <3>3. Handled([session[r] EXCEPT !.at = "verified"])
      BY <2>1, <2>2, <3>2 DEF Handled, Handling
    <3> QED
      BY <2>1, <3>1, <3>3, SessionAdvances
  <2>4. CASE ~Verified(r)
    BY <1>8, <2>1, <2>4, SessionEnds DEF Verify
  <2> QED
    BY <2>3, <2>4
<1>9. ASSUME NEW r \in Session, Leave(r) \/ Answer(r)
      PROVE  SessionInv'
  BY <1>9, SessionEnds DEF Leave, Answer
<1> QED
  BY <1>1, <1>2, <1>3, <1>4, <1>5, <1>6, <1>7, <1>8, <1>9 DEF ServiceNext
-----------------------------------------------------------------------------
(* What reaches the service.                                               *)

\* A step of the applications leaves the service alone, has it execute one of
\* their writes, or gives a write up.
LEMMA ServiceReach ==
  ASSUME ServiceNext
  PROVE  UNCHANGED recognizerVars \/ \E r \in Session : Execute(r) \/ Fail(r)
BY DEF ServiceNext, ChangeAccount, registerFace, loginByFace, deleteFace, Begin, Detect, Search,
       Verify, Leave

LEMMA ViewReach ==
  ASSUME ViewNext
  PROVE  UNCHANGED recognizerVars \/ \E t \in Task : Carried(t) \/ Failed(t)
BY DEF ViewNext, Mounted, Listed, Show, ShowFails, Counted, handleCreate, handleDelete,
       submitAddFace, Send

LEMMA SessionWrite ==
  ASSUME SessionInv, NEW r \in Session, NEW stage, Writing(r, stage)
  PROVE  WellFormed(WriteOf(r))
BY WriteOfFormed DEF Writing, Request

LEMMA RecognizerPerforms ==
  ASSUME RecognizerInv, NEW w, WellFormed(w), Perform(w), late' \subseteq late
  PROVE  RecognizerInv'
BY PerformSound DEF RecognizerInv, RecognizerTypeOK

LEMMA RecognizerLater ==
  ASSUME RecognizerInv, NEW w, WellFormed(w), late' \subseteq late \cup {w},
         UNCHANGED <<subjects, faces>>
  PROVE  RecognizerInv'
BY DEF RecognizerInv, RecognizerTypeOK, FaceCount, WellFormed

LEMMA RecognizerSame ==
  ASSUME RecognizerInv, UNCHANGED <<subjects, faces>>, late' \subseteq late
  PROVE  RecognizerInv'
BY DEF RecognizerInv, RecognizerTypeOK, FaceCount

LEMMA RecognizerStep ==
  ASSUME RecognizerInv, SessionInv, ViewInv, Next
  PROVE  RecognizerInv'
<1>1. ASSUME NEW r \in Session, Execute(r)
      PROVE  RecognizerInv'
  BY <1>1, SessionWrite, RecognizerPerforms DEF Execute
<1>2. ASSUME NEW r \in Session, Fail(r)
      PROVE  RecognizerInv'
  <2>1. CASE Writing(r, "call")
    BY <1>2, <2>1, SessionWrite, RecognizerLater DEF Fail
  <2>2. CASE ~Writing(r, "call")
    BY <1>2, <2>2, RecognizerSame DEF Fail
  <2> QED
    BY <2>1, <2>2
<1>3. ASSUME NEW t \in Task, Carried(t)
      PROVE  RecognizerInv'
  <2>1. WellFormed(task[t].write)
    BY <1>3 DEF Carried, ViewInv
  <2> QED
    BY <1>3, <2>1, RecognizerPerforms DEF Carried
<1>4. ASSUME NEW t \in Task, Failed(t)
      PROVE  RecognizerInv'
  <2>1. WellFormed(task[t].write)
    BY <1>4 DEF Failed, ViewInv
  <2>2. late' \subseteq late \cup {task[t].write}
    BY <1>4 DEF Failed
  <2> QED
    BY <1>4, <2>1, <2>2, RecognizerLater DEF Failed
<1>5. ASSUME PerformLate
      PROVE  RecognizerInv'
  <2>1. PICK w \in late : late' = late \ {w} /\ (Perform(w) \/ UNCHANGED <<subjects, faces>>)
    BY <1>5 DEF PerformLate
  <2>2. WellFormed(w)
    BY DEF RecognizerInv
  <2> QED
    BY <2>1, <2>2, RecognizerPerforms, RecognizerSame
<1>6. ASSUME UNCHANGED recognizerVars
      PROVE  RecognizerInv'
  BY <1>6, RecognizerSame DEF recognizerVars
<1>7. ASSUME NEW r \in Session, Answer(r)
      PROVE  RecognizerInv'
  BY <1>6, <1>7 DEF Answer
<1>8. ASSUME NEW t \in Task, Succeeded(t)
      PROVE  RecognizerInv'
  BY <1>6, <1>8 DEF Succeeded
<1> QED
  BY <1>1, <1>2, <1>3, <1>4, <1>5, <1>6, <1>7, <1>8, ServiceReach, ViewReach DEF Next

-----------------------------------------------------------------------------
(* The page of the web console.                                            *)

LEMMA BlankRows == Blank.rows \in Rows /\ DOMAIN Blank.rows = {}
<1>1. [s \in {} |-> 0] \in [{} -> Count] /\ {} \in SUBSET Subject
  OBVIOUS
<1> QED
  BY <1>1 DEF Blank, Rows

LEMMA RowsDomain ==
  ASSUME NEW rows \in Rows
  PROVE  DOMAIN rows \subseteq Subject /\ \A s \in DOMAIN rows : rows[s] \in Count
BY DEF Rows

LEMMA RowsAdd ==
  ASSUME NEW rows \in Rows, NEW s \in Subject, NEW n \in Count
  PROVE  [q \in DOMAIN rows \cup {s} |-> IF q = s THEN n ELSE rows[q]] \in Rows
<1>1. PICK S \in SUBSET Subject : rows \in [S -> Count]
  BY DEF Rows
<1>2. DOMAIN rows = S /\ S \cup {s} \in SUBSET Subject
  BY <1>1
<1>3. [q \in DOMAIN rows \cup {s} |-> IF q = s THEN n ELSE rows[q]] \in [S \cup {s} -> Count]
  BY <1>1, <1>2
<1> QED
  BY <1>2, <1>3 DEF Rows

LEMMA CountsTyped ==
  ASSUME RecognizerInv, NEW s \in Subject
  PROVE  Counts(s) \subseteq Count
BY DEF RecognizerInv, Counts, Count

\* What ViewInv says of one refresh.
Fetched(h) ==
  /\ h \in [listed : BOOLEAN, rows : Rows, todo : SUBSET Subject, newest : BOOLEAN]
  /\ h.todo \cap DOMAIN h.rows = {}
  /\ ~h.listed => DOMAIN h.rows = {} /\ h.todo = {}

LEMMA FetchOne ==
  ASSUME ViewInv, NEW k \in Refresh, fetching[k] # None
  PROVE  Fetched(fetching[k])
BY DEF ViewInv, ViewTypeOK, Fetched

FetchInv ==
  /\ fetching \in [Refresh ->
       [listed : BOOLEAN, rows : Rows, todo : SUBSET Subject, newest : BOOLEAN] \cup {None}]
  /\ \A k \in Refresh : fetching[k] # None => Fetched(fetching[k])

TaskInv ==
  /\ task \in [Task -> [write : Write, done : BOOLEAN] \cup {None}]
  /\ \A t \in Task : task[t] # None => WellFormed(task[t].write)

TableInv ==
  /\ table \in [rows : Rows, newest : BOOLEAN]
  /\ DOMAIN table.rows \subseteq offered /\ offered \subseteq Subject
  /\ mounted \in BOOLEAN

LEMMA ViewParts == ViewInv <=> TableInv /\ TaskInv /\ FetchInv
<1>1. ASSUME ViewInv PROVE TableInv /\ TaskInv /\ FetchInv
  BY <1>1 DEF ViewInv, ViewTypeOK, TableInv, TaskInv, FetchInv, Fetched
<1>2. ASSUME TableInv, TaskInv, FetchInv PROVE ViewInv
  BY <1>2 DEF ViewInv, ViewTypeOK, TableInv, TaskInv, FetchInv, Fetched
<1> QED
  BY <1>1, <1>2

LEMMA ViewAfter ==
  ASSUME TableInv', TaskInv', FetchInv'
  PROVE  ViewInv'
BY DEF ViewInv, ViewTypeOK, TableInv, TaskInv, FetchInv, Fetched

LEMMA FetchSet ==
  ASSUME FetchInv, NEW k \in Refresh, NEW h, h = None \/ Fetched(h),
         fetching' = [fetching EXCEPT ![k] = h]
  PROVE  FetchInv'
<1>1. \A j \in Refresh : fetching'[j] = IF j = k THEN h ELSE fetching[j]
  BY DEF FetchInv
<1>2. fetching' \in [Refresh ->
        [listed : BOOLEAN, rows : Rows, todo : SUBSET Subject, newest : BOOLEAN] \cup {None}]
  BY DEF FetchInv, Fetched
<1>3. \A j \in Refresh : fetching'[j] # None => Fetched(fetching'[j])
  BY <1>1 DEF FetchInv
<1> QED
  BY <1>2, <1>3 DEF FetchInv, Fetched

LEMMA TaskSet ==
  ASSUME TaskInv, NEW t \in Task, NEW v \in [write : Write, done : BOOLEAN] \cup {None},
         v # None => WellFormed(v.write), task' = [task EXCEPT ![t] = v]
  PROVE  TaskInv'
BY DEF TaskInv, WellFormed

\* A refresh that starts knows nothing yet and makes all others older.
LEMMA FetchStarts ==
  ASSUME FetchInv, NEW k \in Refresh, fetchSubjects(k)
  PROVE  FetchInv'
<1> DEFINE Row == [listed : BOOLEAN, rows : Rows, todo : SUBSET Subject, newest : BOOLEAN]
<1> DEFINE h == [listed |-> FALSE, rows |-> Blank.rows, todo |-> {}, newest |-> TRUE]
<1> DEFINE older(j) == IF fetching[j] = None THEN None ELSE [fetching[j] EXCEPT !.newest = FALSE]
<1>1. fetching' = [j \in Refresh |-> IF j = k THEN h ELSE older(j)]
  BY DEF fetchSubjects
<1>2. h \in Row /\ Fetched(h)
  BY BlankRows DEF Fetched
<1>3. ASSUME NEW j \in Refresh, fetching[j] # None
      PROVE  older(j) \in Row /\ Fetched(older(j))
  <2>1. fetching[j] \in Row /\ Fetched(fetching[j])
    BY <1>3 DEF FetchInv, Fetched
  <2> QED
    BY <1>3, <2>1 DEF Fetched
<1>4. \A j \in Refresh : fetching'[j] \in Row \cup {None} /\ (fetching'[j] # None => Fetched(fetching'[j]))
  <2> HIDE DEF h, Row
  <2> QED
    BY <1>1, <1>2, <1>3
<1>5. fetching' \in [Refresh -> Row \cup {None}]
  BY <1>1, <1>4
<1> QED
  BY <1>4, <1>5 DEF FetchInv, Fetched

LEMMA TaskSent ==
  ASSUME ViewInv, NEW t \in Task, NEW op \in {"create", "delete", "add"}, NEW s \in Subject,
         NEW p \in Person \cup {None}, op = "add" => p \in Person, Send(t, op, s, p)
  PROVE  ViewInv'
<1> DEFINE v == [write |-> [op |-> op, subject |-> s, person |-> p], done |-> FALSE]
<1>1. v \in [write : Write, done : BOOLEAN] /\ WellFormed(v.write)
  BY DEF Write, WellFormed
<1>2. task' = [task EXCEPT ![t] = v] /\ UNCHANGED <<table, offered, fetching, mounted>>
  BY DEF Send
<1>3. TaskInv'
  <2> HIDE DEF v
  <2> QED
    BY <1>1, <1>2, TaskSet, ViewParts
<1> QED
  BY <1>2, <1>3, ViewParts, ViewAfter DEF TableInv, FetchInv, Fetched

LEMMA ViewStep ==
  ASSUME RecognizerInv, ViewInv, ViewNext \/ \E t \in Task : Succeeded(t)
  PROVE  ViewInv'
<1> USE ViewParts, ViewAfter
<1>1. ASSUME Mounted
      PROVE  ViewInv'
  <2>1. PICK k \in Idle : fetchSubjects(k)
    BY <1>1 DEF Mounted
  <2>2. FetchInv'
    BY <2>1, FetchStarts DEF Idle
  <2>3. TaskInv' /\ TableInv'
    BY <1>1, <2>1 DEF Mounted, fetchSubjects, TaskInv, TableInv
  <2> QED
    BY <2>2, <2>3
<1>2. ASSUME NEW k \in Refresh, Listed(k)
      PROVE  ViewInv'
  <2> DEFINE h == [fetching[k] EXCEPT !.listed = TRUE, !.todo = subjects]
  <2>1. Fetched(fetching[k]) /\ ~fetching[k].listed
    BY <1>2, FetchOne DEF Listed
  <2>2. Fetched(h)
    BY <2>1 DEF Fetched, RecognizerInv, RecognizerTypeOK
  <2>3. fetching' = [fetching EXCEPT ![k] = h]
    BY <1>2 DEF Listed, FetchInv
  <2>4. FetchInv'
    BY <2>2, <2>3, FetchSet
  <2> QED
    BY <1>2, <2>4 DEF Listed, TaskInv, TableInv
<1>3. ASSUME NEW k \in Refresh, Show(k)
      PROVE  ViewInv'
  <2>1. Fetched(fetching[k])
    BY <1>3, FetchOne DEF Show
  <2>2. FetchInv'
    BY <1>3, FetchSet DEF Show
  <2>3. TableInv'
    BY <1>3, <2>1, RowsDomain DEF Show, TableInv, Fetched
  <2> QED
    BY <1>3, <2>2, <2>3 DEF Show, TaskInv
<1>4. ASSUME NEW k \in Refresh, ShowFails(k)
      PROVE  ViewInv'
  BY <1>4, FetchSet DEF ShowFails, TaskInv, TableInv
<1>5. ASSUME NEW k \in Refresh, NEW s \in Subject, Counted(k, s)
      PROVE  ViewInv'
  <2>1. PICK n \in Counts(s) : fetching' = [fetching EXCEPT ![k] = With(@, s, n)]
    BY <1>5 DEF Counted
  <2> DEFINE h == With(fetching[k], s, n)
  <2>2. Fetched(fetching[k]) /\ s \in fetching[k].todo
    BY <1>5, FetchOne DEF Counted
  <2>3. n \in Count
    BY CountsTyped
  <2>4. Fetched(h)
    BY <2>2, <2>3, RowsAdd DEF Fetched, With
  <2>5. fetching' = [fetching EXCEPT ![k] = h]
    BY <2>1 DEF FetchInv
  <2>6. FetchInv'
    <3> HIDE DEF h
    <3> QED
      BY <2>4, <2>5, FetchSet
  <2> QED
    BY <1>5, <2>6 DEF Counted, TaskInv, TableInv
<1>6. ASSUME NEW s \in Subject,
             \/ handleCreate(s)
             \/ \E t \in Removal : handleDelete(t, s)
             \/ \E p \in Person : submitAddFace(s, p)
      PROVE  ViewInv'
  BY <1>6, TaskSent DEF handleCreate, handleDelete, submitAddFace, Task
<1>7. ASSUME NEW t \in Task, Carried(t)
      PROVE  ViewInv'
  <2> DEFINE v == [task[t] EXCEPT !.done = TRUE]
  <2>1. task[t] # None /\ task[t] \in [write : Write, done : BOOLEAN] /\ WellFormed(task[t].write)
    BY <1>7 DEF Carried, TaskInv
  <2>2. v \in [write : Write, done : BOOLEAN] /\ v.write = task[t].write
    BY <2>1
  <2>3. task' = [task EXCEPT ![t] = v]
    BY <1>7 DEF Carried, TaskInv
  <2>4. TaskInv'
    <3> HIDE DEF v
    <3> QED
      BY <2>1, <2>2, <2>3, TaskSet
  <2> QED
    BY <1>7, <2>4 DEF Carried, TableInv, FetchInv, Fetched
<1>8. ASSUME NEW t \in Task, Failed(t)
      PROVE  ViewInv'
  <2>1. TaskInv'
    BY <1>8, TaskSet DEF Failed
  <2> QED
    BY <1>8, <2>1 DEF Failed, TableInv, FetchInv, Fetched
<1>9. ASSUME NEW t \in Task, Succeeded(t)
      PROVE  ViewInv'
  <2>1. PICK k \in Idle : fetchSubjects(k)
    BY <1>9 DEF Succeeded
  <2>2. FetchInv'
    BY <2>1, FetchStarts DEF Idle
  <2>3. TaskInv'
    BY <1>9, TaskSet DEF Succeeded
  <2>4. TableInv'
    BY <1>9, <2>1 DEF Succeeded, fetchSubjects, TableInv
  <2> QED
    BY <2>2, <2>3, <2>4
<1> QED
  BY <1>1, <1>2, <1>3, <1>4, <1>5, <1>6, <1>7, <1>8, <1>9 DEF ViewNext
-----------------------------------------------------------------------------
(* What a step may do to the promises.                                     *)

\* An emptied subject stays empty.
StaysEmpty == Emptied => faces'[Own] = {}

\* A deletion that has been executed has emptied the subject, now or before.
DeletionsReal ==
  \A c \in Deletions' : Performed(c)' =>
    c \in Deletions /\ (Performed(c) \/ faces'[Own] = {})

\* A verification begins by looking at the picture, and finds what is enrolled.
Finds(r) ==
  \/ session'[r].at = "detect"
  \/ /\ r \in Verifying
     /\ \/ session'[r] = session[r]
        \/ session'[r].at = "call"
        \/ session'[r].at = "answered" /\ (faces[Own] = {} => session'[r].found # Own)
        \/ /\ session'[r].at = "verified" /\ active(Watched)'
           /\ session[r].at = "answered" /\ session[r].found = Own

FindsSound == \A r \in Verifying' : Finds(r)

\* The requests that a step leaves alone.
LEMMA SameDeletion ==
  ASSUME NEW c, c \in Deletions',
         c \in Session => session'[c] = session[c],
         c \notin Session => task'[c] = task[c]
  PROVE  c \in Deletions /\ (Performed(c)' <=> Performed(c))
<1>1. CASE c \in Session
  <2>1. c \in SessionWrites' \/ (c \in Task /\ FALSE)
    BY <1>1, ApplicationsAssumption DEF Deletions, Unsettled
  <2>2. c \in SessionWrites
    BY <1>1, <2>1 DEF SessionWrites, Writing, Request
  <2> QED
    BY <1>1, <2>2 DEF Deletions, Unsettled, WriteAt, WriteOf, Performed
<1>2. CASE c \notin Session
  BY <1>2 DEF Deletions, Unsettled, WriteAt, Performed, SessionWrites
<1> QED
  BY <1>1, <1>2

LEMMA SameVerifying ==
  ASSUME NEW r \in Verifying', session'[r] = session[r]
  PROVE  Finds(r)
BY DEF Verifying, Finds

\* What becomes of the request a step handles.
Moved(r) ==
  \/ session'[r] = None
  \/ session'[r].at = "detect"
  \/ /\ session'[r].at = "call"
     /\ session'[r].op = "login" =>
          session[r] # None /\ session[r].op = "login" /\ session'[r].user = session[r].user
  \/ Execute(r)
  \/ Search(r)
  \/ Verify(r) /\ Verified(r)

LEMMA ServiceMoves ==
  ASSUME SessionInv, ServiceNext \/ \E r \in Session : Answer(r)
  PROVE  \/ UNCHANGED session
         \/ \E r \in Session : Moved(r) /\ \A q \in Session \ {r} : session'[q] = session[q]
<1> DEFINE One(r) == Moved(r) /\ \A q \in Session \ {r} : session'[q] = session[q]
<1>1. session \in [Session -> Handling \cup {None}]
  BY DEF SessionInv, ServiceTypeOK
<1>2. ASSUME NEW r \in Session, End(r)
      PROVE  One(r)
  BY <1>1, <1>2 DEF End, Moved
<1>3. ASSUME NEW r \in Session, NEW u \in User, NEW picture,
             NEW op \in {"register", "login", "delete"}, NEW stage \in {"detect", "call"},
             Begin(r, op, u, picture, stage), op = "login" => stage = "detect"
      PROVE  One(r)
  <2> DEFINE h == [op |-> op, user |-> u, picture |-> picture, at |-> stage, found |-> None]
  <2>1. session' = [session EXCEPT ![r] = h]
    BY <1>3 DEF Begin
  <2>2. session'[r] = h /\ \A q \in Session \ {r} : session'[q] = session[q]
    BY <1>1, <2>1
  <2>3. h.at = stage /\ h.op = op
    OBVIOUS
  <2> HIDE DEF h
  <2> QED
    BY <1>3, <2>2, <2>3 DEF Moved
<1>4. ASSUME NEW r \in Session, NEW u \in User, NEW picture \in Picture,
             registerFace(r, u, picture) \/ loginByFace(r, u, picture)
      PROVE  One(r)
  <2>1. Begin(r, "register", u, picture, "detect") \/ Begin(r, "login", u, picture, "detect")
    BY <1>4 DEF registerFace, loginByFace
  <2>2. CASE Begin(r, "register", u, picture, "detect")
    BY <1>3, <2>2
  <2>3. CASE Begin(r, "login", u, picture, "detect")
    BY <1>3, <2>3
  <2> QED
    BY <2>1, <2>2, <2>3
<1>5. ASSUME NEW r \in Session, NEW actor \in User, NEW u \in User, deleteFace(r, actor, u)
      PROVE  One(r)
  BY <1>3, <1>5 DEF deleteFace
<1>6. ASSUME NEW r \in Session, NEW stage, Advance(r, stage), session[r] # None
      PROVE  /\ \A q \in Session \ {r} : session'[q] = session[q]
             /\ session'[r] = [session[r] EXCEPT !.at = stage]
             /\ session'[r].at = stage /\ session'[r].op = session[r].op
             /\ session'[r].user = session[r].user
  BY <1>1, <1>6 DEF Advance, Handling
<1>7. ASSUME NEW r \in Session, Detect(r)
      PROVE  One(r)
  <2>1. session[r] # None /\ (End(r) \/ Advance(r, "call"))
    BY <1>7 DEF Detect, Request
  <2> QED
    BY <1>2, <1>6, <2>1 DEF Moved
<1>8. ASSUME NEW r \in Session, Execute(r)
      PROVE  One(r)
  <2>1. session[r] # None /\ Advance(r, "answered")
    BY <1>8 DEF Execute, Writing, Request
  <2> QED
    BY <1>6, <1>8, <2>1 DEF Moved
<1>9. ASSUME NEW r \in Session, Search(r)
      PROVE  One(r)
  <2>1. PICK s : session' = [session EXCEPT ![r] = [@ EXCEPT !.at = "answered", !.found = s]]
    BY <1>9 DEF Search
  <2> QED
    BY <1>1, <1>9, <2>1 DEF Moved
<1>10. ASSUME NEW r \in Session, Verify(r)
       PROVE  One(r)
  <2>1. session[r] # None
    BY <1>10 DEF Verify, Request
  <2>2. CASE Verified(r)
    <3>1. Advance(r, "verified")
      BY <1>10, <2>2 DEF Verify
    <3> QED
      BY <1>6, <1>10, <2>1, <2>2, <3>1 DEF Moved
  <2>3. CASE ~Verified(r)
    BY <1>2, <1>10, <2>3 DEF Verify
  <2> QED
    BY <2>2, <2>3
<1>11. ASSUME NEW r \in Session, Fail(r) \/ Leave(r) \/ Answer(r)
       PROVE  One(r)
  BY <1>2, <1>11 DEF Fail, Leave, Answer
<1>12. ASSUME NEW u \in Supervised, ChangeAccount(u)
       PROVE  UNCHANGED session
  BY <1>12 DEF ChangeAccount
<1> HIDE DEF One
<1>13. UNCHANGED session \/ \E r \in Session : One(r)
  BY <1>4, <1>5, <1>7, <1>8, <1>9, <1>10, <1>11, <1>12 DEF ServiceNext
<1> QED
  BY <1>13 DEF One
\* The subject gets a face from a registration on its way only.
LEMMA EmptyStep ==
  ASSUME RecognizerInv, SessionInv, ViewInv, Next
  PROVE  StaysEmpty
<1> SUFFICES ASSUME Emptied PROVE faces'[Own] = {}
  BY DEF StaysEmpty
<1> USE OwnSubject
<1>1. faces[Own] = {} /\ ~Pending
  BY DEF Emptied
<1>2. ASSUME NEW r \in Session, Execute(r)
      PROVE  faces'[Own] = {}
  <2>1. Writing(r, "call") /\ Perform(WriteOf(r))
    BY <1>2 DEF Execute
  <2>2. r \in Unsettled /\ WriteAt(r) = WriteOf(r) /\ ~Performed(r)
    BY <2>1 DEF Unsettled, SessionWrites, WriteAt, Performed, Writing, Request
  <2>3. ~ (WriteOf(r).op = "add" /\ WriteOf(r).subject = Own)
    BY <1>1, <2>2 DEF Pending
  <2>4. WellFormed(WriteOf(r))
    BY <2>1, SessionWrite
  <2> QED
    BY <1>1, <2>1, <2>3, <2>4, PerformOwn
<1>3. ASSUME NEW t \in Task, Carried(t)
      PROVE  faces'[Own] = {}
  <2>1. task[t] # None /\ ~task[t].done /\ Perform(task[t].write) /\ t \notin Session
    BY <1>3, ApplicationsAssumption DEF Carried
  <2>2. t \in Unsettled /\ WriteAt(t) = task[t].write /\ ~Performed(t)
    BY <2>1 DEF Unsettled, WriteAt, Performed
  <2>3. ~ (task[t].write.op = "add" /\ task[t].write.subject = Own)
    BY <1>1, <2>2 DEF Pending
  <2>4. WellFormed(task[t].write)
    BY <2>1 DEF ViewInv
  <2> QED
    BY <1>1, <2>1, <2>3, <2>4, PerformOwn
<1>4. ASSUME PerformLate
      PROVE  faces'[Own] = {}
  <2>1. PICK w \in late : Perform(w) \/ UNCHANGED <<subjects, faces>>
    BY <1>4 DEF PerformLate
  <2>2. WellFormed(w) /\ ~ (w.op = "add" /\ w.subject = Own)
    BY <1>1 DEF Pending, RecognizerInv
  <2> QED
    BY <1>1, <2>1, <2>2, PerformOwn
<1>5. ASSUME UNCHANGED faces
      PROVE  faces'[Own] = {}
  BY <1>1, <1>5
<1>6. ASSUME NEW c \in Session \cup Task, Fail(c) \/ Answer(c) \/ Failed(c) \/ Succeeded(c)
      PROVE  UNCHANGED faces
  BY <1>6 DEF Fail, Answer, Failed, Succeeded, recognizerVars
<1>7. UNCHANGED recognizerVars => UNCHANGED faces
  BY DEF recognizerVars
<1> QED
  BY <1>2, <1>3, <1>4, <1>5, <1>6, <1>7, ServiceReach, ViewReach DEF Next

\* No step of the page but Carried says that a write has been executed.
TaskMoves(t) ==
  task'[t] # None => task'[t] = task[t] \/ ~task'[t].done \/ Carried(t)

LEMMA ViewMoves ==
  ASSUME ViewInv, ViewNext \/ \E t \in Task : Succeeded(t)
  PROVE  \A t \in Task : TaskMoves(t)
<1>1. task \in [Task -> [write : Write, done : BOOLEAN] \cup {None}]
  BY DEF ViewInv
<1>2. UNCHANGED task => \A t \in Task : TaskMoves(t)
  BY DEF TaskMoves
<1>3. ASSUME NEW t \in Task, task' = [task EXCEPT ![t] = None]
      PROVE  \A q \in Task : TaskMoves(q)
  BY <1>1, <1>3 DEF TaskMoves
<1>4. ASSUME NEW t \in Task, NEW op, NEW s, NEW p, Send(t, op, s, p)
      PROVE  \A q \in Task : TaskMoves(q)
  <2> DEFINE v == [write |-> [op |-> op, subject |-> s, person |-> p], done |-> FALSE]
  <2>1. task' = [task EXCEPT ![t] = v] /\ ~v.done
    BY <1>4 DEF Send
  <2> HIDE DEF v
  <2> QED
    BY <1>1, <2>1 DEF TaskMoves
<1>5. ASSUME NEW t \in Task, Carried(t)
      PROVE  \A q \in Task : TaskMoves(q)
  <2>1. task' = [task EXCEPT ![t].done = TRUE]
    BY <1>5 DEF Carried
  <2>2. \A q \in Task \ {t} : task'[q] = task[q]
    BY <1>1, <2>1
  <2> QED
    BY <1>5, <2>2 DEF TaskMoves
<1>6. ASSUME NEW t \in Task, Failed(t) \/ Succeeded(t)
      PROVE  \A q \in Task : TaskMoves(q)
  BY <1>3, <1>6 DEF Failed, Succeeded
<1>7. ASSUME NEW s \in Subject,
             \/ handleCreate(s)
             \/ \E t \in Removal : handleDelete(t, s)
             \/ \E p \in Person : submitAddFace(s, p)
      PROVE  \A q \in Task : TaskMoves(q)
  BY <1>4, <1>7 DEF handleCreate, handleDelete, submitAddFace, Task
<1>8. ASSUME NEW k \in Refresh,
             Mounted \/ Listed(k) \/ Show(k) \/ ShowFails(k) \/ \E s \in Subject : Counted(k, s)
      PROVE  UNCHANGED task
  BY <1>8 DEF Mounted, Listed, Show, ShowFails, Counted
<1>9. Mounted => UNCHANGED task
  BY DEF Mounted
<1> QED
  BY <1>2, <1>5, <1>6, <1>7, <1>8, <1>9 DEF ViewNext

LEMMA DeletionsStep ==
  ASSUME RecognizerInv, SessionInv, ViewInv, Next
  PROVE  DeletionsReal
<1> SUFFICES ASSUME NEW c \in Deletions', Performed(c)'
             PROVE  c \in Deletions /\ (Performed(c) \/ faces'[Own] = {})
  BY DEF DeletionsReal
<1>1. CASE /\ c \in Session => session'[c] = session[c]
           /\ c \notin Session => task'[c] = task[c]
  BY <1>1, SameDeletion
<1>2. CASE c \in Session /\ session'[c] # session[c]
  <2>1. session'[c] # None /\ session'[c].op = "delete" /\ session'[c].at = "answered"
    BY <1>2, ApplicationsAssumption
    DEF Deletions, Unsettled, SessionWrites, Writing, Request, WriteAt, WriteOf, Performed
  <2>2. Moved(c)
    <3>1. UNCHANGED session => FALSE
      BY <1>2
    <3>2. ServiceNext \/ \E r \in Session : Answer(r)
      BY <3>1 DEF Next, serviceVars
    <3> QED
      BY <1>2, <3>1, <3>2, ServiceMoves
  <2>3. Execute(c)
    <3>1. Search(c) => session[c].op = "login" /\ session[c] # None
      BY DEF Search, Request
    <3>2. Verify(c) /\ Verified(c) => Advance(c, "verified") /\ session[c] # None
      BY DEF Verify, Request
    <3>3. Advance(c, "verified") => session'[c].at # "answered"
      BY <1>2 DEF Advance, SessionInv, ServiceTypeOK
    <3>4. Search(c) => session'[c].op = "login"
      BY <1>2 DEF Search, Request, SessionInv, ServiceTypeOK
    <3> QED
      BY <2>1, <2>2, <3>2, <3>3, <3>4 DEF Moved
  <2>4. Writing(c, "call") /\ Perform(WriteOf(c)) /\ WellFormed(WriteOf(c)) /\ session[c] # None
    BY <1>2, <2>3, SessionWrite DEF Execute, Writing, Request
  <2>5. session'[c].op = session[c].op /\ session'[c].user = session[c].user
    BY <1>2, <2>3 DEF Execute, Advance, SessionInv, ServiceTypeOK
  <2>6. WriteOf(c).op = "delete" /\ WriteOf(c).subject = Own
    BY <1>2, <2>1, <2>5 DEF Deletions, WriteAt, WriteOf
  <2>7. c \in Deletions
    BY <1>2, <2>4, <2>6 DEF Deletions, Unsettled, SessionWrites, WriteAt
  <2> QED
    BY <2>4, <2>6, <2>7, PerformDelete
<1>3. CASE c \notin Session /\ task'[c] # task[c]
  <2>1. c \in Task /\ task'[c] # None /\ task'[c].done /\ task'[c].write.op = "delete"
        /\ task'[c].write.subject = Own
    BY <1>3 DEF Deletions, Unsettled, SessionWrites, WriteAt, Performed
  <2>2. ViewNext \/ \E t \in Task : Succeeded(t)
    BY <1>3 DEF Next, viewVars
  <2>3. Carried(c)
    BY <1>3, <2>1, <2>2, ViewMoves DEF TaskMoves
  <2>4. task[c] # None /\ Perform(task[c].write) /\ WellFormed(task[c].write)
    BY <2>1, <2>3 DEF Carried, ViewInv
  <2>5. task'[c].write = task[c].write
    <3>1. task[c] \in [write : Write, done : BOOLEAN]
      BY <2>1, <2>4 DEF ViewInv
    <3> QED
      BY <2>1, <2>3, <3>1 DEF Carried, ViewInv
  <2>6. c \in Deletions
    BY <1>3, <2>1, <2>4, <2>5 DEF Deletions, Unsettled, WriteAt
  <2> QED
    BY <2>1, <2>4, <2>5, <2>6, PerformDelete
<1> QED
  BY <1>1, <1>2, <1>3
LEMMA FindsStep ==
  ASSUME SessionInv, Next
  PROVE  FindsSound
<1> SUFFICES ASSUME NEW r \in Verifying', session'[r] # session[r]
             PROVE  Finds(r)
  BY SameVerifying DEF FindsSound
<1> USE OwnSubject
<1>1. /\ r \in Session /\ session'[r] # None /\ session'[r].op = "login"
      /\ session'[r].user = Watched
  BY DEF Verifying
<1>2. Moved(r)
  <2>1. ~UNCHANGED session
    OBVIOUS
  <2>2. ServiceNext \/ \E q \in Session : Answer(q)
    BY <2>1 DEF Next, serviceVars
  <2> QED
    BY <1>1, <2>1, <2>2, ServiceMoves
<1>3. session \in [Session -> Handling \cup {None}]
  BY DEF SessionInv, ServiceTypeOK
<1>4. CASE session'[r].at = "detect"
  BY <1>4 DEF Finds
<1>5. CASE session'[r].at = "call" /\ session[r] # None /\ session[r].op = "login"
           /\ session'[r].user = session[r].user
  BY <1>1, <1>5 DEF Finds, Verifying
<1>6. CASE Execute(r)
  <2>1. session[r].op # "login" /\ Advance(r, "answered") /\ session[r] # None
    BY <1>6 DEF Execute, Writing, Request
  <2>2. session'[r].op = session[r].op
    BY <1>1, <1>3, <2>1 DEF Advance
  <2> QED
    BY <1>1, <2>1, <2>2
<1>7. CASE Search(r)
  <2>1. session[r] # None /\ session[r].op = "login"
    BY <1>7 DEF Search, Request
  <2> DEFINE matches == Matches(session[r].picture.of)
  <2>2. PICK s \in IF matches = {} THEN {None} ELSE matches :
          session' = [session EXCEPT ![r] = [@ EXCEPT !.at = "answered", !.found = s]]
    BY <1>7 DEF Search
  <2>3. session'[r].at = "answered" /\ session'[r].found = s /\ session'[r].user = session[r].user
    BY <1>1, <1>3, <2>1, <2>2 DEF Handling
  <2>4. faces[Own] = {} => Own \notin matches
    BY DEF Matches
  <2>5. faces[Own] = {} => s # Own
    BY <2>2, <2>4
  <2>6. r \in Verifying
    BY <1>1, <2>1, <2>3 DEF Verifying
  <2> QED
    BY <2>3, <2>5, <2>6 DEF Finds
<1>8. CASE Verify(r) /\ Verified(r)
  <2>1. /\ session[r] # None /\ session[r].op = "login" /\ session[r].at = "answered"
        /\ Advance(r, "verified") /\ UNCHANGED account
    BY <1>8 DEF Verify, Request
  <2>2. session'[r].at = "verified" /\ session'[r].user = session[r].user
    BY <1>1, <1>3, <2>1 DEF Advance, Handling
  <2>3. session[r].found = Own /\ active(Watched)
    BY <1>1, <1>8, <2>2 DEF Verified, requireOwner, Own
  <2>4. active(Watched)'
    BY <2>1, <2>3 DEF active
  <2>5. r \in Verifying
    BY <1>1, <2>1, <2>2 DEF Verifying
  <2> QED
    BY <2>1, <2>2, <2>3, <2>4, <2>5 DEF Finds
<1> QED
  BY <1>1, <1>2, <1>4, <1>5, <1>6, <1>7, <1>8 DEF Moved

\* A write that is confirmed has been executed.
LEMMA AnswerTold ==
  ASSUME NEW r \in Session, Answer(r)
  PROVE  Performed(r) /\ UNCHANGED faces
BY DEF Answer, Writing, Request, Performed, recognizerVars

LEMMA SuccessTold ==
  ASSUME NEW t \in Task, Succeeded(t)
  PROVE  Performed(t) /\ UNCHANGED faces
BY ApplicationsAssumption DEF Succeeded, Performed, recognizerVars

\* What is promised stays true.
LEMMA PromisesKept ==
  ASSUME HistoryInv, NEW told \in SUBSET (Session \cup Task), Remember(told),
         \A c \in told : Performed(c) /\ UNCHANGED faces,
         StaysEmpty, DeletionsReal, FindsSound
  PROVE  DeletionsTold' /\ BarredFail' /\ IdleFail'
<1>1. gone' => Emptied'
  <2> SUFFICES ASSUME gone' PROVE Emptied'
    OBVIOUS
  <2>1. ~Pending' /\ (gone \/ told \cap quiet # {})
    BY DEF Remember
  <2>2. CASE gone
    BY <2>1, <2>2 DEF HistoryInv, DeletionsTold, StaysEmpty, Emptied
  <2>3. CASE told \cap quiet # {}
    <3>1. PICK c \in told : c \in quiet
      BY <2>3
    <3>2. Emptied
      BY <3>1 DEF HistoryInv, DeletionsTold, Emptied
    <3> QED
      BY <2>1, <3>2 DEF StaysEmpty, Emptied
  <2> QED
    BY <2>1, <2>2, <2>3
<1>2. quiet' \subseteq Deletions' /\ \A c \in quiet' : ~Pending'
  BY DEF Remember
<1>3. ASSUME NEW c \in quiet', Performed(c)'
      PROVE  faces'[Own] = {}
  <2>1. c \in Deletions /\ (Performed(c) \/ faces'[Own] = {})
    BY <1>2, <1>3 DEF DeletionsReal
  <2>2. c \in quiet
    BY <2>1 DEF Remember
  <2> QED
    BY <2>1, <2>2 DEF HistoryInv, DeletionsTold, StaysEmpty, Emptied
<1>4. DeletionsTold'
  <2>1. Own' = Own
    BY DEF Own
  <2> QED
    BY <1>1, <1>2, <1>3, <2>1 DEF DeletionsTold
<1>5. BarredFail'
  <2> SUFFICES ASSUME NEW r \in barred'
               PROVE  /\ r \in Verifying' /\ Emptied'
                      /\ session'[r].at # "verified"
                      /\ session'[r].at = "answered" => session'[r].found # Own
    BY DEF BarredFail, Own
  <2>1. r \in Verifying' /\ ~Pending' /\ IF r \in Verifying THEN r \in barred ELSE gone
    BY DEF Remember
  <2>2. Emptied
    BY <2>1 DEF HistoryInv, DeletionsTold, BarredFail
  <2>3. Emptied'
    BY <2>1, <2>2 DEF StaysEmpty, Emptied, Own
  <2>4. Finds(r)
    BY <2>1 DEF FindsSound
  <2>5. faces[Own] = {}
    BY <2>2 DEF Emptied
  <2>6. r \in Verifying => /\ session[r].at # "verified"
                           /\ session[r].at = "answered" => session[r].found # Own
    BY <2>1 DEF HistoryInv, BarredFail
  <2> QED
    BY <2>1, <2>3, <2>4, <2>5, <2>6 DEF Finds
<1>6. IdleFail'
  <2>1. idle' \subseteq Verifying'
    BY DEF Remember
  <2> SUFFICES ASSUME NEW r \in idle' PROVE session'[r].at # "verified"
    BY <2>1 DEF IdleFail
  <2>2. r \in Verifying' /\ ~active(Watched)' /\ (r \in Verifying => r \in idle)
    BY DEF Remember
  <2>3. Finds(r)
    BY <2>2 DEF FindsSound
  <2>4. r \in Verifying => session[r].at # "verified"
    BY <2>2 DEF HistoryInv, IdleFail
  <2> QED
    BY <2>2, <2>3, <2>4 DEF Finds
<1> QED
  BY <1>4, <1>5, <1>6
-----------------------------------------------------------------------------
(* What the lists of the console say.                                      *)

LEMMA RememberedLater ==
  ASSUME NEW times, NEW more, times \subseteq more, NEW rows, NEW todo,
         Remembered(times, rows, todo)
  PROVE  Remembered(more, rows, todo)
BY DEF Remembered

LEMMA OwnConstant == Own' = Own
BY DEF Own

\* A refresh that starts has nothing to say, and no other is the newest.
LEMMA StartSays ==
  ASSUME FetchInv, NEW k \in Refresh, fetchSubjects(k)
  PROVE  FetchSound' /\ TableSound'
<1>1. ~table'.newest
  BY DEF fetchSubjects
<1>2. \A j \in Refresh : fetching'[j] # None => ~fetching'[j].newest \/ ~fetching'[j].listed
  BY DEF fetchSubjects, FetchInv
<1> QED
  BY <1>1, <1>2 DEF FetchSound, TableSound

LEMMA FetchTells ==
  ASSUME FetchInv, FetchSound, known \subseteq known', NEW k \in Refresh, NEW h,
         fetching' = [fetching EXCEPT ![k] = h],
         h # None /\ h.listed /\ h.newest => Remembered(known, h.rows, h.todo)
  PROVE  FetchSound'
<1> SUFFICES ASSUME NEW j \in Refresh, fetching'[j] # None, fetching'[j].listed, fetching'[j].newest
             PROVE  Remembered(known', fetching'[j].rows, fetching'[j].todo)
  BY OwnConstant DEF FetchSound, Remembered
<1>1. fetching'[j] = IF j = k THEN h ELSE fetching[j]
  BY DEF FetchInv
<1>2. Remembered(known, fetching'[j].rows, fetching'[j].todo)
  BY <1>1 DEF FetchSound
<1> QED
  BY <1>2, RememberedLater

LEMMA TableSays ==
  ASSUME TableSound, known \subseteq known', UNCHANGED table
  PROVE  TableSound'
<1>1. table.newest => Remembered(known', table.rows, {})
  BY RememberedLater DEF TableSound
<1> QED
  BY <1>1, OwnConstant DEF TableSound, Remembered

LEMMA ListsKept ==
  ASSUME FetchSound, TableSound, known \subseteq known', UNCHANGED <<table, fetching>>
  PROVE  FetchSound' /\ TableSound'
<1>1. TableSound'
  BY TableSays
<1>2. ASSUME NEW j \in Refresh, fetching'[j] # None, fetching'[j].listed, fetching'[j].newest
      PROVE  Remembered(known', fetching'[j].rows, fetching'[j].todo)
  BY <1>2, RememberedLater DEF FetchSound
<1> QED
  BY <1>1, <1>2, OwnConstant DEF FetchSound, Remembered

LEMMA ViewTells ==
  ASSUME RecognizerInv, ViewInv, HistoryInv, ViewNext, known \subseteq known'
  PROVE  FetchSound' /\ TableSound'
<1> USE ViewParts
<1>0. FetchSound /\ TableSound /\ StateOf \in known
  BY DEF HistoryInv
<1>1. ASSUME Mounted
      PROVE  FetchSound' /\ TableSound'
  BY <1>1, StartSays DEF Mounted, Idle
<1>2. ASSUME NEW k \in Refresh, Listed(k)
      PROVE  FetchSound' /\ TableSound'
  <2> DEFINE h == [fetching[k] EXCEPT !.listed = TRUE, !.todo = subjects]
  <2>1. Fetched(fetching[k]) /\ ~fetching[k].listed
    BY <1>2, FetchOne DEF Listed
  <2>2. h.rows = fetching[k].rows /\ h.todo = subjects /\ DOMAIN h.rows = {}
    BY <2>1 DEF Fetched
  <2>3. fetching' = [fetching EXCEPT ![k] = h] /\ UNCHANGED table
    BY <1>2 DEF Listed
  <2> HIDE DEF h
  <2>4. Remembered(known, h.rows, h.todo)
    BY <1>0, <2>2 DEF Remembered, StateOf
  <2> QED
    BY <1>0, <2>3, <2>4, FetchTells, TableSays
<1>3. ASSUME NEW k \in Refresh, Show(k)
      PROVE  FetchSound' /\ TableSound'
  <2>1. fetching[k] # None /\ fetching[k].listed /\ fetching[k].todo = {}
    BY <1>3 DEF Show
  <2>2. table'.rows = fetching[k].rows /\ table'.newest = fetching[k].newest
    BY <1>3 DEF Show
  <2>3. TableSound'
    <3> SUFFICES ASSUME table'.newest PROVE Remembered(known', table'.rows, {})
      BY OwnConstant DEF TableSound, Remembered
    <3>1. Remembered(known, fetching[k].rows, {})
      BY <1>0, <2>1, <2>2 DEF FetchSound
    <3> QED
      BY <2>2, <3>1, RememberedLater
  <2>4. FetchSound'
    BY <1>0, <1>3, FetchTells DEF Show
  <2> QED
    BY <2>3, <2>4
<1>4. ASSUME NEW k \in Refresh, ShowFails(k)
      PROVE  FetchSound' /\ TableSound'
  BY <1>0, <1>4, FetchTells, TableSays DEF ShowFails
<1>5. ASSUME NEW k \in Refresh, NEW s \in Subject, Counted(k, s)
      PROVE  FetchSound' /\ TableSound'
  <2>1. PICK n \in Counts(s) : fetching' = [fetching EXCEPT ![k] = With(@, s, n)]
    BY <1>5 DEF Counted
  <2> DEFINE g == fetching[k]
  <2> DEFINE h == With(g, s, n)
  <2>2. Fetched(g) /\ g # None /\ s \in g.todo /\ UNCHANGED table
    BY <1>5, FetchOne DEF Counted
  <2>3. /\ h.todo = g.todo \ {s} /\ h.listed = g.listed /\ h.newest = g.newest
        /\ h.rows = [q \in DOMAIN g.rows \cup {s} |-> IF q = s THEN n ELSE g.rows[q]]
    BY <2>2 DEF Fetched, With
  <2>4. DOMAIN h.rows = DOMAIN g.rows \cup {s}
        /\ \A q \in DOMAIN h.rows : h.rows[q] = IF q = s THEN n ELSE g.rows[q]
    BY <2>3
  <2>5. fetching' = [fetching EXCEPT ![k] = h]
    BY <2>1
  <2> HIDE DEF h
  <2>6. ASSUME h.listed, h.newest
        PROVE  Remembered(known, h.rows, h.todo)
    <3>1. Remembered(known, g.rows, g.todo)
      BY <1>0, <2>2, <2>3, <2>6 DEF FetchSound
    <3>2. h.todo \cup DOMAIN h.rows = g.todo \cup DOMAIN g.rows
      BY <2>2, <2>3, <2>4
    <3>3. Own \in DOMAIN h.rows => \E v \in known : h.rows[Own] \in {v.count, None}
      <4>1. CASE Own = s
        <5>1. Own \in DOMAIN h.rows => h.rows[Own] \in {FaceCount(Own), None}
          BY <2>4, <4>1 DEF Counts
        <5> QED
          BY <1>0, <5>1 DEF StateOf
      <4>2. CASE Own # s
        BY <2>4, <3>1, <4>2 DEF Remembered
      <4> QED
        BY <4>1, <4>2
    <3> QED
      BY <3>1, <3>2, <3>3 DEF Remembered
  <2> QED
    BY <1>0, <2>2, <2>5, <2>6, FetchTells, TableSays
<1>6. ASSUME NEW s \in Subject,
             \/ handleCreate(s)
             \/ \E t \in Removal : handleDelete(t, s)
             \/ \E p \in Person : submitAddFace(s, p)
      PROVE  FetchSound' /\ TableSound'
  BY <1>0, <1>6, ListsKept DEF handleCreate, handleDelete, submitAddFace, Send
<1>7. ASSUME NEW t \in Task, Carried(t) \/ Failed(t)
      PROVE  FetchSound' /\ TableSound'
  BY <1>0, <1>7, ListsKept DEF Carried, Failed
<1> QED
  BY <1>1, <1>2, <1>3, <1>4, <1>5, <1>6, <1>7 DEF ViewNext

-----------------------------------------------------------------------------
(* The induction.                                                          *)

LEMMA InitIInv == Init => IInv
<1> SUFFICES ASSUME Init PROVE IInv
  OBVIOUS
<1>1. RecognizerInv
  <2>1. MaxFaces \in Nat \ {0} /\ IsFiniteSet({}) /\ Cardinality({}) = 0
    BY RecognizerAssumption, FS_EmptySet
  <2>2. \A p \in Person : IsFiniteSet({<<p, 1>>}) /\ Cardinality({<<p, 1>>}) = 1
    BY FS_Singleton
  <2>3. faces \in [Subject -> {{}} \cup {{<<p, 1>>} : p \in Person}] /\ late = {}
        /\ subjects \subseteq Subject /\ \A s \in Subject \ subjects : faces[s] = {}
    BY DEF Init, RecognizerInit
  <2>4. \A s \in Subject : IsFiniteSet(faces[s]) /\ Cardinality(faces[s]) \in 0 .. MaxFaces
    BY <2>1, <2>2, <2>3
  <2>5. faces \in [Subject -> SUBSET (Person \X (1 .. MaxFaces))]
    BY <2>1, <2>3
  <2> QED
    BY <2>3, <2>4, <2>5 DEF RecognizerInv, RecognizerTypeOK, FaceCount
<1>2. SessionInv
  BY DEF Init, ServiceInit, SessionInv, ServiceTypeOK, Logins
<1>3. ViewInv
  <2>1. TableInv
    BY BlankRows DEF Init, ViewInit, TableInv, Blank
  <2>2. TaskInv /\ FetchInv
    BY DEF Init, ViewInit, TaskInv, FetchInv
  <2> QED
    BY <2>1, <2>2, ViewParts
<1>4. HistoryInv
  BY DEF Init, ViewInit, HistoryInv, DeletionsTold, BarredFail, IdleFail, FetchSound, TableSound, Blank
<1> QED
  BY <1>1, <1>2, <1>3, <1>4 DEF IInv

LEMMA HistoryStep ==
  ASSUME IInv, Next
  PROVE  HistoryInv'
<1>1. RecognizerInv /\ SessionInv /\ ViewInv /\ HistoryInv
  BY DEF IInv
<1>2. StaysEmpty /\ DeletionsReal /\ FindsSound
  BY <1>1, EmptyStep, DeletionsStep, FindsStep
<1>3. FetchSound /\ TableSound /\ FetchInv
  BY <1>1, ViewParts DEF HistoryInv
<1>4. ASSUME NEW told \in SUBSET Session, Remember(told)
      PROVE  known \subseteq known'
  BY <1>4, ApplicationsAssumption DEF Remember
<1>5. ASSUME NEW told, Remember(told)
      PROVE  StateOf' \in known'
  BY <1>5 DEF Remember
<1>6. CASE ServiceNext /\ UNCHANGED viewVars /\ Remember({})
  BY <1>1, <1>2, <1>3, <1>4, <1>5, <1>6, PromisesKept, ListsKept DEF HistoryInv, viewVars
<1>7. CASE ViewNext /\ UNCHANGED serviceVars /\ Remember({})
  BY <1>1, <1>2, <1>4, <1>5, <1>7, PromisesKept, ViewTells DEF HistoryInv
<1>8. ASSUME NEW r \in Session, Answer(r), UNCHANGED viewVars, Remember({r})
      PROVE  HistoryInv'
  <2>1. Performed(r) /\ UNCHANGED faces
    BY <1>8, AnswerTold
  <2>2. DeletionsTold' /\ BarredFail' /\ IdleFail'
    BY <1>1, <1>2, <1>8, <2>1, PromisesKept
  <2> QED
    BY <1>3, <1>4, <1>5, <1>8, <2>2, ListsKept DEF HistoryInv, viewVars
<1>9. ASSUME NEW t \in Task, Succeeded(t), Remember({t})
      PROVE  HistoryInv'
  <2>1. Performed(t) /\ UNCHANGED faces
    BY <1>9, SuccessTold
  <2>2. DeletionsTold' /\ BarredFail' /\ IdleFail'
    BY <1>1, <1>2, <1>9, <2>1, PromisesKept
  <2>3. FetchSound' /\ TableSound'
    BY <1>3, <1>9, StartSays DEF Succeeded, Idle
  <2> QED
    BY <1>5, <1>9, <2>2, <2>3 DEF HistoryInv
<1>10. CASE PerformLate /\ UNCHANGED <<serviceVars, viewVars>> /\ Remember({})
  BY <1>1, <1>2, <1>3, <1>4, <1>5, <1>10, PromisesKept, ListsKept DEF HistoryInv, viewVars
<1> QED
  BY <1>6, <1>7, <1>8, <1>9, <1>10 DEF Next

LEMMA StepIInv == IInv /\ [Next]_vars => IInv'
<1> SUFFICES ASSUME IInv, [Next]_vars PROVE IInv'
  OBVIOUS
<1>1. RecognizerInv /\ SessionInv /\ ViewInv /\ HistoryInv
  BY DEF IInv
<1>2. CASE Next
  <2>1. RecognizerInv'
    BY <1>1, <1>2, RecognizerStep
  <2>2. SessionInv'
    <3>1. CASE UNCHANGED serviceVars
      BY <1>1, <3>1 DEF serviceVars, SessionInv, ServiceTypeOK, Logins
    <3>2. CASE ServiceNext \/ \E r \in Session : Answer(r)
      BY <1>1, <3>2, SessionStep
    <3> QED
      BY <1>2, <3>1, <3>2 DEF Next
  <2>3. ViewInv'
    <3>1. CASE UNCHANGED viewVars
      BY <1>1, <3>1 DEF viewVars, ViewInv, ViewTypeOK
    <3>2. CASE ViewNext \/ \E t \in Task : Succeeded(t)
      BY <1>1, <3>2, ViewStep
    <3> QED
      BY <1>2, <3>1, <3>2 DEF Next
  <2>4. HistoryInv'
    BY <1>2, HistoryStep
  <2> QED
    BY <2>1, <2>2, <2>3, <2>4 DEF IInv
<1>3. CASE UNCHANGED vars
  <2> USE <1>3 DEF vars, recognizerVars, serviceVars, viewVars, history
  <2>1. RecognizerInv'
    BY <1>1, RecognizerSame
  <2>2. SessionInv'
    BY <1>1 DEF SessionInv, ServiceTypeOK, Logins
  <2>3. ViewInv'
    BY <1>1 DEF ViewInv, ViewTypeOK
  <2>4. DeletionsTold' /\ BarredFail' /\ IdleFail' /\ (StateOf \in known)'
    BY <1>1
    DEF HistoryInv, DeletionsTold, BarredFail, IdleFail, StateOf, FaceCount, Own, Emptied, Pending,
        Deletions, Unsettled, SessionWrites, Writing, Request, WriteAt, WriteOf, Performed, Verifying
  <2>5. FetchSound' /\ TableSound'
    BY <1>1 DEF HistoryInv, FetchSound, TableSound, Remembered, Own
  <2> QED
    BY <2>1, <2>2, <2>3, <2>4, <2>5 DEF IInv, HistoryInv
<1> QED
  BY <1>2, <1>3

LEMMA Inductive == Spec => []IInv
BY InitIInv, StepIInv, PTL DEF Spec

\* Every variable keeps its type: the service holds at most MaxFaces faces of a
\* subject, whatever writes are executed late or out of order.
THEOREM TypeCorrect == Spec => []TypeOK
<1>1. IInv => TypeOK
  BY DEF IInv, RecognizerInv, SessionInv, ViewInv, TypeOK
<1> QED
  BY <1>1, Inductive, PTL

\* Once the deletion of a subject was confirmed, to the user or to the operator,
\* no verification that begins later succeeds, unless it is registered again.
THEOREM DeletionsHold == Spec => []DeletedCannotVerify
<1>1. IInv => DeletedCannotVerify
  BY DEF IInv, HistoryInv, BarredFail, DeletedCannotVerify, Request
<1> QED
  BY <1>1, Inductive, PTL

\* Only the owner of a face verifies by it, and not while disabled.
THEOREM OwnersVerify == Spec => []VerifiedIsOwner
<1>1. IInv => VerifiedIsOwner
  BY DEF IInv, SessionInv, Logins, HistoryInv, IdleFail, VerifiedIsOwner, Request
<1> QED
  BY <1>1, Inductive, PTL

\* A list from the newest refresh misses no write that the console confirmed.
THEOREM ListsCurrent == Spec => []ShownIsCurrent
<1>1. IInv => ShownIsCurrent
  BY DEF IInv, HistoryInv, TableSound, Remembered, ShownIsCurrent
<1> QED
  BY <1>1, Inductive, PTL
=============================================================================
