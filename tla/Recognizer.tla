----------------------------- MODULE Recognizer ------------------------------
(***************************************************************************)
(* The recognition service as the applications see it through a client:    *)
(* subjects and the faces enrolled under them.  It stands for backend and  *)
(* gateway together, is external to the applications, and executes a write *)
(* some time after it was sent, also after its sender gave up.             *)
(***************************************************************************)
EXTENDS Naturals, FiniteSets

CONSTANTS
  Subject,   \* names of subjects
  Person,    \* who is seen in pictures
  MaxFaces,  \* bound: faces of a subject
  None

ASSUME RecognizerAssumption ==
  /\ MaxFaces \in Nat \ {0}
  /\ None \notin Subject

VARIABLES
  subjects,  \* the subjects that exist
  faces,     \* faces[s]: pairs of the person seen and the number of the face
  late       \* writes whose senders have given up, and which may still execute

recognizerVars == <<subjects, faces, late>>

Write == [op : {"create", "delete", "add"}, subject : Subject, person : Person \cup {None}]

RecognizerTypeOK ==
  /\ subjects \subseteq Subject
  /\ faces \in [Subject -> SUBSET (Person \X (1 .. MaxFaces))]
  /\ late \subseteq Write
  /\ \A s \in Subject \ subjects : faces[s] = {}

\* The service may hold subjects with a face each from before.
RecognizerInit ==
  /\ subjects \in SUBSET Subject
  /\ faces \in [Subject -> {{}} \cup {{<<p, 1>>} : p \in Person}]
  /\ \A s \in Subject : s \in subjects <=> faces[s] # {}
  /\ late = {}

FaceCount(s) == Cardinality(faces[s])

\* The subjects a person is enrolled under.
Matches(p) == {s \in Subject : \E n \in 1 .. MaxFaces : <<p, n>> \in faces[s]}

\* What the service accepts; it refuses the rest.
Accepts(w) ==
  CASE w.op = "create" -> w.subject \notin subjects
    [] w.op = "delete" -> w.subject \in subjects
    [] w.op = "add" -> FaceCount(w.subject) < MaxFaces

\* Adding a face creates its subject.
Perform(w) ==
  /\ Accepts(w)
  /\ subjects' = IF w.op = "delete" THEN subjects \ {w.subject}
                 ELSE subjects \cup {w.subject}
  /\ faces' = [faces EXCEPT ![w.subject] =
       CASE w.op = "create" -> @
         [] w.op = "delete" -> {}
         [] w.op = "add" -> @ \cup {<<w.person, FaceCount(w.subject) + 1>>}]

PerformLate ==
  \E w \in late :
    /\ late' = late \ {w}
    /\ Perform(w) \/ UNCHANGED <<subjects, faces>>
=============================================================================
