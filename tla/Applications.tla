---------------------------- MODULE Applications -----------------------------
(***************************************************************************)
(* The host application and the web console on one recognition service:    *)
(* what the answer to one of them promises about the others.               *)
(***************************************************************************)
EXTENDS FaceService, SubjectsView

CONSTANTS
  Watched,   \* the user the history is about
  Edited,    \* bound: subjects that are written to
  MaxActive  \* bound: requests, handlers and late writes at the same time

ASSUME ApplicationsAssumption ==
  /\ Watched \in User
  /\ Session \cap Task = {}

VARIABLES
  quiet,   \* deletions on their way that no registration of the subject overlaps
  gone,    \* the subject's deletion was confirmed, with no registration since
  barred,  \* verifications that began when the subject was gone
  idle,    \* verifications during which the account was always disabled
  known    \* states of the subject since the console last confirmed a write

history == <<quiet, gone, barred, idle, known>>
vars == <<recognizerVars, serviceVars, viewVars, history>>

-----------------------------------------------------------------------------
(* History of what has been promised to or about one user, who is as good  *)
(* as any other; no action depends on it.                                  *)

Own == Bound[Watched]

\* Writes on their way: those of sessions and of handlers of the console.
SessionWrites == {r \in Session : Writing(r, "call") \/ Writing(r, "answered")}
Unsettled == SessionWrites \cup {t \in Task : task[t] # None}
WriteAt(c) == IF c \in Session THEN WriteOf(c) ELSE task[c].write
Performed(c) == IF c \in Session THEN session[c].at = "answered" ELSE task[c].done

\* A registration of the subject has not been performed yet.
Pending ==
  \/ \E w \in late : w.op = "add" /\ w.subject = Own
  \/ \E c \in Unsettled :
       WriteAt(c).op = "add" /\ WriteAt(c).subject = Own /\ ~Performed(c)

Deletions == {c \in Unsettled : WriteAt(c).op = "delete" /\ WriteAt(c).subject = Own}

Verifying == {r \in Session : session[r] # None /\ session[r].op = "login"
                                 /\ session[r].user = Watched}

StateOf == [exists |-> Own \in subjects, count |-> FaceCount(Own)]

\* What a step adds that confirms the writes of "told".
Remember(told) ==
  /\ quiet' = {c \in Deletions' : ~Pending' /\ (c \in Deletions => c \in quiet)}
  /\ gone' = (~Pending' /\ (gone \/ told \cap quiet # {}))
  /\ barred' = {r \in Verifying' : ~Pending' /\ IF r \in Verifying THEN r \in barred ELSE gone}
  /\ idle' = {r \in Verifying' : ~active(Watched)' /\ (r \in Verifying => r \in idle)}
  /\ known' = {StateOf'} \cup IF told \cap Task # {} THEN {} ELSE known

Init ==
  /\ RecognizerInit /\ ServiceInit /\ ViewInit
  /\ quiet = {} /\ gone = FALSE /\ barred = {} /\ idle = {}
  /\ known = {StateOf}

Active ==
  Cardinality({r \in Session : session[r] # None}) + Cardinality(late)
  + Cardinality({k \in Refresh : fetching[k] # None}) + Cardinality({t \in Task : task[t] # None})

Next ==
  /\ \/ ServiceNext /\ UNCHANGED viewVars /\ Remember({})
     \/ ViewNext /\ UNCHANGED serviceVars /\ Remember({})
     \/ \E r \in Session : Answer(r) /\ UNCHANGED viewVars /\ Remember({r})
     \/ \E t \in Task : Succeeded(t) /\ UNCHANGED serviceVars /\ Remember({t})
     \/ PerformLate /\ UNCHANGED <<serviceVars, viewVars>> /\ Remember({})
  /\ Active' <= MaxActive
  /\ \A c \in Unsettled' : WriteAt(c)'.subject \in Edited

Spec == Init /\ [][Next]_vars
-----------------------------------------------------------------------------
TypeOK == RecognizerTypeOK /\ ServiceTypeOK /\ ViewTypeOK

\* "One face, matching the current user" (examples/ruoyi-integration/README.md:7),
\* and a face that is still there: once the deletion of a user's subject has been
\* confirmed, to the user or to the operator of the console, no verification that
\* begins later succeeds, unless the subject is registered again.
DeletedCannotVerify == \A r \in Session : Request(r, "login", "verified") => r \notin barred

\* "... and the user not disabled or deleted": a verification succeeds only for
\* the account bound to the match, if that was active at some time since it began.
VerifiedIsOwner ==
  \A r \in Session : Request(r, "login", "verified") =>
    /\ session[r].found = Bound[session[r].user]
    /\ session[r].picture.faces = 1
    /\ r \notin idle

\* Once no refresh is on its way and the list is from the one started last, a row
\* was there, its count right, or a subject missing at some time since the
\* console last confirmed a write: the list misses no confirmed write.  An older
\* refresh that answers last is the exception (SubjectsView.vue:114).
ShownIsCurrent ==
  (\A k \in Refresh : fetching[k] = None) /\ table.newest =>
    IF Own \in DOMAIN table.rows
    THEN /\ \E v \in known : v.exists
         /\ \E v \in known : table.rows[Own] \in {v.count, None}
    ELSE \E v \in known : ~v.exists
=============================================================================
