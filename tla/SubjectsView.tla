---------------------------- MODULE SubjectsView -----------------------------
(***************************************************************************)
(* The subjects page of the web console (SubjectsView.vue).  Its handlers  *)
(* run in one thread but give way at every await, so a deletion, a         *)
(* creation, an added face and the refreshes each of them ends with        *)
(* overlap.                                                                *)
(***************************************************************************)
EXTENDS Recognizer

CONSTANTS
  Refresh,   \* refreshes in flight at the same time
  Removal,   \* deletions in flight at the same time
  Failing    \* bound: subjects whose count may fail to arrive

Task == {"creating", "addingFace"} \cup Removal

VARIABLES
  table,        \* the list shown, and whether the refresh started last gave it
  offered,      \* subjects that have been listed: a dialog may outlive its row
  task,         \* task[t]: the write handler t waits for, or None
  fetching,     \* fetching[k]: what refresh k knows so far, or None
  mounted       \* the page has been opened

viewVars == <<table, offered, task, fetching, mounted>>

\* faceCount of a row, None (null) if its request failed.
Count == 0 .. MaxFaces \cup {None}
Rows == UNION {[S -> Count] : S \in SUBSET Subject}

ViewTypeOK ==
  /\ table.rows \in Rows /\ table.newest \in BOOLEAN
  /\ DOMAIN table.rows \subseteq offered /\ offered \subseteq Subject
  /\ \A t \in Task : task[t] # None => task[t].write \in Write /\ task[t].done \in BOOLEAN
  /\ \A k \in Refresh : fetching[k] # None =>
       /\ fetching[k].listed \in BOOLEAN /\ fetching[k].newest \in BOOLEAN
       /\ fetching[k].rows \in Rows
       /\ fetching[k].todo \subseteq Subject
       /\ fetching[k].todo \cap DOMAIN fetching[k].rows = {}
  /\ mounted \in BOOLEAN

Blank == [rows |-> [s \in {} |-> 0], newest |-> FALSE]

ViewInit ==
  /\ table = Blank
  /\ offered = {}
  /\ task = [t \in Task |-> None]
  /\ fetching = [k \in Refresh |-> None]
  /\ mounted = FALSE

-----------------------------------------------------------------------------
(* fetchSubjects().                                                        *)

Idle == {k \in Refresh : fetching[k] = None}

\* fetchSubjects() is called and returns at its first await; nobody awaits it.
fetchSubjects(k) ==
  /\ fetching[k] = None
  /\ fetching' = [j \in Refresh |->
       IF j = k THEN [listed |-> FALSE, rows |-> Blank.rows, todo |-> {}, newest |-> TRUE]
       ELSE IF fetching[j] = None THEN None ELSE [fetching[j] EXCEPT !.newest = FALSE]]
  /\ table' = [table EXCEPT !.newest = FALSE]

\* The page is opened.
Mounted ==
  /\ ~mounted /\ mounted' = TRUE
  /\ \E k \in Idle : fetchSubjects(k)
  /\ UNCHANGED <<offered, task, recognizerVars>>

Listed(k) ==
  /\ fetching[k] # None /\ ~fetching[k].listed
  /\ fetching' = [fetching EXCEPT ![k] = [@ EXCEPT !.listed = TRUE, !.todo = subjects]]
  /\ UNCHANGED <<table, offered, task, mounted, recognizerVars>>

\* What the request for a count may answer.
Counts(s) == {FaceCount(s)} \cup (IF s \in Failing THEN {None} ELSE {})

\* The refresh that knew h learns the count of s.
With(h, s, n) ==
  [h EXCEPT !.todo = @ \ {s},
            !.rows = [q \in DOMAIN @ \cup {s} |-> IF q = s THEN n ELSE @[q]]]

\* Mutant: a count that failed is asked for again.
Counted_again(k, s) ==
  /\ fetching[k] # None /\ s \in fetching[k].todo
  /\ \E n \in Counts(s) :
       fetching' = [fetching EXCEPT ![k] =
         [With(@, s, n) EXCEPT !.todo = IF n = None THEN fetching[k].todo ELSE @]]
  /\ UNCHANGED <<table, offered, task, mounted, recognizerVars>>

\* One getFaces of Promise.all: its count, or null if it fails.
Counted(k, s) ==
  /\ fetching[k] # None /\ s \in fetching[k].todo
  /\ \E n \in Counts(s) : fetching' = [fetching EXCEPT ![k] = With(@, s, n)]
  /\ UNCHANGED <<table, offered, task, mounted, recognizerVars>>

\* The list replaces the one shown, whichever refresh that was from.
Show(k) ==
  /\ fetching[k] # None /\ fetching[k].listed /\ fetching[k].todo = {}
  /\ table' = [rows |-> fetching[k].rows, newest |-> fetching[k].newest]
  /\ offered' = offered \cup DOMAIN fetching[k].rows
  /\ fetching' = [fetching EXCEPT ![k] = None]
  /\ UNCHANGED <<task, mounted, recognizerVars>>

\* getSubjects fails: the list shown stays.
ShowFails(k) ==
  /\ fetching[k] # None /\ ~fetching[k].listed
  /\ fetching' = [fetching EXCEPT ![k] = None]
  /\ UNCHANGED <<table, offered, task, mounted, recognizerVars>>

-----------------------------------------------------------------------------
(* handleCreate, handleDelete, handleAddFace and submitAddFace.            *)

Send(t, op, s, p) ==
  /\ task[t] = None
  /\ task' = [task EXCEPT ![t] =
       [write |-> [op |-> op, subject |-> s, person |-> p], done |-> FALSE]]
  /\ UNCHANGED <<table, offered, fetching, mounted, recognizerVars>>

handleCreate(s) == Send("creating", "create", s, None)

\* A deletion is confirmed in a box; the row stays usable, also for a second one.
handleDelete(t, s) == s \in offered /\ Send(t, "delete", s, None)

\* handleAddFace has set the subject when the dialog was opened.
submitAddFace(s, p) == s \in offered /\ Send("addingFace", "add", s, p)

Carried(t) ==
  /\ task[t] # None /\ ~task[t].done
  /\ Perform(task[t].write)
  /\ task' = [task EXCEPT ![t].done = TRUE]
  /\ UNCHANGED <<table, offered, fetching, mounted, late>>

\* Mutant: the list is not fetched again.
Succeeded_quiet(t) ==
  /\ task[t] # None /\ task[t].done
  /\ task' = [task EXCEPT ![t] = None]
  /\ UNCHANGED <<table, offered, fetching, mounted, recognizerVars>>

\* Success is shown and the list fetched again in the same turn.
Succeeded(t) ==
  /\ task[t] # None /\ task[t].done
  /\ task' = [task EXCEPT ![t] = None]
  /\ \E k \in Idle : fetchSubjects(k)
  /\ UNCHANGED <<offered, mounted, recognizerVars>>

\* A refusal or a lost answer is only reported.
Failed(t) ==
  /\ task[t] # None
  /\ task' = [task EXCEPT ![t] = None]
  /\ late' = IF task[t].done THEN late ELSE late \cup {task[t].write}
  /\ UNCHANGED <<table, offered, fetching, mounted, subjects, faces>>

\* Every step of the page but the success of a write.
ViewNext ==
  \/ Mounted
  \/ \E k \in Refresh :
       \/ Listed(k) \/ Show(k) \/ ShowFails(k)
       \/ \E s \in Subject : Counted(k, s)
  \/ \E s \in Subject :
       \/ handleCreate(s)
       \/ \E t \in Removal : handleDelete(t, s)
       \/ \E p \in Person : submitAddFace(s, p)
  \/ \E t \in Task : Carried(t) \/ Failed(t)
=============================================================================
