------------------------------ MODULE SdkRules ------------------------------
(***************************************************************************)
(* What each SDK does with one exchange: which operations it repeats,      *)
(* which answers make it try again, and which 2xx answers it accepts.      *)
(* One definition per SDK and question; the records at the end let a       *)
(* client look up the rules of its own SDK.                                *)
(***************************************************************************)
EXTENDS Sequences

SdkName == {"python", "async", "go", "java", "node"}

Writes == {"create", "add", "delete"}
Reads == {"detect", "verify", "recognize", "list"}

Method ==
  [detect |-> "POST", verify |-> "POST", recognize |-> "POST",
   list |-> "GET", create |-> "POST", add |-> "POST", delete |-> "DELETE"]

\* The path below /api/v1.  A delete names a resource below a collection.
Endpoint ==
  [detect    |-> <<"detection", "detect">>,
   verify    |-> <<"verification", "verify">>,
   recognize |-> <<"recognition", "recognize">>,
   list      |-> <<"recognition", "subjects">>,
   create    |-> <<"recognition", "subjects">>,
   add       |-> <<"recognition", "faces">>,
   delete    |-> <<"recognition", "subjects", "id">>]

RepeatablePosts == {Endpoint.detect, Endpoint.verify, Endpoint.recognize}

(***************************************************************************)
(* What comes of an attempt: a 2xx with a JSON object, a 204, a 200 without*)
(* a body, a 2xx with any other body; 429, 500, 502, 503 or 504; any other *)
(* status; no response; a response whose body breaks off.                  *)
(***************************************************************************)
Success == {"object", "empty", "bare", "text"}
Answer == Success \cup {"transient", "refused", "lost", "truncated"}

\* Operations whose result is read from an array of the response.
NeedsArray == Reads

-----------------------------------------------------------------------------
PythonSafe(op) ==
  \/ Method[op] \in {"GET", "HEAD", "DELETE"}
  \/ Endpoint[op] \in RepeatablePosts

PythonRetried == {"transient", "lost", "truncated"}

\* No body at all counts as an empty object.
PythonAccepted(op) ==
  {"object"} \cup (IF op \in NeedsArray THEN {} ELSE {"empty", "bare"})

AsyncRetried == {"transient", "lost", "truncated"}

AsyncAccepted(op) ==
  {"object"} \cup (IF op \in NeedsArray THEN {} ELSE {"empty", "bare"})

\* Mutant: any path of the recognition service ends in a repeatable word.
GoSafe_service(op) ==
  \/ Method[op] \in {"GET", "DELETE"}
  \/ Endpoint[op][1] \in {"detection", "verification", "recognition"}

\* Only the last segment of the path is looked at.
GoSafe(op) ==
  \/ Method[op] \in {"GET", "DELETE"}
  \/ Endpoint[op][Len(Endpoint[op])] \in {"detect", "verify", "recognize"}

\* A body that cannot be read ends the call.
GoRetried == {"transient", "lost"}

\* A delete does not look at the body.
GoAccepted(op) == IF op = "delete" THEN Success ELSE {"object"}

JavaSafe(op) ==
  \/ Method[op] \in {"GET", "DELETE"}
  \/ Endpoint[op] \in RepeatablePosts

\* Mutant: an attempt without a response is final.
JavaRetried_status == {"transient"}

JavaRetried == {"transient", "lost", "truncated"}

\* Void results do not look at the body.
JavaAccepted(op) == IF op = "delete" THEN Success ELSE {"object"}

NodeSafe(op) ==
  \/ Method[op] \in {"GET", "DELETE"}
  \/ Endpoint[op] \in RepeatablePosts

NodeRetried == {"transient", "lost", "truncated"}

\* 204 counts as an empty object; any other body must be an object.
NodeAccepted(op) ==
  {"object"} \cup (IF op \in NeedsArray THEN {} ELSE {"empty"})

-----------------------------------------------------------------------------
Safe(op) ==
  [python |-> PythonSafe(op), async |-> PythonSafe(op), go |-> GoSafe(op),
   java |-> JavaSafe(op), node |-> NodeSafe(op)]

Retried ==
  [python |-> PythonRetried, async |-> AsyncRetried, go |-> GoRetried,
   java |-> JavaRetried, node |-> NodeRetried]

Accepted(op) ==
  [python |-> PythonAccepted(op), async |-> AsyncAccepted(op),
   go |-> GoAccepted(op), java |-> JavaAccepted(op), node |-> NodeAccepted(op)]
=============================================================================
