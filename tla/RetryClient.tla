----------------------------- MODULE RetryClient -----------------------------
(***************************************************************************)
(* Calls of the SDKs over a transport that loses responses.  Each call     *)
(* runs in its own thread, task or promise; the backend may process a      *)
(* request long after its sender has given up on it.                       *)
(***************************************************************************)
EXTENDS SdkRules, Naturals, FiniteSets

CONSTANTS
  Call,        \* calls made
  Subject,     \* subjects they name
  Sdk,         \* SDKs in use
  Operation,   \* operations called
  MaxRetries,  \* the largest maxRetries of a client
  MaxEdits,    \* how often the image file changes
  None         \* no reply yet, no outcome yet, not called yet

ASSUME SdkAssumption == Sdk \subseteq SdkName /\ Operation \subseteq Reads \cup Writes
ASSUME RetryAssumption == MaxRetries \in Nat /\ MaxEdits \in Nat
Outcome == {"ok", "invalid", "refused", "failed", "cancelled"}

CallState ==
  [sdk : Sdk, op : Operation, subject : Subject, lazy : BOOLEAN,
   image : 0..MaxEdits, step : {"ready", "waiting", "sleeping", "done"},
   maxRetries : 0..MaxRetries, attempt : 0..MaxRetries, reply : Answer \cup {None},
   outcome : Outcome \cup {None}]

ASSUME NoneAssumption == None \notin Answer \cup Outcome /\ None \notin CallState

VARIABLES
  calls,      \* calls[c]: the state of a call, None before it is made
  sent,       \* requests sent, by call and attempt
  processed,  \* requests the backend is done with
  executed,   \* requests that changed the backend's state
  subjects,   \* subjects of the backend
  file        \* version of the image file on disk

vars == <<calls, sent, processed, executed, subjects, file>>

Request == [call : Call, attempt : 0..MaxRetries, image : 0..MaxEdits]

TypeOK ==
  /\ calls \in [Call -> CallState \cup {None}]
  /\ sent \subseteq Request
  /\ processed \subseteq sent
  /\ executed \subseteq processed
  /\ subjects \subseteq Subject
  /\ file \in 0..MaxEdits

Init ==
  /\ calls = [c \in Call |-> None]
  /\ sent = {} /\ processed = {} /\ executed = {}
  /\ subjects \in SUBSET Subject
  /\ file = 0

At(c, step) == calls[c] # None /\ calls[c].step = step

\* Mutant: one attempt too many.
Retries_inclusive(k) == IF Safe(k.op)[k.sdk] THEN k.maxRetries + 1 ELSE 0

\* Mutant: 0 is taken for a value that was not configured.
Retries_default(k) ==
  IF ~Safe(k.op)[k.sdk] THEN 0
  ELSE IF k.maxRetries = 0 THEN MaxRetries ELSE k.maxRetries

\* maxRetries counts only for operations the SDK repeats.
Retries(k) == IF Safe(k.op)[k.sdk] THEN k.maxRetries ELSE 0

-----------------------------------------------------------------------------
\* The image is read before the first attempt, except that the File variants
\* of the Java SDK hand the file itself to the request body.  Each client has a
\* maxRetries of its own.
Start(c, sdk, op, s) ==
  /\ calls[c] = None
  /\ \E lazy \in IF sdk = "java" /\ op = "detect" THEN BOOLEAN ELSE {FALSE},
        max \in 0..MaxRetries :
       calls' = [calls EXCEPT ![c] =
         [sdk |-> sdk, op |-> op, subject |-> s, lazy |-> lazy, image |-> file,
          step |-> "ready", maxRetries |-> max, attempt |-> 0, reply |-> None, outcome |-> None]]
  /\ UNCHANGED <<sent, processed, executed, subjects, file>>

\* Mutant: the body is read from its source when an attempt is sent.
Payload_source(c) == file

Payload(c) == IF calls[c].lazy THEN file ELSE calls[c].image

Send(c) ==
  /\ At(c, "ready")
  /\ sent' = sent \cup
       {[call |-> c, attempt |-> calls[c].attempt, image |-> Payload(c)]}
  /\ calls' = [calls EXCEPT ![c].step = "waiting"]
  /\ UNCHANGED <<processed, executed, subjects, file>>

Retry(c, answer) ==
  /\ answer \in Retried[calls[c].sdk]
  /\ calls[c].attempt < Retries(calls[c])
  /\ calls' = [calls EXCEPT ![c].step = "sleeping", ![c].reply = None]

\* Mutant: a delete that finds nothing to delete has succeeded.
Verdict_absent(k, answer) ==
  CASE answer \in Accepted(k.op)[k.sdk] -> "ok"
    [] answer = "refused" /\ k.op = "delete" -> "ok"
    [] answer \in Success -> "invalid"
    [] answer = "refused" -> "refused"
    [] OTHER -> "failed"

Verdict(k, answer) ==
  CASE answer \in Accepted(k.op)[k.sdk] -> "ok"
    [] answer \in Success \ Accepted(k.op)[k.sdk] -> "invalid"
    [] answer = "refused" -> "refused"
    [] OTHER -> "failed"

Finish(c, answer) ==
  /\ ~(answer \in Retried[calls[c].sdk] /\ calls[c].attempt < Retries(calls[c]))
  /\ calls' = [calls EXCEPT ![c].step = "done", ![c].reply = None,
                            ![c].outcome = Verdict(calls[c], answer)]

\* A response arrives, whole or not.
Receive(c) ==
  /\ At(c, "waiting")
  /\ calls[c].reply # None
  /\ \E answer \in {calls[c].reply, "truncated"} :
       Retry(c, answer) \/ Finish(c, answer)
  /\ UNCHANGED <<sent, processed, executed, subjects, file>>

\* No connection, or no response in time.
Timeout(c) ==
  /\ At(c, "waiting")
  /\ Retry(c, "lost") \/ Finish(c, "lost")
  /\ UNCHANGED <<sent, processed, executed, subjects, file>>

\* Mutant: the attempts are not counted.
Wake_uncounted(c) ==
  /\ At(c, "sleeping")
  /\ calls' = [calls EXCEPT ![c].step = "ready"]
  /\ UNCHANGED <<sent, processed, executed, subjects, file>>

\* The delay before the next attempt is over.
Wake(c) ==
  /\ At(c, "sleeping")
  /\ calls' = [calls EXCEPT ![c].step = "ready", ![c].attempt = @ + 1]
  /\ UNCHANGED <<sent, processed, executed, subjects, file>>

\* A context is done or a task cancelled at any time; a thread of the Java SDK
\* is interrupted in its sleep (an interrupted exchange ends like a lost one).
Cancel(c) ==
  /\ \E step \in {"ready", "waiting", "sleeping"} : At(c, step)
  /\ \/ calls[c].sdk \in {"go", "async"}
     \/ calls[c].sdk = "java" /\ At(c, "sleeping")
  /\ calls' = [calls EXCEPT ![c].step = "done", ![c].reply = None,
                            ![c].outcome = "cancelled"]
  /\ UNCHANGED <<sent, processed, executed, subjects, file>>

-----------------------------------------------------------------------------
(* The backend and the proxies before it.                                  *)

\* A new subject must not exist, a deleted one must.
Executable(k) ==
  /\ k.op = "create" => k.subject \notin subjects
  /\ k.op = "delete" => k.subject \in subjects

Execute(q, k) ==
  /\ Executable(k)
  /\ executed' = executed \cup {q}
  /\ subjects' = IF k.op = "delete" THEN subjects \ {k.subject}
                 ELSE IF k.op \in Reads THEN subjects
                 ELSE subjects \cup {k.subject}

\* The answer reaches a sender that still waits for this attempt.
Reply(q, answer) ==
  calls' = IF At(q.call, "waiting") /\ calls[q.call].attempt = q.attempt
           THEN [calls EXCEPT ![q.call].reply = answer] ELSE calls

\* A request is executed, and a proxy may still answer 502 or 504; or it is
\* refused or turned away.
Process(q) ==
  /\ q \in sent \ processed
  /\ processed' = processed \cup {q}
  /\ \/ /\ Execute(q, calls[q.call])
        /\ \E answer \in Success \cup {"transient"} : Reply(q, answer)
     \/ /\ \E answer \in {"refused", "transient"} : Reply(q, answer)
        /\ UNCHANGED <<executed, subjects>>
  /\ UNCHANGED <<sent, file>>

\* Somebody replaces the image file.
Edit ==
  /\ file < MaxEdits
  /\ file' = file + 1
  /\ UNCHANGED <<calls, sent, processed, executed, subjects>>

\* Another client, or a person at the web client, creates or deletes a subject.
Elsewhere(s) ==
  /\ subjects' \in {subjects \cup {s}, subjects \ {s}}
  /\ UNCHANGED <<calls, sent, processed, executed, file>>

ClientStep(c) ==
  Send(c) \/ Receive(c) \/ Timeout(c) \/ Wake(c) \/ Cancel(c)

Next ==
  \/ \E c \in Call :
       \/ ClientStep(c)
       \/ \E sdk \in Sdk, op \in Operation, s \in Subject : Start(c, sdk, op, s)
  \/ \E q \in sent : Process(q)
  \/ Edit
  \/ \E s \in Subject : Elsewhere(s)

Spec == Init /\ [][Next]_vars

\* Every attempt ends (the timeouts of requests, aiohttp, net/http, OkHttp and
\* axios) and every delay passes.
FairSpec ==
  /\ Spec
  /\ \A c \in Call : WF_vars(Send(c)) /\ WF_vars(Timeout(c)) /\ WF_vars(Wake(c))
-----------------------------------------------------------------------------
Executed(c) == {q \in executed : q.call = c}
Done(c, outcomes) == At(c, "done") /\ calls[c].outcome \in outcomes

\* Creating a subject or adding a face is never repeated behind the caller's
\* back, so it happens at most once however late the backend is.
AtMostOnce ==
  \A c \in Call : calls[c] # None /\ calls[c].op \in {"create", "add"} =>
    \A p, q \in Executed(c) : p = q

\* A write that returns a result has happened.  One that is refused has not,
\* except for a delete: its earlier attempt may have removed what the last one
\* no longer found.
AnswersAreTrue ==
  \A c \in Call : calls[c] # None /\ calls[c].op \in Writes =>
    /\ Done(c, {"ok", "invalid"}) => Executed(c) # {}
    /\ Done(c, {"refused"}) /\ calls[c].op # "delete" => Executed(c) = {}

\* After a definite answer no request of a write that is not repeated is still
\* on its way; with maxRetries = 0 this holds of deletes too, and a subject
\* created after a delete returned cannot fall to that delete.
NothingLeftBehind ==
  \A c \in Call :
    /\ Done(c, {"ok", "invalid", "refused"})
    /\ calls[c].op \in {"create", "add"} \/ calls[c].maxRetries = 0
    => \A q \in sent : q.call = c => q \in processed

FailsLast(c) ==
  Done(c, {"failed"}) /\ calls[c].op \notin {"create", "add"} =>
    calls[c].attempt = calls[c].maxRetries

\* "Detection, search, comparison, reads and deletes can retry transient
\* network errors and 429/500/502/503/504" (docs/protocol.md): such a call
\* fails only when its attempts are used up.
AttemptsUsedUp == \A c \in Call : FailsLast(c)

\* The Python, Java and Node clients do so.
RetriesExhausted ==
  \A c \in Call : calls[c] # None /\ calls[c].sdk # "go" => FailsLast(c)

OneImage(c) ==
  \A p, q \in sent : p.call = c /\ q.call = c => p.image = q.image

\* Every attempt of a call sends the same image, whatever happens to the file
\* between two attempts (docs/protocol.md: images are buffered in memory).
SameImage == \A c \in Call : OneImage(c)

\* So it is unless the Java client was given a file.
BufferedImage ==
  \A c \in Call : calls[c] # None /\ ~calls[c].lazy => OneImage(c)

\* Every call returns or raises, however often the backend answers 503.
CallsReturn == \A c \in Call : calls[c] # None ~> At(c, "done")
=============================================================================
