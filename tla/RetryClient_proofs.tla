------------------------- MODULE RetryClient_proofs -------------------------
(***************************************************************************)
(* Proofs about the SDK calls, for any number of calls, subjects and       *)
(* retries and any mix of SDKs.                                            *)
(*                                                                         *)
(* Neither AtMostOnce nor AnswersAreTrue is inductive: they need that a    *)
(* call sends one request per attempt and knows all it has sent (SentInv,  *)
(* SentOnce), that a reply answers a request the backend is done with      *)
(* (AnsweredInv), and that what a reply claims has happened before it is   *)
(* received (HappenedInv, RefusedInv).                                     *)
(***************************************************************************)
EXTENDS RetryClient, TLAPS

Made(c) == calls[c] # None

Current(q) == q.attempt = calls[q.call].attempt

\* The reply, or the verdict, answers a request the backend is done with.
Answered(c) ==
  \/ At(c, "waiting") /\ calls[c].reply # None
  \/ Done(c, {"ok", "invalid", "refused"})

\* A request is known to its call, and is not from a later attempt.
SentInv ==
  \A q \in sent :
    /\ Made(q.call)
    /\ q.attempt <= calls[q.call].attempt
    /\ At(q.call, "ready") => q.attempt < calls[q.call].attempt
    /\ ~calls[q.call].lazy => q.image = calls[q.call].image

\* Each attempt sends one request.
SentOnce ==
  \A p, q \in sent : p.call = q.call /\ p.attempt = q.attempt => p = q

CallInv ==
  \A c \in Call : Made(c) =>
    /\ calls[c].attempt <= Retries(calls[c])
    /\ At(c, "sleeping") => calls[c].attempt < Retries(calls[c])
    /\ calls[c].reply # None => At(c, "waiting")
    /\ calls[c].outcome # None => At(c, "done")
    /\ calls[c].lazy => calls[c].sdk = "java"

AnsweredInv ==
  \A q \in sent : Answered(q.call) /\ Current(q) => q \in processed

HappenedInv ==
  \A c \in Call : Made(c) /\ calls[c].op \in Writes =>
    /\ At(c, "waiting") /\ calls[c].reply \in Success => Executed(c) # {}
    /\ Done(c, {"ok", "invalid"}) => Executed(c) # {}

RefusedInv ==
  \A c \in Call : Made(c) /\ calls[c].op \in {"create", "add"} =>
    /\ At(c, "waiting") /\ calls[c].reply = "refused" => Executed(c) = {}
    /\ Done(c, {"refused"}) => Executed(c) = {}

IInv ==
  /\ TypeOK /\ SentInv /\ SentOnce /\ CallInv
  /\ AnsweredInv /\ HappenedInv /\ RefusedInv

-----------------------------------------------------------------------------
(* The rules of the SDKs.                                                  *)

\* No SDK repeats the creation of a subject or the addition of a face.
LEMMA NotRepeated ==
  ASSUME NEW op \in {"create", "add"}, NEW sdk \in SdkName
  PROVE  ~Safe(op)[sdk]
<1>1. Method[op] = "POST"
  BY DEF Method
<1>2. Endpoint[op] \notin RepeatablePosts
  BY DEF Endpoint, RepeatablePosts
<1>3. Endpoint[op][Len(Endpoint[op])] \notin {"detect", "verify", "recognize"}
  <2>1. PICK last \in {"subjects", "faces"} : Endpoint[op] = <<"recognition", last>>
    BY DEF Endpoint
  <2>2. Len(<<"recognition", last>>) = 2 /\ <<"recognition", last>>[2] = last
    OBVIOUS
  <2> QED
    BY <2>1, <2>2
<1>4. ~PythonSafe(op) /\ ~GoSafe(op) /\ ~JavaSafe(op) /\ ~NodeSafe(op)
  BY <1>1, <1>2, <1>3 DEF PythonSafe, GoSafe, JavaSafe, NodeSafe
<1> QED
  BY <1>4 DEF Safe, SdkName

\* A call of one of them has a single attempt.
LEMMA SingleAttempt ==
  ASSUME NEW k \in CallState, k.op \in {"create", "add"}
  PROVE  Retries(k) = 0
BY NotRepeated, SdkAssumption DEF CallState, Retries

LEMMA RetriesBound ==
  ASSUME NEW k \in CallState
  PROVE  Retries(k) \in 0..MaxRetries
BY RetryAssumption DEF Retries, CallState

\* What a verdict tells of the answer it was given for.
LEMMA VerdictTells ==
  ASSUME NEW k \in CallState, NEW answer \in Answer
  PROVE  /\ Verdict(k, answer) \in Outcome
         /\ Verdict(k, answer) \in {"ok", "invalid"} => answer \in Success
         /\ Verdict(k, answer) = "refused" => answer = "refused"
<1>1. k.op \in Reads \cup Writes /\ k.sdk \in SdkName
  BY SdkAssumption DEF CallState
<1>2. Accepted(k.op)[k.sdk] \subseteq Success
  BY <1>1 DEF Accepted, SdkName, Success, PythonAccepted, AsyncAccepted,
              GoAccepted, JavaAccepted, NodeAccepted
<1> QED
  BY <1>2 DEF Verdict, Outcome

-----------------------------------------------------------------------------
(* Steps.                                                                  *)

LEMMA InitOK == Init => IInv
BY RetryAssumption DEF Init, IInv, TypeOK, SentInv, SentOnce, CallInv, AnsweredInv, HappenedInv,
  RefusedInv, Made

\* Replacing the state of one call leaves the others alone.
LEMMA Replace ==
  ASSUME TypeOK, NEW c \in Call, NEW k \in CallState,
         calls' = [calls EXCEPT ![c] = k]
  PROVE  /\ calls' \in [Call -> CallState \cup {None}]
         /\ calls'[c] = k
         /\ \A d \in Call : d # c => calls'[d] = calls[d]
BY DEF TypeOK

\* What a step of the client alone may make of a call k.
Moves(k, next) ==
  /\ next.sdk = k.sdk /\ next.op = k.op /\ next.lazy = k.lazy
  /\ next.maxRetries = k.maxRetries
  /\ next.image = k.image /\ next.reply = None
  /\ next.attempt >= k.attempt /\ next.attempt <= Retries(next)
  /\ next.step \in {"ready", "sleeping", "done"}
  /\ next.step = "ready" => k.attempt < next.attempt
  /\ next.step = "sleeping" => next.attempt < Retries(next)
  /\ next.outcome # None => next.step = "done"
  /\ next.outcome \in {"ok", "invalid"} =>
       k.step = "waiting" /\ k.reply \in Success /\ next.attempt = k.attempt
  /\ next.outcome = "refused" =>
       k.step = "waiting" /\ k.reply = "refused" /\ next.attempt = k.attempt

LEMMA ClientMoves ==
  ASSUME IInv, NEW c \in Call, NEW k \in CallState, Made(c),
         calls' = [calls EXCEPT ![c] = k], Moves(calls[c], k),
         UNCHANGED <<sent, processed, executed, subjects, file>>
  PROVE  IInv'
<1> USE DEF IInv, Moves
<1>1. /\ calls' \in [Call -> CallState \cup {None}]
      /\ calls'[c] = k
      /\ \A d \in Call : d # c => calls'[d] = calls[d]
  BY Replace
<1>2. k # None /\ calls[c] \in CallState
  BY NoneAssumption DEF Made, TypeOK
<1>3. TypeOK'
  BY <1>1 DEF TypeOK
<1>4. \A q \in sent : q.call \in Call /\ q.attempt \in Nat /\ q \in Request
  BY RetryAssumption DEF TypeOK, Request
<1>5. calls[c].attempt \in Nat /\ k.attempt \in Nat
  BY <1>2, RetryAssumption DEF CallState
<1>6. SentInv'
  BY <1>1, <1>2, <1>4, <1>5 DEF SentInv, Made, At
<1>7. CallInv'
  BY <1>1, <1>2 DEF CallInv, Made, At, Retries
<1>8. None \notin Success /\ "refused" # None /\ None \notin Outcome
  BY NoneAssumption DEF Answer, Outcome
<1>9. AnsweredInv'
  <2> SUFFICES ASSUME NEW q \in sent, Answered(q.call)', Current(q)'
               PROVE  q \in processed
    BY DEF AnsweredInv
  <2>1. CASE q.call # c
    BY <2>1, <1>1, <1>4 DEF AnsweredInv, Answered, At, Done, Current
  <2>2. CASE q.call = c
    <3>1. k.outcome \in {"ok", "invalid", "refused"}
      BY <2>2, <1>1 DEF Answered, At, Done
    <3>2. Answered(c) /\ Current(q)
      BY <3>1, <2>2, <1>1, <1>8 DEF Answered, Current, At, Made
    <3> QED
      BY <3>2, <2>2 DEF AnsweredInv
  <2> QED
    BY <2>1, <2>2
<1>10. \A d \in Call : Executed(d)' = Executed(d)
  BY DEF Executed
<1>11. HappenedInv'
  BY <1>1, <1>2, <1>8, <1>10 DEF HappenedInv, Made, At, Done
<1>12. RefusedInv'
  BY <1>1, <1>2, <1>8, <1>10 DEF RefusedInv, Made, At, Done
<1>13. SentOnce'
  BY DEF SentOnce
<1> QED
  BY <1>3, <1>6, <1>7, <1>9, <1>11, <1>12, <1>13

LEMMA StartKeeps ==
  ASSUME IInv, NEW c \in Call, NEW sdk \in Sdk, NEW op \in Operation,
         NEW s \in Subject, Start(c, sdk, op, s)
  PROVE  IInv'
<1> USE DEF IInv
<1>1. PICK lazy \in IF sdk = "java" /\ op = "detect" THEN BOOLEAN ELSE {FALSE},
           max \in 0..MaxRetries :
        calls' = [calls EXCEPT ![c] =
          [sdk |-> sdk, op |-> op, subject |-> s, lazy |-> lazy, image |-> file,
           step |-> "ready", maxRetries |-> max, attempt |-> 0, reply |-> None, outcome |-> None]]
  BY DEF Start
<1> DEFINE k == [sdk |-> sdk, op |-> op, subject |-> s, lazy |-> lazy,
                 image |-> file, step |-> "ready", maxRetries |-> max, attempt |-> 0,
                 reply |-> None, outcome |-> None]
<1>2. k \in CallState
  <2>1. lazy \in BOOLEAN
    BY <1>1
  <2> QED
    BY <2>1, RetryAssumption DEF CallState, TypeOK
<1>3. lazy => sdk = "java"
  BY <1>1
<1>4. /\ calls' \in [Call -> CallState \cup {None}]
      /\ calls'[c] = k
      /\ \A d \in Call : d # c => calls'[d] = calls[d]
  BY <1>1, <1>2, Replace
<1>5. UNCHANGED <<sent, processed, executed, subjects, file>> /\ ~Made(c)
  BY DEF Start, Made
<1>6. \A q \in sent : q.call \in Call /\ q.call # c
  BY <1>5 DEF TypeOK, Request, SentInv
<1>7. 0 <= Retries(k)
  BY <1>2, RetriesBound, RetryAssumption
<1>8. k # None
  BY <1>2, NoneAssumption
<1> HIDE DEF k
<1>9. /\ k.step = "ready" /\ k.attempt = 0 /\ k.reply = None
      /\ k.outcome = None /\ (k.lazy => k.sdk = "java")
  BY <1>3 DEF k
<1>10. TypeOK'
  BY <1>4, <1>5 DEF TypeOK
<1>11. SentInv'
  BY <1>4, <1>5, <1>6 DEF SentInv, Made, At
<1>12. CallInv'
  BY <1>4, <1>7, <1>8, <1>9 DEF CallInv, Made, At, Retries
<1>13. AnsweredInv'
  BY <1>4, <1>5, <1>6 DEF AnsweredInv, Answered, Current, At, Done
<1>14. \A d \in Call : Executed(d)' = Executed(d)
  BY <1>5 DEF Executed
<1>15. HappenedInv'
  BY <1>4, <1>8, <1>9, <1>14 DEF HappenedInv, Made, At, Done
<1>16. RefusedInv'
  BY <1>4, <1>8, <1>9, <1>14 DEF RefusedInv, Made, At, Done
<1>17. SentOnce'
  BY <1>5 DEF SentOnce
<1> QED
  BY <1>10, <1>11, <1>12, <1>13, <1>15, <1>16, <1>17

LEMMA SendKeeps ==
  ASSUME IInv, NEW c \in Call, Send(c)
  PROVE  IInv'
<1> USE DEF IInv
<1> DEFINE k == [calls[c] EXCEPT !.step = "waiting"]
           new == [call |-> c, attempt |-> calls[c].attempt, image |-> Payload(c)]
<1>1. /\ At(c, "ready") /\ Made(c) /\ calls[c] \in CallState
      /\ calls' = [calls EXCEPT ![c] = k] /\ sent' = sent \cup {new}
      /\ UNCHANGED <<processed, executed, subjects, file>>
  BY DEF Send, At, Made, TypeOK
<1>2. k \in CallState /\ k # None
  BY <1>1, NoneAssumption DEF CallState
<1>3. /\ calls' \in [Call -> CallState \cup {None}]
      /\ calls'[c] = k
      /\ \A d \in Call : d # c => calls'[d] = calls[d]
  BY <1>1, <1>2, Replace
<1>4. /\ k.step = "waiting" /\ k.attempt = calls[c].attempt
      /\ k.sdk = calls[c].sdk /\ k.op = calls[c].op /\ k.lazy = calls[c].lazy
      /\ k.maxRetries = calls[c].maxRetries
      /\ k.image = calls[c].image /\ k.reply = None /\ k.outcome = None
  BY <1>1 DEF CallState, CallInv, At
<1>5. /\ new \in Request /\ new.call = c /\ new.attempt = calls[c].attempt
      /\ ~calls[c].lazy => new.image = calls[c].image
  BY <1>1 DEF Request, CallState, Payload, TypeOK
<1>6. calls[c].attempt \in Nat /\ \A q \in sent : q.call \in Call /\ q.attempt \in Nat
  BY <1>1, RetryAssumption DEF CallState, TypeOK, Request
<1> HIDE DEF k, new
<1>7. TypeOK'
  BY <1>1, <1>3, <1>5 DEF TypeOK
<1>8. SentInv'
  <2> SUFFICES ASSUME NEW q \in sent'
               PROVE  /\ Made(q.call)'
                      /\ q.attempt <= calls'[q.call].attempt
                      /\ At(q.call, "ready")' => q.attempt < calls'[q.call].attempt
                      /\ ~calls'[q.call].lazy => q.image = calls'[q.call].image
    BY DEF SentInv
  <2>1. CASE q = new
    BY <2>1, <1>2, <1>3, <1>4, <1>5, <1>6 DEF Made, At
  <2>2. CASE q \in sent
    BY <2>2, <1>1, <1>2, <1>3, <1>4, <1>6 DEF SentInv, Made, At
  <2> QED
    BY <2>1, <2>2, <1>1
<1>9. CallInv'
  BY <1>1, <1>2, <1>3, <1>4 DEF CallInv, Made, At, Retries
<1>10. AnsweredInv'
  <2> SUFFICES ASSUME NEW q \in sent', Answered(q.call)', Current(q)'
               PROVE  q \in processed
    BY <1>1 DEF AnsweredInv
  <2>1. q.call # c
    BY <1>3, <1>4 DEF Answered, At, Done
  <2> QED
    BY <2>1, <1>1, <1>3, <1>5, <1>6 DEF AnsweredInv, Answered, Current, At, Done
<1>11. \A d \in Call : Executed(d)' = Executed(d)
  BY <1>1 DEF Executed
<1>12. None \notin Success /\ "refused" # None
  BY NoneAssumption DEF Answer
<1>13. HappenedInv'
  BY <1>3, <1>4, <1>11, <1>12 DEF HappenedInv, Made, At, Done
<1>14. RefusedInv'
  BY <1>3, <1>4, <1>11, <1>12 DEF RefusedInv, Made, At, Done
<1>15. SentOnce'
  <2>1. \A q \in sent : q.call = c => q.attempt < new.attempt
    BY <1>1, <1>5 DEF SentInv
  <2> QED
    BY <2>1, <1>1, <1>5, <1>6 DEF SentOnce
<1> QED
  BY <1>7, <1>8, <1>9, <1>10, <1>13, <1>14, <1>15

\* An answer to the call's present attempt.
LEMMA SettleKeeps ==
  ASSUME IInv, NEW c \in Call, NEW answer \in Answer, At(c, "waiting"),
         answer \in {calls[c].reply, "lost", "truncated"},
         Retry(c, answer) \/ Finish(c, answer),
         UNCHANGED <<sent, processed, executed, subjects, file>>
  PROVE  IInv'
<1>1. Made(c) /\ calls[c] \in CallState
  BY DEF IInv, At, Made, TypeOK
<1>2. calls[c].attempt \in Nat /\ Retries(calls[c]) \in Nat
  BY <1>1, RetriesBound, RetryAssumption DEF CallState
<1>3. calls[c].outcome = None /\ calls[c].attempt <= Retries(calls[c])
  BY <1>1 DEF IInv, CallInv, At
<1>4. CASE Retry(c, answer)
  <2> DEFINE k == [calls[c] EXCEPT !.step = "sleeping", !.reply = None]
  <2>1. /\ calls' = [calls EXCEPT ![c] = k]
        /\ calls[c].attempt < Retries(calls[c])
    BY <1>4 DEF Retry
  <2>2. k \in CallState
    BY <1>1 DEF CallState
  <2>3. /\ k.sdk = calls[c].sdk /\ k.op = calls[c].op /\ k.lazy = calls[c].lazy
        /\ k.maxRetries = calls[c].maxRetries
        /\ k.image = calls[c].image /\ k.reply = None /\ k.step = "sleeping"
        /\ k.attempt = calls[c].attempt /\ k.outcome = None
    BY <1>1, <1>3 DEF CallState
  <2>4. Retries(k) = Retries(calls[c])
    BY <2>3 DEF Retries
  <2>5. None \notin Outcome
    BY NoneAssumption
  <2> HIDE DEF k
  <2>6. Moves(calls[c], k)
    BY <1>2, <1>3, <2>1, <2>3, <2>4, <2>5 DEF Moves, Outcome
  <2> QED
    BY <1>1, <2>1, <2>2, <2>6, ClientMoves
<1>5. CASE Finish(c, answer)
  <2> DEFINE v == Verdict(calls[c], answer)
             k == [calls[c] EXCEPT !.step = "done", !.reply = None, !.outcome = v]
  <2>1. calls' = [calls EXCEPT ![c] = k]
    BY <1>5 DEF Finish
  <2>2. /\ v \in Outcome
        /\ v \in {"ok", "invalid"} => answer \in Success
        /\ v = "refused" => answer = "refused"
    BY <1>1, VerdictTells
  <2> HIDE DEF v
  <2>3. k \in CallState
    BY <1>1, <2>2 DEF CallState
  <2>4. /\ k.sdk = calls[c].sdk /\ k.op = calls[c].op /\ k.lazy = calls[c].lazy
        /\ k.maxRetries = calls[c].maxRetries
        /\ k.image = calls[c].image /\ k.reply = None /\ k.step = "done"
        /\ k.attempt = calls[c].attempt /\ k.outcome = v
    BY <1>1 DEF CallState
  <2>5. Retries(k) = Retries(calls[c])
    BY <2>4 DEF Retries
  <2>6. /\ v \in {"ok", "invalid"} => calls[c].reply \in Success
        /\ v = "refused" => calls[c].reply = "refused"
    BY <2>2 DEF Success
  <2> HIDE DEF k
  <2>7. Moves(calls[c], k)
    BY <1>2, <1>3, <2>2, <2>4, <2>5, <2>6 DEF Moves, At
  <2> QED
    BY <1>1, <2>1, <2>3, <2>7, ClientMoves
<1> QED
  BY <1>4, <1>5

LEMMA ReceiveKeeps ==
  ASSUME IInv, NEW c \in Call, Receive(c)
  PROVE  IInv'
<1>1. PICK answer \in {calls[c].reply, "truncated"} :
        Retry(c, answer) \/ Finish(c, answer)
  BY DEF Receive
<1>2. /\ At(c, "waiting") /\ calls[c].reply \in Answer
      /\ UNCHANGED <<sent, processed, executed, subjects, file>>
  BY DEF Receive, IInv, TypeOK, At, CallState
<1> QED
  BY <1>1, <1>2, SettleKeeps DEF Answer

LEMMA TimeoutKeeps ==
  ASSUME IInv, NEW c \in Call, Timeout(c)
  PROVE  IInv'
BY SettleKeeps DEF Timeout, Answer

LEMMA WakeKeeps ==
  ASSUME IInv, NEW c \in Call, Wake(c)
  PROVE  IInv'
<1> DEFINE k == [calls[c] EXCEPT !.step = "ready", !.attempt = @ + 1]
<1>1. /\ Made(c) /\ At(c, "sleeping") /\ calls[c] \in CallState
      /\ calls' = [calls EXCEPT ![c] = k]
      /\ UNCHANGED <<sent, processed, executed, subjects, file>>
  BY DEF Wake, IInv, At, Made, TypeOK
<1>2. /\ calls[c].attempt \in Nat /\ Retries(calls[c]) \in 0..MaxRetries
      /\ calls[c].attempt < Retries(calls[c])
      /\ calls[c].outcome = None /\ calls[c].reply = None
  BY <1>1, RetriesBound, RetryAssumption DEF IInv, CallInv, CallState, At
<1>3. k \in CallState
  <2>1. calls[c].attempt + 1 \in 0..MaxRetries
    BY <1>2, RetryAssumption
  <2> QED
    BY <1>1, <2>1 DEF CallState
<1>4. /\ k.sdk = calls[c].sdk /\ k.op = calls[c].op /\ k.lazy = calls[c].lazy
      /\ k.maxRetries = calls[c].maxRetries
      /\ k.image = calls[c].image /\ k.reply = None /\ k.step = "ready"
      /\ k.attempt = calls[c].attempt + 1 /\ k.outcome = None
  BY <1>1, <1>2 DEF CallState
<1>5. Retries(k) = Retries(calls[c])
  BY <1>4 DEF Retries
<1>6. None \notin Outcome
  BY NoneAssumption
<1> HIDE DEF k
<1>7. k.attempt >= calls[c].attempt /\ k.attempt <= Retries(k)
  BY <1>2, <1>4, <1>5, RetryAssumption
<1>8. Moves(calls[c], k)
  BY <1>2, <1>4, <1>6, <1>7 DEF Moves, Outcome
<1> QED
  BY <1>1, <1>3, <1>8, ClientMoves

LEMMA CancelKeeps ==
  ASSUME IInv, NEW c \in Call, Cancel(c)
  PROVE  IInv'
<1> DEFINE k == [calls[c] EXCEPT !.step = "done", !.reply = None,
                                 !.outcome = "cancelled"]
<1>1. /\ Made(c) /\ calls[c] \in CallState
      /\ calls' = [calls EXCEPT ![c] = k]
      /\ UNCHANGED <<sent, processed, executed, subjects, file>>
  BY DEF Cancel, IInv, At, Made, TypeOK
<1>2. calls[c].attempt \in Nat /\ calls[c].attempt <= Retries(calls[c])
  BY <1>1, RetryAssumption DEF IInv, CallInv, CallState
<1>3. k \in CallState
  BY <1>1 DEF CallState, Outcome
<1>4. /\ k.sdk = calls[c].sdk /\ k.op = calls[c].op /\ k.lazy = calls[c].lazy
      /\ k.maxRetries = calls[c].maxRetries
      /\ k.image = calls[c].image /\ k.reply = None /\ k.step = "done"
      /\ k.attempt = calls[c].attempt /\ k.outcome = "cancelled"
  BY <1>1 DEF CallState
<1>5. Retries(k) = Retries(calls[c])
  BY <1>4 DEF Retries
<1> HIDE DEF k
<1>6. Moves(calls[c], k)
  BY <1>2, <1>4, <1>5 DEF Moves
<1> QED
  BY <1>1, <1>3, <1>6, ClientMoves

-----------------------------------------------------------------------------
(* The backend.                                                            *)

LEMMA ProcessKeeps ==
  ASSUME IInv, NEW q \in sent, Process(q)
  PROVE  IInv'
<1> USE DEF IInv
<1> DEFINE c == q.call
           heard == At(c, "waiting") /\ calls[c].attempt = q.attempt
<1>1. /\ c \in Call /\ q \in Request /\ q \notin processed
      /\ processed' = processed \cup {q} /\ UNCHANGED <<sent, file>>
  BY DEF Process, TypeOK, Request
<1>2. Made(c) /\ calls[c] \in CallState /\ calls[c] # None
  BY <1>1 DEF SentInv, Made, TypeOK
<1>3. PICK answer \in Answer :
        /\ Reply(q, answer)
        /\ \/ /\ answer \in Success \cup {"transient"}
              /\ Execute(q, calls[c])
           \/ /\ answer \in {"refused", "transient"}
              /\ UNCHANGED <<executed, subjects>>
  BY DEF Process, Answer
<1> DEFINE k == IF heard THEN [calls[c] EXCEPT !.reply = answer] ELSE calls[c]
<1>4. k \in CallState /\ k # None
  BY <1>2, NoneAssumption DEF CallState
<1>5. calls' = [calls EXCEPT ![c] = k]
  BY <1>1, <1>2, <1>3 DEF Reply, TypeOK
<1>6. /\ calls' \in [Call -> CallState \cup {None}]
      /\ calls'[c] = k
      /\ \A d \in Call : d # c => calls'[d] = calls[d]
  BY <1>1, <1>4, <1>5, Replace
<1>7. /\ k.step = calls[c].step /\ k.attempt = calls[c].attempt
      /\ k.sdk = calls[c].sdk /\ k.op = calls[c].op /\ k.lazy = calls[c].lazy
      /\ k.maxRetries = calls[c].maxRetries
      /\ k.image = calls[c].image /\ k.outcome = calls[c].outcome
      /\ k.subject = calls[c].subject
      /\ k.reply = IF heard THEN answer ELSE calls[c].reply
  BY <1>2 DEF CallState
<1> HIDE DEF k
<1>8. /\ executed' \in {executed, executed \cup {q}}
      /\ answer \in Success => q \in executed'
      /\ answer = "refused" => executed' = executed
  BY <1>3 DEF Execute, Success
<1>9. TypeOK'
  <2>1. subjects' \subseteq Subject
    BY <1>2, <1>3 DEF Execute, TypeOK, CallState
  <2> QED
    BY <2>1, <1>1, <1>6, <1>4, <1>8 DEF TypeOK
<1>10. \A p \in sent : p.call \in Call
  BY DEF TypeOK, Request
<1>11. SentInv'
  BY <1>1, <1>4, <1>6, <1>7, <1>10 DEF SentInv, Made, At
<1>12. CallInv'
  BY <1>1, <1>2, <1>4, <1>6, <1>7 DEF CallInv, Made, At, Retries
<1>13. AnsweredInv'
  <2> SUFFICES ASSUME NEW p \in sent, Answered(p.call)', Current(p)', p # q
               PROVE  p \in processed
    BY <1>1 DEF AnsweredInv
  <2>1. CASE p.call # c
    BY <2>1, <1>6, <1>10 DEF AnsweredInv, Answered, At, Done, Current
  <2>2. CASE p.call = c /\ ~heard
    BY <2>2, <1>2, <1>6, <1>7 DEF AnsweredInv, Answered, At, Done, Current
  <2>3. CASE p.call = c /\ heard
    <3>1. p.attempt = q.attempt
      BY <2>3, <1>6, <1>7 DEF Current
    <3> QED
      BY <3>1, <2>3 DEF SentOnce
  <2> QED
    BY <2>1, <2>2, <2>3
<1>14. \A d \in Call : /\ Executed(d) \subseteq Executed(d)'
                       /\ d # c => Executed(d)' = Executed(d)
  BY <1>8 DEF Executed
<1>15. None \notin Success /\ "refused" # None /\ "refused" \notin Success
  BY NoneAssumption DEF Answer, Success
<1>16. HappenedInv'
  <2> SUFFICES ASSUME NEW d \in Call, Made(d)', calls'[d].op \in Writes,
                      \/ At(d, "waiting")' /\ calls'[d].reply \in Success
                      \/ Done(d, {"ok", "invalid"})'
               PROVE  Executed(d)' # {}
    BY DEF HappenedInv
  <2>1. CASE d # c
    BY <2>1, <1>6, <1>14 DEF HappenedInv, Made, At, Done
  <2>2. CASE d = c /\ heard /\ answer \in Success
    BY <2>2, <1>8 DEF Executed
  <2>3. CASE d = c /\ ~(heard /\ answer \in Success)
    <3>1. \/ At(c, "waiting") /\ calls[c].reply \in Success
          \/ Done(c, {"ok", "invalid"})
      BY <2>3, <1>2, <1>6, <1>7 DEF At, Done
    <3> QED
      BY <3>1, <2>3, <1>2, <1>6, <1>7, <1>14 DEF HappenedInv
  <2> QED
    BY <2>1, <2>2, <2>3
<1>17. RefusedInv'
  <2> SUFFICES ASSUME NEW d \in Call, Made(d)', calls'[d].op \in {"create", "add"},
                      \/ At(d, "waiting")' /\ calls'[d].reply = "refused"
                      \/ Done(d, {"refused"})'
               PROVE  Executed(d)' = {}
    BY DEF RefusedInv
  <2>1. CASE d # c
    BY <2>1, <1>6, <1>14 DEF RefusedInv, Made, At, Done
  <2>2. CASE d = c
    \* The only request of this call is q, which has just been refused: had it
    \* been refused before, q would be processed.
    <3>1. calls[c].op \in {"create", "add"} /\ Retries(calls[c]) = 0
      BY <2>2, <1>2, <1>6, <1>7, SingleAttempt
    <3>2. q.attempt = 0 /\ calls[c].attempt = 0
      BY <3>1, <1>1, <1>2, RetryAssumption DEF SentInv, CallInv, Request, CallState
    <3>3. \A p \in sent : p.call = c => p = q
      <4> SUFFICES ASSUME NEW p \in sent, p.call = c  PROVE p.attempt = 0
        BY <3>2 DEF SentOnce
      <4> QED
        BY <3>2, RetryAssumption DEF SentInv, TypeOK, Request
    <3>4. ~Answered(c)
      BY <3>2, <1>1 DEF AnsweredInv, Current
    <3>5. answer = "refused"
      BY <3>4, <2>2, <1>2, <1>6, <1>7, <1>15 DEF Answered, At, Done
    <3>6. Executed(c) \subseteq {q} /\ q \notin executed
      BY <3>3, <1>1 DEF Executed, TypeOK
    <3> QED
      BY <3>5, <3>6, <1>8, <2>2 DEF Executed
  <2> QED
    BY <2>1, <2>2
<1>18. SentOnce'
  BY <1>1 DEF SentOnce
<1> QED
  BY <1>9, <1>11, <1>12, <1>13, <1>16, <1>17, <1>18

LEMMA EditKeeps ==
  ASSUME IInv, Edit
  PROVE  IInv'
<1>1. /\ UNCHANGED <<calls, sent, processed, executed, subjects>>
      /\ file' \in 0..MaxEdits
  BY RetryAssumption DEF Edit, IInv, TypeOK
<1> QED
  BY <1>1 DEF IInv, TypeOK, SentInv, SentOnce, CallInv, AnsweredInv, HappenedInv,
    RefusedInv, Made, At, Done, Answered, Current, Executed, Retries

LEMMA ElsewhereKeeps ==
  ASSUME IInv, NEW s \in Subject, Elsewhere(s)
  PROVE  IInv'
<1>1. /\ UNCHANGED <<calls, sent, processed, executed, file>>
      /\ subjects' \subseteq Subject
  BY DEF Elsewhere, IInv, TypeOK
<1> QED
  BY <1>1 DEF IInv, TypeOK, SentInv, SentOnce, CallInv, AnsweredInv, HappenedInv,
    RefusedInv, Made, At, Done, Answered, Current, Executed, Retries

LEMMA StutterKeeps ==
  ASSUME IInv, UNCHANGED vars
  PROVE  IInv'
BY DEF vars, IInv, TypeOK, SentInv, SentOnce, CallInv, AnsweredInv, HappenedInv,
  RefusedInv, Made, At, Done, Answered, Current, Executed, Retries

LEMMA NextKeeps ==
  ASSUME IInv, [Next]_vars
  PROVE  IInv'
<1>1. CASE \E c \in Call : ClientStep(c)
  BY <1>1, SendKeeps, ReceiveKeeps, TimeoutKeeps, WakeKeeps, CancelKeeps
     DEF ClientStep
<1>2. CASE \E c \in Call : \E sdk \in Sdk, op \in Operation, s \in Subject :
             Start(c, sdk, op, s)
  BY <1>2, StartKeeps
<1>3. CASE \E q \in sent : Process(q)
  BY <1>3, ProcessKeeps
<1>4. CASE Edit
  BY <1>4, EditKeeps
<1>5. CASE \E s \in Subject : Elsewhere(s)
  BY <1>5, ElsewhereKeeps
<1>6. CASE UNCHANGED vars
  BY <1>6, StutterKeeps
<1> QED
  BY <1>1, <1>2, <1>3, <1>4, <1>5, <1>6 DEF Next

LEMMA Inductive == Spec => []IInv
<1>1. Init => IInv
  BY InitOK
<1>2. IInv /\ [Next]_vars => IInv'
  BY NextKeeps
<1> QED
  BY <1>1, <1>2, PTL DEF Spec

-----------------------------------------------------------------------------
(* The theorems.                                                           *)

\* The variables of the SDK calls and of the backend keep their types.
THEOREM ClientTypes == Spec => []TypeOK
<1>1. IInv => TypeOK
  BY DEF IInv
<1> QED
  BY <1>1, Inductive, PTL

\* A call that creates a subject or adds a face has one attempt, and an attempt
\* sends one request: whatever is lost or late, it happens at most once.
THEOREM WritesOnce == Spec => []AtMostOnce
<1>1. IInv => AtMostOnce
  <2> SUFFICES ASSUME IInv, NEW c \in Call, Made(c),
                      calls[c].op \in {"create", "add"},
                      NEW p \in Executed(c), NEW q \in Executed(c)
               PROVE  p = q
    BY DEF AtMostOnce, Made
  <2>1. p \in sent /\ q \in sent /\ p.call = c /\ q.call = c
    BY DEF Executed, IInv, TypeOK
  <2>2. calls[c] \in CallState
    BY DEF IInv, TypeOK, Made
  <2>3. calls[c].attempt = 0
    BY <2>2, SingleAttempt, RetryAssumption DEF IInv, CallInv, CallState
  <2>4. p.attempt = 0 /\ q.attempt = 0
    BY <2>1, <2>3, RetryAssumption DEF IInv, SentInv, TypeOK, Request
  <2> QED
    BY <2>1, <2>4 DEF IInv, SentOnce
<1> QED
  BY <1>1, Inductive, PTL

\* The result of a write tells the truth about the backend.
THEOREM TruthfulAnswers == Spec => []AnswersAreTrue
<1>1. IInv => AnswersAreTrue
  <2> SUFFICES ASSUME IInv, NEW c \in Call, Made(c), calls[c].op \in Writes
               PROVE  /\ Done(c, {"ok", "invalid"}) => Executed(c) # {}
                      /\ Done(c, {"refused"}) /\ calls[c].op # "delete" =>
                           Executed(c) = {}
    BY DEF AnswersAreTrue, Made
  <2> QED
    BY DEF IInv, HappenedInv, RefusedInv, Writes
<1> QED
  BY <1>1, Inductive, PTL

\* A definite answer to a call with one attempt leaves no request under way.
THEOREM AnswersSettle == Spec => []NothingLeftBehind
<1>1. IInv => NothingLeftBehind
  <2> SUFFICES ASSUME IInv, NEW c \in Call,
                      Done(c, {"ok", "invalid", "refused"}),
                      calls[c].op \in {"create", "add"} \/ calls[c].maxRetries = 0,
                      NEW q \in sent, q.call = c
               PROVE  q \in processed
    BY DEF NothingLeftBehind
  <2>1. Made(c) /\ calls[c] \in CallState
    BY DEF Done, At, Made, IInv, TypeOK
  <2>2. Retries(calls[c]) = 0
    BY <2>1, SingleAttempt DEF Retries
  <2>3. calls[c].attempt = 0 /\ q.attempt = 0
    BY <2>1, <2>2, RetryAssumption
       DEF IInv, CallInv, CallState, SentInv, TypeOK, Request
  <2> QED
    BY <2>3 DEF IInv, AnsweredInv, Answered, Current
<1> QED
  BY <1>1, Inductive, PTL

\* All attempts of a call carry the image it was called with, unless the Java
\* client was given a file.
THEOREM ImageKept == Spec => []BufferedImage
<1>1. IInv => BufferedImage
  <2> SUFFICES ASSUME IInv, NEW c \in Call, Made(c), ~calls[c].lazy,
                      NEW p \in sent, NEW q \in sent, p.call = c, q.call = c
               PROVE  p.image = q.image
    BY DEF BufferedImage, OneImage, Made
  <2> QED
    BY DEF IInv, SentInv
<1> QED
  BY <1>1, Inductive, PTL

\* Every SDK repeats what is neither of these.
LEMMA Repeated ==
  ASSUME NEW op \in Reads \cup Writes, op \notin {"create", "add"},
         NEW sdk \in SdkName
  PROVE  Safe(op)[sdk]
<1>1. \/ Method[op] \in {"GET", "DELETE"}
      \/ Endpoint[op] \in RepeatablePosts /\ op \in {"detect", "verify", "recognize"}
  BY DEF Method, RepeatablePosts, Reads, Writes
<1>2. op \in {"detect", "verify", "recognize"} =>
        Endpoint[op][Len(Endpoint[op])] \in {"detect", "verify", "recognize"}
  <2>1. op \in {"detect", "verify", "recognize"} =>
          \E service \in {"detection", "verification", "recognition"} :
            Endpoint[op] = <<service, op>>
    BY DEF Endpoint
  <2>2. \A service \in {"detection", "verification", "recognition"} :
          Len(<<service, op>>) = 2 /\ <<service, op>>[2] = op
    OBVIOUS
  <2> QED
    BY <2>1, <2>2
<1>3. PythonSafe(op) /\ GoSafe(op) /\ JavaSafe(op) /\ NodeSafe(op)
  BY <1>1, <1>2 DEF PythonSafe, GoSafe, JavaSafe, NodeSafe
<1> QED
  BY <1>3 DEF Safe, SdkName

\* Whatever is neither a response to act on nor a refusal is tried again.
LEMMA FailureRetried ==
  ASSUME NEW k \in CallState, NEW answer \in Answer, k.sdk # "go",
         Verdict(k, answer) = "failed"
  PROVE  answer \in Retried[k.sdk]
<1>1. answer \notin Success
  <2>1. answer \in Success =>
          answer \in Accepted(k.op)[k.sdk] \/ answer \in Success \ Accepted(k.op)[k.sdk]
    OBVIOUS
  <2> QED
    BY <2>1 DEF Verdict
<1>2. answer # "refused"
  BY DEF Verdict
<1>3. k.sdk \in {"python", "async", "java", "node"}
  BY SdkAssumption DEF CallState, SdkName
<1> QED
  BY <1>1, <1>2, <1>3
     DEF Answer, Retried, PythonRetried, AsyncRetried, JavaRetried, NodeRetried

LEMMA FinishKeepsRetries ==
  ASSUME IInv, RetriesExhausted, NEW c \in Call, NEW answer \in Answer,
         At(c, "waiting"), Finish(c, answer)
  PROVE  RetriesExhausted'
<1> USE DEF IInv
<1>1. Made(c) /\ calls[c] \in CallState
  BY DEF At, Made, TypeOK
<1> DEFINE k == [calls[c] EXCEPT !.step = "done", !.reply = None,
                                !.outcome = Verdict(calls[c], answer)]
<1>2. k \in CallState
  BY <1>1, VerdictTells DEF CallState
<1>3. calls' = [calls EXCEPT ![c] = k]
  BY DEF Finish
<1>4. calls'[c] = k /\ \A d \in Call : d # c => calls'[d] = calls[d]
  BY <1>2, <1>3, Replace
<1>5. /\ k.outcome = Verdict(calls[c], answer) /\ k.sdk = calls[c].sdk
      /\ k.op = calls[c].op /\ k.attempt = calls[c].attempt
      /\ k.maxRetries = calls[c].maxRetries
  BY <1>1 DEF CallState
<1> SUFFICES ASSUME NEW d \in Call, calls'[d].sdk # "go", Done(d, {"failed"})',
                    calls'[d].op \notin {"create", "add"}, calls'[d] # None
             PROVE  calls'[d].attempt = calls'[d].maxRetries
  BY DEF RetriesExhausted, FailsLast
<1>6. CASE d # c
  BY <1>6, <1>4 DEF RetriesExhausted, FailsLast, Done, At
<1>7. CASE d = c
  <2>1. answer \in Retried[calls[c].sdk]
    BY <1>7, <1>1, <1>4, <1>5, FailureRetried DEF Done
  <2>2. Retries(calls[c]) = calls[c].maxRetries
    BY <1>7, <1>1, <1>4, <1>5, Repeated, SdkAssumption DEF Retries, CallState
  <2>3. calls[c].attempt <= calls[c].maxRetries /\ ~(calls[c].attempt < calls[c].maxRetries)
    BY <2>1, <2>2, <1>1 DEF Finish, CallInv
  <2>4. calls[c].attempt \in Nat /\ calls[c].maxRetries \in Nat
    BY <1>1, RetryAssumption DEF CallState
  <2> QED
    BY <2>3, <2>4, <1>7, <1>4, <1>5, RetryAssumption
<1> QED
  BY <1>6, <1>7

LEMMA NextKeepsRetries ==
  ASSUME IInv, RetriesExhausted, [Next]_vars
  PROVE  RetriesExhausted'
<1> USE DEF RetriesExhausted, FailsLast, Done, At
<1>1. calls \in [Call -> CallState \cup {None}]
  BY DEF IInv, TypeOK
\* A step that leaves no other call in another outcome than it had.
<1>2. ASSUME NEW c \in Call, NEW k,
             calls' = [calls EXCEPT ![c] = k], k.step # "done" \/ k.outcome # "failed"
      PROVE  RetriesExhausted'
  BY <1>1, <1>2
<1>3. ASSUME NEW c \in Call, NEW answer \in Answer, At(c, "waiting"),
             Retry(c, answer) \/ Finish(c, answer)
      PROVE  RetriesExhausted'
  <2>1. calls[c] \in CallState
    BY <1>3 DEF IInv, TypeOK
  <2>2. CASE Retry(c, answer)
    <3>1. [calls[c] EXCEPT !.step = "sleeping", !.reply = None].step = "sleeping"
      BY <2>1 DEF CallState
    <3>2. calls' = [calls EXCEPT ![c] = [calls[c] EXCEPT !.step = "sleeping", !.reply = None]]
      BY <1>1, <2>2 DEF Retry
    <3> QED
      BY <3>1, <3>2, <1>2
  <2> QED
    BY <2>2, <1>3, FinishKeepsRetries
<1>4. CASE \E c \in Call : \E sdk \in Sdk, op \in Operation, s \in Subject :
             Start(c, sdk, op, s)
  BY <1>4, <1>2 DEF Start
<1>5. ASSUME NEW c \in Call, Send(c) \/ Wake(c)
      PROVE  RetriesExhausted'
  <2>1. calls[c] \in CallState
    BY <1>5 DEF IInv, TypeOK, Send, Wake
  <2>2. CASE Send(c)
    <3> DEFINE k == [calls[c] EXCEPT !.step = "waiting"]
    <3>1. k.step = "waiting" /\ calls' = [calls EXCEPT ![c] = k]
      BY <2>1, <2>2 DEF CallState, Send
    <3> QED
      BY <3>1, <1>2
  <2>3. CASE Wake(c)
    <3> DEFINE k == [calls[c] EXCEPT !.step = "ready", !.attempt = @ + 1]
    <3>1. k.step = "ready" /\ calls' = [calls EXCEPT ![c] = k]
      BY <2>1, <2>3 DEF CallState, Wake
    <3> QED
      BY <3>1, <1>2
  <2> QED
    BY <2>2, <2>3, <1>5
<1>6. ASSUME NEW c \in Call, Receive(c) \/ Timeout(c)
      PROVE  RetriesExhausted'
  <2>1. calls[c].reply \in Answer \/ calls[c].reply = None
    BY <1>6 DEF Receive, Timeout, IInv, TypeOK, CallState
  <2> QED
    BY <2>1, <1>6, <1>3 DEF Receive, Timeout, Answer
<1>7. ASSUME NEW c \in Call, Cancel(c)
      PROVE  RetriesExhausted'
  <2>1. calls[c] \in CallState
    BY <1>7 DEF IInv, TypeOK, Cancel
  <2> DEFINE k == [calls[c] EXCEPT !.step = "done", !.reply = None,
                                  !.outcome = "cancelled"]
  <2>2. k.outcome = "cancelled" /\ calls' = [calls EXCEPT ![c] = k]
    BY <2>1, <1>7 DEF CallState, Cancel
  <2> QED
    BY <2>2, <1>2
<1>8. ASSUME NEW q \in sent, Process(q)
      PROVE  RetriesExhausted'
  <2>1. PICK answer : Reply(q, answer)
    BY <1>8 DEF Process
  <2>2. CASE UNCHANGED calls
    BY <2>2
  <2>3. CASE At(q.call, "waiting") /\ calls' = [calls EXCEPT ![q.call].reply = answer]
    <3>1. q.call \in Call /\ calls[q.call] \in CallState
      BY <2>3 DEF IInv, TypeOK, Request
    <3>2. [calls[q.call] EXCEPT !.reply = answer].step = "waiting"
      BY <2>3, <3>1 DEF CallState
    <3> QED
      BY <2>3, <3>1, <3>2, <1>2
  <2> QED
    BY <2>1, <2>2, <2>3 DEF Reply
<1>9. CASE Edit \/ (\E s \in Subject : Elsewhere(s)) \/ UNCHANGED vars
  <2>1. UNCHANGED calls
    BY <1>9 DEF Edit, Elsewhere, vars
  <2> QED
    BY <2>1
<1> QED
  BY <1>4, <1>5, <1>6, <1>7, <1>8, <1>9 DEF Next, ClientStep

\* A repeatable call of the Python, Java and Node clients fails only in its
\* last attempt.
THEOREM AttemptsSpent == Spec => []RetriesExhausted
<1>1. Init => RetriesExhausted
  BY DEF Init, RetriesExhausted
<1>2. IInv /\ RetriesExhausted /\ [Next]_vars => RetriesExhausted'
  BY NextKeepsRetries
<1> QED
  BY <1>1, <1>2, Inductive, PTL DEF Spec
=============================================================================
