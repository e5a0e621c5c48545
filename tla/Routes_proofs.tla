---------------------------- MODULE Routes_proofs ----------------------------
(***************************************************************************)
(* Proofs about Requests and Routes for any names and identifiers.         *)
(***************************************************************************)
EXTENDS Routes, TLAPS

-----------------------------------------------------------------------------
(* What percent-encoding preserves.                                        *)

\* Decoding once gives back what was encoded once, also when the name has
\* reserved characters or looks encoded itself.
LEMMA DecodedOnce ==
  ASSUME NEW name, IsName(name)
  PROVE  unquote(quote(name)) = name
<1> DEFINE q == quote(name)
<1>1. DOMAIN q = DOMAIN name
  BY DEF quote
<1>2. DOMAIN unquote(q) = DOMAIN name
  BY <1>1 DEF unquote
<1>3. ASSUME NEW i \in DOMAIN name
      PROVE  unquote(q)[i] = name[i]
  <2>1. /\ name[i] \in [text : STRING, coded : Nat]
        /\ name[i].coded > 0 => name[i].text \in Reserved
    BY <1>3 DEF IsName, IsToken
  <2>2. unquote(q)[i] = IF q[i].coded > 0 THEN [q[i] EXCEPT !.coded = @ - 1] ELSE q[i]
    BY <1>1, <1>3 DEF unquote
  <2>3. CASE name[i].text \in Reserved
    <3>1. q[i] = [name[i] EXCEPT !.coded = @ + 1]
      BY <1>3, <2>3 DEF quote
    <3>2. q[i] = [text |-> name[i].text, coded |-> name[i].coded + 1]
      BY <3>1, <2>1
    <3>3. q[i].coded > 0 /\ q[i].coded - 1 = name[i].coded
      BY <3>2, <2>1
    <3>4. unquote(q)[i] = [text |-> name[i].text, coded |-> name[i].coded]
      BY <2>2, <3>2, <3>3
    <3> QED
      BY <2>1, <3>4
  <2>4. CASE name[i].text \notin Reserved
    <3>1. q[i] = name[i]
      BY <1>3, <2>4 DEF quote
    <3>2. name[i].coded = 0
      BY <2>1, <2>4
    <3> QED
      BY <2>2, <3>1, <3>2
  <2> QED
    BY <2>3, <2>4
<1>4. name = [i \in DOMAIN name |-> name[i]]
  BY DEF IsName
<1>5. unquote(q) = [i \in DOMAIN name |-> unquote(q)[i]]
  BY <1>1 DEF unquote
<1> QED
  BY <1>3, <1>4, <1>5

\* One token without an encoded character, and the empty path, stay as they are.
LEMMA Plain ==
  /\ unquote(<<>>) = <<>>
  /\ \A t : t.coded = 0 => unquote(<<t>>) = <<t>>
  /\ \A s, t : s.coded = 0 /\ t.coded = 0 => unquote(<<s, t>>) = <<s, t>>
  BY DEF unquote

\* A name the clients accept arrives as it is.
LEMMA SegmentArrives ==
  ASSUME NEW name, IsName(name), path_segment(name)
  PROVE  Segment(name) # <<>> /\ unquote(Segment(name)) = name
<1>1. unquote(quote(name)) = name
  BY DecodedOnce
<1>2. \A d \in Dots : unquote(d) = d
  BY Plain DEF Dots, Token
<1>3. quote(name) \notin Dots /\ quote(name) # <<>>
  BY <1>1, <1>2, Plain DEF path_segment
<1> QED
  BY <1>1, <1>3 DEF Segment, Resolved

-----------------------------------------------------------------------------
(* What each request is taken for.                                         *)

\* The request that travels is the one the call asks for.
Made ==
  \E op \in Op : \E n \in Named(op), body \in Bodies(op) :
    /\ call.op = op /\ call.name = n
    /\ request = Built(op, n, body)
    /\ op \in PathOps => path_segment(n)

\* What the backend would do, the gateway plans, and the caller asked for.
Agreed ==
  /\ Executed.removed # {} =>
       Deleting /\ Planned = Executed.removed /\ Asked = Executed.removed
  /\ Executed.added # {} => Executed.added = {call.name}
  /\ call.op \in PathOps => unquote(request.rest) = call.name

\* Requests that change no face.
LEMMA ReadsAgree ==
  ASSUME Made, call.op \in Op \ {"delete_subject", "add", "delete_face", "delete_faces",
                                 "delete_list", "rename"}
  PROVE  Agreed
<1>1. PICK n, body : request = Built(call.op, n, body)
  BY DEF Made
<1>2. call.op \notin PathOps
  BY DEF PathOps
<1>3. ~ Erases /\ ~ Enrols /\ ~ ErasesList
  BY <1>1 DEF Op, Built, Erases, Enrols, ErasesList, create_subject, list_subjects, recognize,
     detect, list_faces, verify_face, download, static_image, Request, Below, Token
<1>4. Executed = [added |-> {}, removed |-> {}]
  BY <1>3 DEF Executed, ErasesOne
<1> QED
  BY <1>2, <1>4 DEF Agreed

\* A face is added for the subject of the query.
LEMMA AddAgrees ==
  ASSUME Made, call.op = "add"
  PROVE  Agreed
<1>1. PICK body : request = add_face(call.name, body)
  BY DEF Made, Built
<1>2. ~ Erases /\ Enrols /\ ~ ErasesList
  BY <1>1 DEF Erases, Enrols, ErasesList, add_face, Request
<1>3. Executed = [added |-> {call.name}, removed |-> {}]
  BY <1>1, <1>2 DEF Executed, ErasesOne, add_face, Request
<1> QED
  BY <1>3 DEF Agreed, PathOps

\* A subject is renamed under the name the path carries.
LEMMA RenameAgrees ==
  ASSUME Made, call.op = "rename"
  PROVE  Agreed
<1>1. call.name \in Name /\ path_segment(call.name) /\ request = rename_subject(call.name)
  BY DEF Made, Built, Named, PathOps
<1>2. ~ Erases /\ ~ Enrols /\ ~ ErasesList
  BY <1>1 DEF Erases, Enrols, ErasesList, rename_subject, Request
<1>3. Executed = [added |-> {}, removed |-> {}]
  BY <1>2 DEF Executed, ErasesOne
<1>4. unquote(request.rest) = call.name
  BY <1>1, SegmentArrives, RoutesAssumption DEF rename_subject, Request
<1> QED
  BY <1>3, <1>4 DEF Agreed

\* The subject of a deletion reaches gateway and backend as it was named.
LEMMA DeleteSubjectAgrees ==
  ASSUME Made, call.op = "delete_subject"
  PROVE  Agreed
<1>1. call.name \in Name /\ path_segment(call.name) /\ request = delete_subject(call.name)
  BY DEF Made, Built, Named, PathOps
<1>2. /\ request.method = "DELETE" /\ request.base = "subjects"
      /\ request.rest = Segment(call.name)
  BY <1>1 DEF delete_subject, Request
<1>3. unquote(request.rest) = call.name
  BY <1>1, <1>2, SegmentArrives, RoutesAssumption
<1>4. Executed = [added |-> {}, removed |-> Listed(call.name)]
  BY <1>2, <1>3 DEF Executed, Erases, Enrols, ErasesOne, ErasesList
<1>5. Deleting
  BY <1>2 DEF Deleting, mutation, Adding, subject_delete
<1>6. Planned = Listed(call.name)
  BY <1>2, <1>3 DEF Planned, ById, face_delete, face_list, subject_delete, uri
<1>7. Asked = Listed(call.name)
  BY DEF Asked
<1> QED
  BY <1>3, <1>4, <1>5, <1>6, <1>7 DEF Agreed

\* A deletion of the faces of a subject, or of all.
LEMMA DeleteFacesAgrees ==
  ASSUME Made, call.op = "delete_faces"
  PROVE  Agreed
<1>1. request = delete_faces(call.name)
  BY DEF Made, Built
<1>2. /\ request.method = "DELETE" /\ request.base = "faces"
      /\ request.rest = <<>> /\ request.query = call.name
  BY <1>1 DEF delete_faces, Request
<1>3. uri = <<>>
  BY <1>2, Plain DEF uri
<1>4. Executed = [added |-> {}, removed |-> Listed(call.name)]
  BY <1>2 DEF Executed, Erases, Enrols, ErasesOne, ErasesList
<1>5. Deleting
  BY <1>2, <1>3 DEF Deleting, mutation, Adding, Collection
<1>6. ~ ById /\ ~ subject_delete
  BY <1>2, <1>3 DEF ById, face_delete, face_list, subject_delete, IsWord
<1>7. Planned = Listed(call.name)
  BY <1>2, <1>6 DEF Planned
<1>8. Asked = Listed(call.name)
  BY DEF Asked
<1> QED
  BY <1>4, <1>5, <1>7, <1>8 DEF Agreed, PathOps

\* A deletion of listed faces.
LEMMA DeleteListAgrees ==
  ASSUME Made, call.op = "delete_list"
  PROVE  Agreed
<1>1. PICK body : request = delete_list(body)
  BY DEF Made, Built
<1>2. /\ request.method = "POST" /\ request.base = "faces"
      /\ request.rest = <<Token("delete")>>
  BY <1>1 DEF delete_list, Request
<1>3. uri = <<Token("delete")>>
  BY <1>2, Plain DEF uri, Token
<1>4. Executed = [added |-> {}, removed |-> {Pictured}]
  BY <1>2 DEF Executed, Erases, Enrols, ErasesOne, ErasesList
<1>5. face_list /\ ~ Collection
  BY <1>2, <1>3 DEF face_list, Collection
<1>6. Deleting /\ Planned = {Pictured}
  BY <1>5 DEF Deleting, mutation, Adding, ById, Planned
<1>7. Asked = {Pictured}
  BY DEF Asked
<1> QED
  BY <1>4, <1>6, <1>7 DEF Agreed, PathOps

\* A deletion of one face, by an identifier the backend understands.
LEMMA DeleteFaceAgrees ==
  ASSUME Made, call.op = "delete_face", Understood
  PROVE  Agreed
<1>1. call.name \in Id /\ path_segment(call.name) /\ request = delete_face(call.name)
  BY DEF Made, Built, Named, PathOps
<1>2. /\ request.method = "DELETE" /\ request.base = "faces"
      /\ request.rest = Segment(call.name)
  BY <1>1 DEF delete_face, Request
<1>3. request.rest # <<>> /\ unquote(request.rest) = call.name
  BY <1>1, <1>2, SegmentArrives, RoutesAssumption
<1>4. Executed = [added |-> {}, removed |-> {Pictured}]
  BY <1>2, <1>3 DEF Executed, Erases, Enrols, ErasesOne, ErasesList
<1>5. PICK id \in JavaId : request.rest = <<id>>
  BY <1>2, <1>3 DEF Understood, ErasesOne, Erases
<1>6. uri = <<id>> /\ id # Token("/")
  BY <1>5, Plain DEF uri, JavaId, Canonical, Token
<1>7. face_delete /\ ~ Collection
  BY <1>2, <1>6 DEF face_delete, IsWord, Collection
<1>8. Deleting /\ Planned = {Pictured}
  BY <1>7 DEF Deleting, mutation, Adding, ById, Planned
<1>9. Asked = {Pictured}
  BY DEF Asked
<1> QED
  BY <1>3, <1>4, <1>8, <1>9 DEF Agreed

\* Whatever the backend understands, the gateway and the caller mean the same.
LEMMA AllAgree ==
  ASSUME Made, Understood
  PROVE  Agreed
<1>1. call.op \in Op
  BY DEF Made
<1> QED
  BY <1>1, ReadsAgree, AddAgrees, RenameAgrees, DeleteSubjectAgrees, DeleteFacesAgrees,
     DeleteListAgrees, DeleteFaceAgrees

\* A path carries the name it was built from.
LEMMA PathsArrive ==
  ASSUME Made, call.op \in PathOps
  PROVE  unquote(request.rest) = call.name
<1>1. path_segment(call.name) /\ IsName(call.name)
  BY RoutesAssumption DEF Made, PathOps, Named
<1>2. request.rest = Segment(call.name)
  BY DEF Made, PathOps, Built, delete_subject, delete_face, rename_subject, Request
<1> QED
  BY <1>1, <1>2, SegmentArrives

\* Requests that change a face are additions or deletions.
LEMMA EffectsAreWrites ==
  ASSUME Made, Understood, Executed # NoEffect
  PROVE  Adding \/ Deleting
<1>1. Agreed
  BY AllAgree
<1>2. Executed.removed # {} \/ Executed.added # {}
  BY DEF Executed, NoEffect
<1>3. CASE Executed.removed # {}
  BY <1>1, <1>3 DEF Agreed
<1>4. CASE Executed.added # {}
  <2>1. Enrols
    BY <1>4 DEF Executed
  <2>2. Collection /\ request.method = "POST"
    BY <2>1, Plain DEF Enrols, Collection, uri
  <2> QED
    BY <2>2 DEF Adding
<1> QED
  BY <1>2, <1>3, <1>4

\* What a request is taken for does not change on its way.
LEMMA SameRequest ==
  ASSUME UNCHANGED <<call, request>>
  PROVE  /\ Made' <=> Made
         /\ Adding' <=> Adding
         /\ Deleting' <=> Deleting
         /\ Planned' = Planned
         /\ Asked' = Asked
<1>1. uri' = uri
  BY DEF uri
<1>2. /\ Collection' <=> Collection
      /\ face_delete' <=> face_delete
      /\ face_list' <=> face_list
      /\ subject_delete' <=> subject_delete
  BY <1>1 DEF Collection, face_delete, face_list, subject_delete
<1>3. Adding' <=> Adding
  BY <1>2 DEF Adding
<1>4. Deleting' <=> Deleting
  BY <1>2, <1>3 DEF Deleting, mutation
<1>5. Planned' = Planned
  BY <1>1, <1>2 DEF Planned, ById, Listed
<1>6. Made' <=> Made
  BY DEF Made
<1>7. Asked' = Asked
  BY DEF Asked, Listed
<1> QED
  BY <1>3, <1>4, <1>5, <1>6, <1>7

-----------------------------------------------------------------------------
(* The journal against what happens.                                       *)

\* Steps before the backend has been asked.
Early == {"idle", "sent", "admitted", "forwarded"}

\* Before the backend is asked nothing has happened, and whatever could change
\* a face is planned in the journal.
Prepared ==
  /\ step \in Early => effect = NoEffect /\ answer = None
  /\ step \in {"idle", "sent", "admitted"} => journal = "clean"
  /\ step = "forwarded" =>
       /\ Adding \/ Deleting => journal = "intent"
       /\ Deleting => plan = Planned

\* What has happened is what was planned and asked for.
Effects ==
  /\ effect.removed # {} => effect.removed = plan /\ effect.removed = Asked
  /\ effect.added # {} => effect.added = {call.name}

\* Until the answer is settled, whatever happened is in the journal.
Unsettled ==
  step = "settling" =>
    /\ answer \in Answers
    /\ answer.status \in 300 .. 499 => effect = NoEffect
    /\ effect # NoEffect => journal = "intent"

Asking ==
  /\ step \in Step
  /\ step = "idle" => request = None
  /\ step \in Step \ {"idle", "over"} \/ request # None => Made

RInv == Asking /\ Prepared /\ Effects /\ Unsettled /\ AnswersAreHonest

\* Initially nothing has been asked.
LEMMA RoutesInit ==
  ASSUME Init
  PROVE  RInv
BY DEF Init, RInv, Asking, Prepared, Effects, Unsettled, AnswersAreHonest, Step, Early, NoEffect

\* A call sends its own request, or raises without sending anything.
LEMMA AskKeeps ==
  ASSUME RInv, NEW c \in Clients, NEW op \in OpsOf(c), NEW n \in Named(op),
         NEW body \in Bodies(op), NEW key, Ask(c, op, n, body, key)
  PROVE  RInv'
<1>1. /\ step = "idle" /\ request = None
      /\ journal = "clean" /\ effect = NoEffect /\ answer = None
  BY DEF Ask, RInv, Asking, Prepared, Early
<1>2. /\ call' = [client |-> c, op |-> op, name |-> n, key |-> key]
      /\ UNCHANGED <<plan, journal, effect>>
  BY DEF Ask
<1>3. \/ step' = "over" /\ UNCHANGED <<request, answer>>
      \/ /\ step' = "sent" /\ UNCHANGED answer
         /\ request' = Built(op, n, body)
         /\ op \in PathOps => path_segment(n)
  BY DEF Ask, Raise
<1>4. op \in Op
  BY DEF OpsOf, SdkOp, Op
<1>5. step' = "sent" => Made'
  BY <1>2, <1>3, <1>4 DEF Made
<1>6. Asking'
  BY <1>1, <1>3, <1>5 DEF Asking, Step
<1>7. Prepared' /\ Effects' /\ Unsettled' /\ AnswersAreHonest'
  BY <1>1, <1>2, <1>3 DEF Prepared, Effects, Unsettled, AnswersAreHonest, Early, NoEffect
<1> QED
  BY <1>6, <1>7 DEF RInv

\* A request answered before the backend was asked for it has changed nothing.
LEMMA RespondKeeps ==
  ASSUME RInv, step \in {"sent", "admitted"}, NEW status, Respond(status), Untouched
  PROVE  RInv'
<1>1. /\ step' = "answered" /\ UNCHANGED <<call, request, effect, plan, journal>>
  BY DEF Respond, Untouched
<1>2. effect = NoEffect /\ journal = "clean"
  BY DEF RInv, Prepared, Early
<1>3. Asking'
  BY <1>1, SameRequest DEF RInv, Asking, Step
<1>4. Effects'
  BY <1>1, SameRequest DEF RInv, Effects
<1>5. Prepared' /\ Unsettled' /\ AnswersAreHonest'
  BY <1>1, <1>2 DEF Prepared, Unsettled, AnswersAreHonest, Early
<1> QED
  BY <1>3, <1>4, <1>5 DEF RInv

\* A request is forwarded with its intent, or it is none that changes faces.
LEMMA ForwardKeeps ==
  ASSUME RInv, step \in {"sent", "admitted"}, Forward,
         Adding \/ Deleting => journal' = "intent",
         Deleting => plan' = Planned
  PROVE  RInv'
<1>1. step' = "forwarded" /\ UNCHANGED <<call, request, effect, answer>>
  BY DEF Forward
<1>2. effect = NoEffect /\ answer = None
  BY DEF RInv, Prepared, Early
<1>3. Asking'
  BY <1>1, SameRequest DEF RInv, Asking, Step
<1>4. Effects'
  BY <1>1, <1>2 DEF Effects, NoEffect
<1>5. Prepared'
  BY <1>1, <1>2, SameRequest DEF Prepared, Early
<1>6. Unsettled' /\ AnswersAreHonest'
  BY <1>1 DEF Unsettled, AnswersAreHonest
<1> QED
  BY <1>3, <1>4, <1>5, <1>6 DEF RInv

\* Every way of forwarding a request meets that condition.
LEMMA ForwardsKeep ==
  ASSUME RInv, PassOn \/ Proxy \/ BeginAdd \/ PlanDelete
  PROVE  RInv'
<1>1. ASSUME ~ mutation
      PROVE  ~ Adding /\ ~ Deleting
  BY <1>1 DEF mutation, Adding, Deleting
<1>2. CASE PassOn
  <2>1. Forward /\ step = "sent" /\ ~ mutation
    BY <1>2 DEF PassOn, Forward, Locked
  <2> QED
    BY <2>1, <1>1, ForwardKeeps
<1>3. CASE Proxy
  BY <1>3, <1>1, ForwardKeeps DEF Proxy, Serving
<1>4. CASE BeginAdd
  BY <1>4, ForwardKeeps DEF BeginAdd, Serving, Deleting
<1>5. CASE PlanDelete
  BY <1>5, ForwardKeeps DEF PlanDelete, Serving, Deleting
<1> QED
  BY <1>2, <1>3, <1>4, <1>5

\* The backend does what was planned, or nothing.
LEMMA BackendKeeps ==
  ASSUME RInv, Backend
  PROVE  RInv'
<1>1. /\ step = "forwarded" /\ step' = "settling"
      /\ UNCHANGED <<call, request, plan, journal>>
  BY DEF Backend
<1>2. Made /\ effect = NoEffect
  BY <1>1 DEF RInv, Asking, Prepared, Step, Early
<1>3. (Understood /\ effect' = Executed) \/ effect' = NoEffect
  BY <1>2 DEF Backend, Execute
<1>4. answer' \in Answers /\ (answer'.status \in 300 .. 499 => effect' = NoEffect)
  <2>1. CASE answer' = [status |-> 200, noface |-> FALSE]
    <3>1. answer'.status = 200
      BY <2>1
    <3>2. answer' \in Answers
      BY <2>1 DEF Answers, Statuses
    <3> QED
      BY <3>1, <3>2
  <2>2. CASE \E status \in {400, 401, 404, 429}, noface \in BOOLEAN :
               answer' = [status |-> status, noface |-> noface] /\ effect' = effect
    <3>1. PICK status \in {400, 401, 404, 429}, noface \in BOOLEAN :
            answer' = [status |-> status, noface |-> noface]
      BY <2>2
    <3>2. status \in Statuses
      BY DEF Statuses
    <3>3. answer' \in Answers
      BY <3>1, <3>2 DEF Answers
    <3> QED
      BY <3>3, <2>2, <1>2
  <2>3. CASE \E status \in {502, 503} : answer' = [status |-> status, noface |-> FALSE]
    <3>1. PICK status \in {502, 503} : answer' = [status |-> status, noface |-> FALSE]
      BY <2>3
    <3>2. answer'.status = status
      BY <3>1
    <3>3. answer' \in Answers
      BY <3>1 DEF Answers, Statuses
    <3> QED
      BY <3>2, <3>3
  <2> QED
    BY <2>1, <2>2, <2>3 DEF Backend
<1>5. effect' # NoEffect => Adding \/ Deleting
  BY <1>2, <1>3, EffectsAreWrites
<1>6. Unsettled'
  BY <1>1, <1>4, <1>5 DEF Unsettled, RInv, Prepared
<1>7. Effects'
  <2>1. CASE effect' = NoEffect
    BY <2>1 DEF Effects, NoEffect
  <2>2. CASE Understood /\ effect' = Executed
    <3>1. Agreed
      BY <2>2, <1>2, AllAgree
    <3>2. Deleting => plan = Planned
      BY <1>1 DEF RInv, Prepared
    <3> QED
      BY <2>2, <3>1, <3>2, <1>1, SameRequest DEF Effects, Agreed
  <2> QED
    BY <1>3, <2>1, <2>2
<1>8. Asking'
  BY <1>1, <1>2, SameRequest DEF Asking, Step
<1>9. Prepared' /\ AnswersAreHonest'
  BY <1>1 DEF Prepared, AnswersAreHonest, Early
<1> QED
  BY <1>6, <1>7, <1>8, <1>9 DEF RInv

\* A success or a refusal ends the operation in the journal.
LEMMA SettleKeeps ==
  ASSUME RInv, Settle
  PROVE  RInv'
<1>1. /\ step = "settling" /\ step' = "answered"
      /\ journal' = IF journal = "intent" /\ answer.status < 500 THEN "done" ELSE journal
      /\ UNCHANGED <<call, request, plan, effect, answer>>
  BY DEF Settle
<1>2. /\ answer.status \in Nat
      /\ answer.status \in 300 .. 499 => effect = NoEffect
      /\ effect # NoEffect => journal = "intent"
  BY <1>1 DEF RInv, Unsettled, Answers, Statuses
<1>3. AnswersAreHonest'
  BY <1>1, <1>2 DEF AnswersAreHonest
<1>4. Asking' /\ Effects'
  BY <1>1, SameRequest DEF RInv, Asking, Effects, Step
<1>5. Prepared' /\ Unsettled'
  BY <1>1 DEF Prepared, Unsettled, Early
<1> QED
  BY <1>3, <1>4, <1>5 DEF RInv

\* A success that cannot be read leaves the operation in the journal.
LEMMA AddUnreadableKeeps ==
  ASSUME RInv, AddUnreadable
  PROVE  RInv'
<1>1. /\ step = "settling" /\ step' = "answered"
      /\ answer' = [status |-> 503, noface |-> FALSE]
      /\ UNCHANGED <<call, request, plan, journal, effect>>
  BY DEF AddUnreadable, Respond, Untouched
<1>2. effect # NoEffect => journal = "intent"
  BY <1>1 DEF RInv, Unsettled
<1>3. AnswersAreHonest'
  BY <1>1, <1>2 DEF AnswersAreHonest
<1>4. Asking' /\ Effects'
  BY <1>1, SameRequest DEF RInv, Asking, Effects, Step
<1>5. Prepared' /\ Unsettled'
  BY <1>1 DEF Prepared, Unsettled, Early
<1> QED
  BY <1>3, <1>4, <1>5 DEF RInv

\* The client takes its answer.
LEMMA ReceiveKeeps ==
  ASSUME RInv, Receive
  PROVE  RInv'
<1>1. /\ step = "answered" /\ step' = "over"
      /\ UNCHANGED <<call, request, plan, journal, effect, answer>>
  BY DEF Receive
<1>2. Asking' /\ Effects'
  BY <1>1, SameRequest DEF RInv, Asking, Effects, Step
<1>3. Prepared' /\ Unsettled' /\ AnswersAreHonest'
  BY <1>1 DEF RInv, Prepared, Unsettled, AnswersAreHonest, Early
<1> QED
  BY <1>2, <1>3 DEF RInv

\* Admission only moves the request on.
LEMMA AdmitKeeps ==
  ASSUME RInv, Admit
  PROVE  RInv'
<1>1. /\ step = "sent" /\ step' = "admitted"
      /\ UNCHANGED <<call, request, plan, journal, effect, answer>>
  BY DEF Admit
<1>2. Asking' /\ Effects'
  BY <1>1, SameRequest DEF RInv, Asking, Effects, Step
<1>3. Prepared' /\ Unsettled' /\ AnswersAreHonest'
  BY <1>1 DEF RInv, Prepared, Unsettled, AnswersAreHonest, Early
<1> QED
  BY <1>2, <1>3 DEF RInv

\* Refusals and failures that the gateway answers itself.
LEMMA AnswersKeep ==
  ASSUME RInv,
         \/ TooLarge \/ Unauthorized \/ RecoverFails \/ Gate \/ ReadImage
         \/ RefuseAdd \/ AddUnavailable \/ RefuseDelete \/ ListingFails
  PROVE  RInv'
<1>1. step \in {"sent", "admitted"} /\ Untouched /\ \E status : Respond(status)
  BY DEF TooLarge, Unauthorized, RecoverFails, Gate, ReadImage, RefuseAdd, AddUnavailable,
     RefuseDelete, ListingFails, Serving
<1> QED
  BY <1>1, RespondKeeps

\* Every step keeps the invariant.
LEMMA RoutesStep ==
  ASSUME RInv, [Next]_vars
  PROVE  RInv'
<1>1. ASSUME NEW c \in Clients, NEW op \in OpsOf(c), NEW n \in Named(op), NEW body \in Bodies(op),
             NEW key \in Keys, Ask(c, op, n, body, key)
      PROVE  RInv'
  BY <1>1, AskKeeps
<1>2. CASE \/ TooLarge \/ Unauthorized \/ RecoverFails \/ Gate \/ ReadImage
           \/ RefuseAdd \/ AddUnavailable \/ RefuseDelete \/ ListingFails
  BY <1>2, AnswersKeep
<1>3. CASE PassOn \/ Proxy \/ BeginAdd \/ PlanDelete
  BY <1>3, ForwardsKeep
<1>4. CASE Admit
  BY <1>4, AdmitKeeps
<1>5. CASE Backend
  BY <1>5, BackendKeeps
<1>6. CASE Settle \/ AddUnreadable
  BY <1>6, SettleKeeps, AddUnreadableKeeps
<1>7. CASE Receive
  BY <1>7, ReceiveKeeps
<1>8. CASE UNCHANGED vars
  <2>1. UNCHANGED <<call, request, step, plan, journal, effect, answer>>
    BY <1>8 DEF vars
  <2>2. Asking' /\ Effects'
    BY <2>1, SameRequest DEF RInv, Asking, Effects
  <2>3. Prepared'
    BY <2>1, SameRequest DEF RInv, Prepared
  <2>4. Unsettled' /\ AnswersAreHonest'
    BY <2>1 DEF RInv, Unsettled, AnswersAreHonest
  <2> QED
    BY <2>2, <2>3, <2>4 DEF RInv
<1> QED
  BY <1>1, <1>2, <1>3, <1>4, <1>5, <1>6, <1>7, <1>8 DEF Next

-----------------------------------------------------------------------------
\* For names of any length, with separators and percent signs anywhere: what the
\* journal plans, what the backend does and what the caller named are the same
\* (app.py:317, 352, SegmentArrives).
THEOREM PlansAreWhatIsAsked == Spec => []PlansWhatIsAsked
<1>1. Init => RInv
  BY RoutesInit
<1>2. RInv /\ [Next]_vars => RInv'
  BY RoutesStep
<1>3. RInv => PlansWhatIsAsked
  BY PathsArrive DEF RInv, Asking, Effects, PlansWhatIsAsked
<1> QED
  BY <1>1, <1>2, <1>3, PTL DEF Spec

\* A refusal means that nothing happened, and what may have happened behind a
\* failure is still in the journal (app.py:203-208, 217-221).
THEOREM AnswersStayHonest == Spec => []AnswersAreHonest
<1>1. Init => RInv
  BY RoutesInit
<1>2. RInv /\ [Next]_vars => RInv'
  BY RoutesStep
<1>3. RInv => AnswersAreHonest
  BY DEF RInv
<1> QED
  BY <1>1, <1>2, <1>3, PTL DEF Spec

-----------------------------------------------------------------------------
(* What clients report.                                                    *)

KInv == StatusKept /\ (step # "idle" => call.client \in Clients)

\* Every client's exception carries what the answer says.
LEMMA RaisedFaithfully ==
  ASSUME NEW a, NEW c \in Clients, NEW e, e = Raises(a)[c]
  PROVE  /\ e.status = IF e.class = "server" THEN 500 ELSE a.status
         /\ e.class = "authentication" => a.status = 401
         /\ e.class = "noface" => a.noface
<1> DEFINE Good(r) ==
      /\ r.status = IF r.class = "server" THEN 500 ELSE a.status
      /\ r.class = "authentication" => a.status = 401
      /\ r.class = "noface" => a.noface
<1>1. Good(PythonRaises(a))
  <2>1. CASE a.status = 400 /\ a.noface
    BY <2>1 DEF PythonRaises, Raised
  <2>2. CASE ~ (a.status = 400 /\ a.noface)
    BY <2>2 DEF PythonRaises, Raised
  <2> QED
    BY <2>1, <2>2
<1>2. Good(GoRaises(a)) /\ Good(JavaRaises(a)) /\ Good(NodeRaises(a))
  BY DEF GoRaises, JavaRaises, NodeRaises, Raised
<1>3. Good(Raised("api", a.status))
  BY DEF Raised
<1>4. Raises(a)[c] \in {PythonRaises(a), GoRaises(a), JavaRaises(a), NodeRaises(a),
                        Raised("api", a.status)}
  BY DEF Raises, AsyncRaises, Clients, Sdks
<1> QED
  BY <1>1, <1>2, <1>3, <1>4

\* Only two steps end a call: raising before it is sent, and its answer.
LEMMA ReportsKeep ==
  ASSUME RInv, KInv, [Next]_vars
  PROVE  KInv'
<1>1. ASSUME NEW c \in Clients, NEW op \in OpsOf(c), NEW n \in Named(op), NEW body \in Bodies(op),
             NEW key \in Keys, Ask(c, op, n, body, key)
      PROVE  KInv'
  <2>1. answer = None
    BY <1>1 DEF Ask, RInv, Prepared, Early
  <2> QED
    BY <1>1, <2>1 DEF Ask, Raise, KeyMissing, BadIdentifier, Raised, KInv, StatusKept
<1>2. CASE Receive
  BY <1>2, RaisedFaithfully DEF Receive, KInv, StatusKept
<1>3. CASE UNCHANGED vars
  BY <1>3 DEF vars, KInv, StatusKept
<1>4. ASSUME step # "idle", step' \notin {"idle", "over"}, UNCHANGED call
      PROVE  KInv'
  BY <1>4 DEF KInv, StatusKept
<1>5. CASE \/ TooLarge \/ Unauthorized \/ RecoverFails \/ Gate \/ ReadImage
           \/ RefuseAdd \/ AddUnavailable \/ RefuseDelete \/ ListingFails
  <2>1. step \in {"sent", "admitted"} /\ \E status : Respond(status)
    BY <1>5 DEF TooLarge, Unauthorized, RecoverFails, Gate, ReadImage, RefuseAdd,
       AddUnavailable, RefuseDelete, ListingFails, Serving
  <2> QED
    BY <2>1, <1>4 DEF Respond
<1>6. CASE PassOn \/ Proxy \/ BeginAdd \/ PlanDelete
  BY <1>6, <1>4 DEF PassOn, Proxy, BeginAdd, PlanDelete, Forward, Serving
<1>7. CASE Admit \/ Backend \/ Settle \/ AddUnreadable
  BY <1>7, <1>4 DEF Admit, Backend, Settle, AddUnreadable, Respond
<1> QED
  BY <1>1, <1>2, <1>3, <1>5, <1>6, <1>7 DEF Next

\* Whatever the service answers, every client's exception keeps the status, and
\* reports a refused key or a missing face only if the answer says so
\* (client.py:147-161, client.go:186-206, FaceSDKClient.java:555-575, index.js:116-120).
THEOREM StatusIsKept == Spec => []StatusKept
<1>1. Init => RInv /\ KInv
  BY RoutesInit DEF Init, KInv, StatusKept
<1>2. RInv /\ KInv /\ [Next]_vars => RInv' /\ KInv'
  BY RoutesStep, ReportsKeep
<1>3. KInv => StatusKept
  BY DEF KInv
<1> QED
  BY <1>1, <1>2, <1>3, PTL DEF Spec

-----------------------------------------------------------------------------
(* The types of what a request leaves behind.                              *)

\* A request that enrols a face is an addition.
LEMMA EnrolsAdds ==
  ASSUME Made, Enrols
  PROVE  request.query \in Name
<1>1. PICK op \in Op : \E n \in Named(op), body \in Bodies(op) :
        request = Built(op, n, body) /\ (op \in PathOps => path_segment(n))
  BY DEF Made
<1>2. PICK n \in Named(op), body \in Bodies(op) : request = Built(op, n, body)
  BY <1>1
<1>3. request.method = "POST" /\ request.base = "faces" /\ request.rest = <<>>
  BY DEF Enrols
<1>4. op = "add"
  BY <1>2, <1>3
  DEF Op, Built, create_subject, delete_subject, list_subjects, delete_face, recognize, detect,
      rename_subject, list_faces, delete_faces, delete_list, verify_face, download, static_image,
      Request, Below, Token
<1> QED
  BY <1>2, <1>4 DEF Built, add_face, Request, Named

LEMMA ExecutedTyped ==
  ASSUME Made
  PROVE  Executed \in [added : SUBSET Name, removed : SUBSET Enrolled]
<1>1. {Pictured} \subseteq Enrolled /\ \A n : Listed(n) \subseteq Enrolled
  BY RoutesAssumption DEF Listed
<1>2. Enrols => {request.query} \subseteq Name
  BY EnrolsAdds
<1> QED
  BY <1>1, <1>2 DEF Executed

LEMMA RaisesTyped ==
  ASSUME NEW a \in Answers, NEW c \in Clients
  PROVE  Raises(a)[c] \in [class : Classes, status : Statuses \cup {500, None}]
<1> DEFINE E == [class : Classes, status : Statuses \cup {500, None}]
<1>1. a.status \in Statuses
  BY DEF Answers
<1>2. ASSUME NEW class \in Classes, NEW s \in {a.status, 400, 401, 429, 500}
      PROVE  Raised(class, s) \in E
  BY <1>1, <1>2 DEF Raised, Statuses
<1> HIDE DEF E
<1>3. {"noface", "authentication", "ratelimit", "server", "api"} \subseteq Classes
  BY DEF Classes
<1>4. PythonRaises(a) \in E
  BY <1>2, <1>3 DEF PythonRaises
<1>5. GoRaises(a) \in E /\ JavaRaises(a) \in E /\ NodeRaises(a) \in E /\ Raised("api", a.status) \in E
  BY <1>2, <1>3 DEF GoRaises, JavaRaises, NodeRaises
<1>6. Raises(a)[c] \in {PythonRaises(a), GoRaises(a), JavaRaises(a), NodeRaises(a),
                        Raised("api", a.status)}
  BY DEF Raises, AsyncRaises, Clients, Sdks
<1> QED
  BY <1>4, <1>5, <1>6 DEF E

\* An answer is under way only when there is one.
TInv == TypeOK /\ (step \in {"settling", "answered"} => answer \in Answers)

LEMMA RoutesTypes ==
  ASSUME RInv, KInv, TInv, [Next]_vars
  PROVE  TInv'
<1>1. ASSUME NEW c \in Clients, NEW op \in OpsOf(c), NEW n \in Named(op), NEW body \in Bodies(op),
             NEW key \in Keys, Ask(c, op, n, body, key)
      PROVE  TInv'
  <2>1. op \in Op
    BY DEF OpsOf, SdkOp, Op
  <2>2. call' # None /\ Built(op, n, body) # None /\ step = "idle"
    BY <1>1, <2>1, NoneAssumption DEF Ask
  <2>3. /\ BadIdentifier(c) \in [class : Classes, status : Statuses \cup {500, None}]
        /\ KeyMissing(c) \in [class : Classes, status : Statuses \cup {500, None}]
    BY DEF BadIdentifier, KeyMissing, Raised, Classes, Statuses
  <2>4. UNCHANGED <<unresolved, plan, journal, effect>>
    BY <1>1 DEF Ask
  <2>5. \/ step' = "sent" /\ request' = Built(op, n, body) /\ UNCHANGED <<answer, raised>>
        \/ /\ step' = "over" /\ UNCHANGED answer
           /\ raised' \in {BadIdentifier(c), KeyMissing(c)}
    BY <1>1 DEF Ask, Raise
  <2> QED
    BY <2>2, <2>3, <2>4, <2>5 DEF TInv, TypeOK, Step
<1>2. ASSUME step \in {"sent", "admitted"}, NEW status \in Statuses, Respond(status), Untouched
      PROVE  TInv'
  <2>1. answer' \in Answers
    BY <1>2 DEF Respond, Answers
  <2> QED
    BY <1>2, <2>1 DEF TInv, TypeOK, Respond, Untouched, Step
<1>3. CASE \/ TooLarge \/ Unauthorized \/ RecoverFails \/ Gate \/ ReadImage
           \/ RefuseAdd \/ AddUnavailable \/ RefuseDelete \/ ListingFails
  <2>1. {413, 200, 400, 503} \cup Failures \subseteq Statuses
    BY DEF Statuses, Failures
  <2>2. step \in {"sent", "admitted"} /\ Untouched /\ \E status \in Statuses : Respond(status)
    BY <1>3, <2>1
    DEF TooLarge, Unauthorized, RecoverFails, Gate, ReadImage, RefuseAdd, AddUnavailable,
        RefuseDelete, ListingFails, Serving
  <2> QED
    BY <1>2, <2>2
<1>4. CASE PassOn \/ Proxy \/ BeginAdd \/ PlanDelete
  <2>1. step \in {"sent", "admitted"} /\ Forward
    BY <1>4 DEF PassOn, Proxy, BeginAdd, PlanDelete, Serving, Forward
  <2>2. plan' \in {plan, Planned} /\ journal' \in {journal, "intent"}
    BY <1>4 DEF PassOn, Proxy, BeginAdd, PlanDelete, Untouched
  <2>3. Planned \subseteq Enrolled
    BY RoutesAssumption DEF Planned, Listed
  <2> QED
    BY <2>1, <2>2, <2>3 DEF TInv, TypeOK, Forward, Step
<1>5. CASE Admit
  BY <1>5 DEF Admit, TInv, TypeOK, Step
<1>6. CASE Backend
  <2>1. Made /\ step = "forwarded" /\ step' = "settling"
    BY <1>6 DEF Backend, RInv, Asking, Step
  <2>2. effect' \in [added : SUBSET Name, removed : SUBSET Enrolled]
    BY <1>6, <2>1, ExecutedTyped DEF Backend, Execute, TInv, TypeOK
  <2>3. answer' \in Answers
    <3>1. CASE answer' = [status |-> 200, noface |-> FALSE]
      BY <3>1 DEF Answers, Statuses
    <3>2. CASE \E status \in {400, 401, 404, 429}, noface \in BOOLEAN :
                 answer' = [status |-> status, noface |-> noface]
      <4>1. PICK status \in {400, 401, 404, 429} :
                 \E noface \in BOOLEAN : answer' = [status |-> status, noface |-> noface]
        BY <3>2
      <4>2. PICK noface \in BOOLEAN : answer' = [status |-> status, noface |-> noface]
        BY <4>1
      <4> QED
        BY <4>1, <4>2 DEF Answers, Statuses
    <3>3. CASE \E status \in {502, 503} : answer' = [status |-> status, noface |-> FALSE]
      <4>1. PICK status \in {502, 503} : answer' = [status |-> status, noface |-> FALSE]
        BY <3>3
      <4> QED
        BY <4>1 DEF Answers, Statuses
    <3> QED
      BY <1>6, <3>1, <3>2, <3>3 DEF Backend
  <2> QED
    BY <1>6, <2>1, <2>2, <2>3 DEF TInv, TypeOK, Backend, Step
<1>7. CASE Settle \/ AddUnreadable
  <2>1. CASE Settle
    BY <2>1 DEF Settle, TInv, TypeOK, Step
  <2>2. CASE AddUnreadable
    <3>1. answer' \in Answers
      BY <2>2 DEF AddUnreadable, Respond, Answers, Statuses
    <3> QED
      BY <2>2, <3>1 DEF AddUnreadable, Respond, Untouched, TInv, TypeOK, Step
  <2> QED
    BY <1>7, <2>1, <2>2
<1>8. CASE Receive
  <2>1. answer \in Answers /\ call.client \in Clients
    BY <1>8 DEF Receive, TInv, KInv
  <2>2. raised' \in [class : Classes, status : Statuses \cup {500, None}] \cup {None}
    BY <1>8, <2>1, RaisesTyped DEF Receive
  <2> QED
    BY <1>8, <2>2 DEF Receive, TInv, TypeOK, Step
<1>9. CASE UNCHANGED vars
  BY <1>9 DEF vars, TInv, TypeOK
<1> QED
  BY <1>1, <1>3, <1>4, <1>5, <1>6, <1>7, <1>8, <1>9 DEF Next

\* What a request leaves behind is about names that callers use and faces that
\* are enrolled, whatever its path decodes to.
THEOREM TypeCorrect == Spec => []TypeOK
<1>1. Init => RInv /\ KInv /\ TInv
  BY RoutesInit DEF Init, KInv, StatusKept, TInv, TypeOK, Step, NoEffect
<1>2. RInv /\ KInv /\ TInv /\ [Next]_vars => RInv' /\ KInv' /\ TInv'
  BY RoutesStep, ReportsKeep, RoutesTypes
<1>3. TInv => TypeOK
  BY DEF TInv
<1> QED
  BY <1>1, <1>2, <1>3, PTL DEF Spec

-----------------------------------------------------------------------------
(* Which requests wait for an unconfirmed operation.                       *)

\* Identifiers of images hold no separator, encoded or not.
PlainIds == \A n \in Id : IsWord(n) => n[1] # Token("/") /\ unquote(n)[1] # Token("/")

\* A verification of one image is seen as one.
LEMMA VerifySeen ==
  ASSUME PlainIds, NEW n \in Named("verify_face"), NEW body, request = verify_face(n, body)
  PROVE  read_only
<1>1. n \in Id /\ IsWord(n) /\ IsName(n) /\ n # <<>>
  BY RoutesAssumption DEF Named, IsWord
<1>2. /\ request.method = "POST" /\ request.base = "faces"
      /\ request.rest = <<n[1], Token("/"), Token("verify")>>
  BY DEF verify_face, Request, Below
<1>3. 1 \in DOMAIN n
  BY <1>1 DEF IsName
<1>4. uri[1] = unquote(n)[1]
  BY <1>2, <1>3 DEF uri, unquote
<1>5. Len(uri) = 3 /\ uri[2] = Token("/") /\ uri[3] = Token("verify")
  BY <1>2 DEF uri, unquote, Token
<1> QED
  BY <1>1, <1>2, <1>4, <1>5 DEF read_only, verify, Ends, PlainIds

LEMMA ReadsSeen ==
  ASSUME PlainIds, Made, call.op \in ReadOps
  PROVE  read_only
<1>1. PICK n \in Named(call.op) : \E body : request = Built(call.op, n, body)
  BY DEF Made
<1>2. CASE call.op = "verify_face"
  BY <1>1, <1>2, VerifySeen DEF Built
<1>3. CASE call.op # "verify_face"
  BY <1>1, <1>3
  DEF ReadOps, Built, list_subjects, list_faces, recognize, download, static_image, Request,
      read_only
<1> QED
  BY <1>2, <1>3

\* Nothing else is.
LEMMA WritesSeen ==
  ASSUME Made, Locked, call.op \in Op \ ReadOps
  PROVE  ~read_only
<1>1. PICK n, body : request = Built(call.op, n, body)
  BY DEF Made
<1>0. request.base # "detection"
  BY DEF Locked, static, image, Ends, mutation, Collection, face_delete, face_list,
     subject_delete, Recognition
<1>2. \/ request.method \in {"PUT", "DELETE"}
      \/ request.method = "POST" /\ request.base = "subjects"
      \/ request.method = "POST" /\ request.base = "faces"
         /\ (request.rest = <<>> \/ request.rest = <<Token("delete")>>)
  BY <1>0, <1>1
  DEF Op, ReadOps, Built, create_subject, delete_subject, add_face, delete_face, detect,
      rename_subject, delete_faces, delete_list, Request
<1>3. ASSUME request.rest = <<>> \/ request.rest = <<Token("delete")>>
      PROVE  ~verify
  <2>1. Token("delete").coded = 0
    BY DEF Token
  <2>2. uri = request.rest
    BY <1>3, <2>1, Plain DEF uri
  <2>3. Len(uri) # 3
    BY <1>3, <2>2
  <2> QED
    BY <2>3 DEF verify, Ends
<1>4. verify => request.method = "POST" /\ request.base = "faces"
  BY DEF verify, Ends
<1> QED
  BY <1>2, <1>3, <1>4 DEF read_only

\* A write that finds another operation unconfirmed is neither journaled nor sent.
Waiting ==
  unresolved /\ request # None /\ Locked /\ call.op \notin ReadOps =>
    step \notin {"forwarded", "settling"} /\ journal = "clean"

LEMMA SameKind ==
  ASSUME UNCHANGED <<call, request>>
  PROVE  Locked' <=> Locked
<1>1. uri' = uri
  BY DEF uri
<1> QED
  BY <1>1
  DEF Recognition, Locked, static, image, Ends, mutation, Collection, face_delete,
      subject_delete, face_list

LEMMA WaitingKeeps ==
  ASSUME RInv, Waiting, [Next]_vars
  PROVE  Waiting'
<1>1. ASSUME NEW c \in Clients, NEW op \in OpsOf(c), NEW n \in Named(op), NEW body \in Bodies(op),
             NEW key \in Keys, Ask(c, op, n, body, key)
      PROVE  Waiting'
  BY <1>1 DEF Ask, Raise, RInv, Prepared, Waiting
<1>2. ASSUME UNCHANGED <<call, request, unresolved, journal>>, step' \notin {"forwarded", "settling"}
      PROVE  Waiting'
  BY <1>2, SameKind DEF Waiting
<1>3. CASE \/ TooLarge \/ Unauthorized \/ RecoverFails \/ Gate \/ ReadImage
           \/ RefuseAdd \/ AddUnavailable \/ RefuseDelete \/ ListingFails
  <2>1. Untouched /\ \E status : Respond(status)
    BY <1>3
    DEF TooLarge, Unauthorized, RecoverFails, Gate, ReadImage, RefuseAdd, AddUnavailable,
        RefuseDelete, ListingFails
  <2> QED
    BY <2>1, <1>2 DEF Respond, Untouched
<1>4. CASE PassOn
  BY <1>4, SameKind DEF PassOn, Waiting
<1>5. CASE Proxy \/ BeginAdd \/ PlanDelete
  <2>1. Serving /\ UNCHANGED <<call, request, unresolved>>
    BY <1>5 DEF Proxy, BeginAdd, PlanDelete, Forward
  <2>2. Made /\ call.op \in Op
    BY <2>1 DEF Serving, RInv, Asking, Step, Made
  <2>3. ~ (unresolved /\ Locked /\ call.op \notin ReadOps)
    BY <2>1, <2>2, WritesSeen DEF Serving
  <2> QED
    BY <2>1, <2>3, SameKind DEF Waiting
<1>6. CASE Admit \/ Receive
  BY <1>2, <1>6 DEF Admit, Receive
<1>7. CASE Backend \/ Settle \/ AddUnreadable
  <2>1. /\ step \in {"forwarded", "settling"} /\ UNCHANGED <<call, request, unresolved>>
    BY <1>7 DEF Backend, Settle, AddUnreadable, Respond
  <2> QED
    BY <2>1, SameKind DEF Waiting
<1>8. CASE UNCHANGED vars
  BY <1>8, SameKind DEF vars, Waiting
<1> QED
  BY <1>1, <1>3, <1>4, <1>5, <1>6, <1>7, <1>8 DEF Next

\* While an operation of the service is unconfirmed no write is journaled or
\* forwarded, and every read is, for all names a caller may use, as long as the
\* identifiers of images hold no separator (app.py:349-357).
THEOREM WritesOnlyWait ==
  ASSUME PlainIds
  PROVE  Spec => []WritesWait
<1>1. Init => RInv /\ Waiting
  BY RoutesInit DEF Init, Waiting
<1>2. RInv /\ Waiting /\ [Next]_vars => RInv' /\ Waiting'
  BY RoutesStep, WaitingKeeps
<1>3. RInv /\ Waiting => WritesWait
  BY ReadsSeen DEF RInv, Asking, Step, Waiting, WritesWait, Serving
<1> QED
  BY <1>1, <1>2, <1>3, PTL DEF Spec
=============================================================================
