----------------------------- MODULE SdkResults -----------------------------
(***************************************************************************)
(* A client is set up with its keys and its threshold, asks the backend    *)
(* for a detection, a search, a comparison or a feature, and makes a       *)
(* result of the document that comes back.  RetryClient says how the       *)
(* document gets here; clients keep nothing from one call to the next, so  *)
(* one client with one call at a time stands for all of them.  The two     *)
(* Python clients share their parsing and their checks and are one here.   *)
(***************************************************************************)
EXTENDS SdkDocuments

CONSTANTS
  Sdk,        \* the clients looked at, among SdkNames
  Threshold,  \* thresholds of clients and of searches, some out of range
  Limit,      \* limits of searches
  Key,        \* what a key is configured to: a key, the empty "", or Missing
  Single,     \* what the one old key is configured to, "" when it is not
  DetectDoc, SearchDoc, VerifyDoc, \* documents the backend may answer
  None

Service == {"detection", "recognition", "verification"}

ServiceOf ==
  [detect |-> "detection", extract |-> "detection",
   search |-> "recognition", compare |-> "verification"]

Op == DOMAIN ServiceOf

Why == {"validation", "authentication", "invalid", "no face", "no embedding"}

ASSUME ResultsAssumption ==
  /\ Sdk \subseteq SdkNames /\ Threshold \subseteq Int /\ Limit \subseteq Int
  /\ None \notin Int /\ \A why \in Why : Fault(why) # None

\* The backend is trusted with the types of the fields it sends, and with
\* scores between 0 and 1; what it may leave out is Optional.
ASSUME DocumentsAssumption ==
  /\ DetectDoc \subseteq DetectDocument
  /\ SearchDoc \subseteq SearchDocument
  /\ VerifyDoc \subseteq VerifyDocument

VARIABLES
  client,  \* the client, None before there is one
  call,    \* its latest call: operation, threshold it goes by, key sent
  doc,     \* the document that answered it
  answer   \* what the call returned or raised

vars == <<client, call, doc, answer>>

Init == client = None /\ call = None /\ doc = None /\ answer = None

InRange(t) == 0 <= t /\ t <= MaxScore

\* What each client insists on before it exists.  Go looks at nothing, and
\* the builder of Java wants one key that is not blank.
Constructible(sdk, t, keys, single) ==
  CASE sdk \in {"python", "node"} -> InRange(t)
    [] sdk = "java" -> InRange(t) /\ (single # "" \/ \E s \in Service : keys[s] \notin {Missing, ""})
    [] sdk = "go" -> TRUE
    [] sdk = "web" -> t = WebThreshold

Construct(sdk, t, keys, single) ==
  /\ client = None
  /\ Constructible(sdk, t, keys, single)
  /\ client' = [sdk |-> sdk, threshold |-> t, keys |-> keys, single |-> single]
  /\ UNCHANGED <<call, doc, answer>>

-----------------------------------------------------------------------------
(* The key of a request                                                    *)

PythonKey(c, s) == Get(c.keys[s], c.single)
GoKey(c, s) == Get(c.keys[s], c.single)
JavaKey(c, s) == Get(c.keys[s], c.single)

\* Mutant: || in place of ??.
NodeKey_or(c, s) == IF c.keys[s] \in {Missing, ""} THEN c.single ELSE c.keys[s]

NodeKey(c, s) == Get(c.keys[s], c.single)

WebKey(c, s) == IF c.keys[s] \in {Missing, ""} THEN c.single ELSE c.keys[s]

KeyFor(c, s) ==
  CASE c.sdk = "python" -> PythonKey(c, s)
    [] c.sdk = "go" -> GoKey(c, s)
    [] c.sdk = "java" -> JavaKey(c, s)
    [] c.sdk = "node" -> NodeKey(c, s)
    [] c.sdk = "web" -> WebKey(c, s)

\* The view sends a request without a key, the SDKs do not.
KeyRequired(c) == c.sdk # "web"

-----------------------------------------------------------------------------
(* Calls                                                                   *)

Offered(sdk, op) == sdk = "web" => op # "extract"

\* The threshold of a search may be left out, but not in Go and in the view.
ThresholdTaken(sdk, op, t) ==
  IF op # "search" THEN t = Missing
  ELSE t = Missing => sdk \in {"python", "java", "node"}

\* validate_search and its equivalents; the sliders of the view do the same.
SearchValid(limit, t) == limit >= 1 /\ (t = Missing \/ InRange(t))

\* The arguments of a search are looked at before the key.
Asked(op, t, limit) ==
  IF op = "search" /\ ~SearchValid(limit, t) THEN Fault("validation")
  ELSE IF KeyRequired(client) /\ KeyFor(client, ServiceOf[op]) = ""
  THEN Fault("authentication")
  ELSE None

Ask(op, t, limit) ==
  /\ client # None
  /\ call = None \/ answer # None
  /\ Offered(client.sdk, op)
  /\ ThresholdTaken(client.sdk, op, t)
  /\ client.sdk = "web" /\ op = "search" => SearchValid(limit, t)
  /\ answer' = Asked(op, t, limit)
  /\ call' = [op |-> op, threshold |-> t,
              key |-> IF answer' = None THEN KeyFor(client, ServiceOf[op]) ELSE None]
  /\ doc' = None
  /\ UNCHANGED client

Detect(c, d) ==
  CASE c.sdk = "python" -> PythonDetect(d)
    [] c.sdk = "go" -> GoDetect(d)
    [] c.sdk = "java" -> JavaDetect(d)
    [] c.sdk = "node" -> NodeDetect(d)
    [] c.sdk = "web" -> WebDetect(d)

Search(c, d, t) ==
  CASE c.sdk = "python" -> PythonSearch(d, t)
    [] c.sdk = "go" -> GoSearch(d, t)
    [] c.sdk = "java" -> JavaSearch(d, t)
    [] c.sdk = "node" -> NodeSearch(d, t)
    [] c.sdk = "web" -> WebSearch(d, t)

Compare(c, d) ==
  CASE c.sdk = "python" -> PythonCompare(d, c.threshold)
    [] c.sdk = "go" -> GoCompare(d, c.threshold)
    [] c.sdk = "java" -> JavaCompare(d, c.threshold)
    [] c.sdk = "node" -> NodeCompare(d, c.threshold)
    [] c.sdk = "web" -> WebCompare(d)

Extract(c, d) ==
  CASE c.sdk = "python" -> PythonFeature(d)
    [] c.sdk = "go" -> GoFeature(d)
    [] c.sdk = "java" -> JavaFeature(d)
    [] c.sdk = "node" -> NodeFeature(d)

Waiting(op) ==
  client # None /\ call # None /\ call.op = op /\ doc = None /\ answer = None

Return(d, result) == doc' = d /\ answer' = result /\ UNCHANGED <<client, call>>

TakeFaces(d) == Waiting("detect") /\ Return(d, Detect(client, d))
TakeMatches(d) == Waiting("search") /\ Return(d, Search(client, d, call.threshold))
TakeVerdict(d) == Waiting("compare") /\ Return(d, Compare(client, d))
TakeFeature(d) == Waiting("extract") /\ Return(d, Extract(client, d))

\* The view leaves its slider to the user while it waits, and filters by the
\* threshold it finds when the document is there.
Slide(t) ==
  /\ Waiting("search") /\ client.sdk = "web"
  /\ InRange(t)
  /\ call' = [op |-> "search", threshold |-> t, key |-> call.key]
  /\ UNCHANGED <<client, doc, answer>>

Next ==
  \/ \E sdk \in Sdk, t \in Threshold \ {Missing}, keys \in [Service -> Key], single \in Single :
       Construct(sdk, t, keys, single)
  \/ \E op \in Op, t \in Threshold \cup {Missing}, limit \in Limit : Ask(op, t, limit)
  \/ \E t \in Threshold : Slide(t)
  \/ \E d \in DetectDoc : TakeFaces(d) \/ TakeFeature(d)
  \/ \E d \in SearchDoc : TakeMatches(d)
  \/ \E d \in VerifyDoc : TakeVerdict(d)

Spec == Init /\ [][Next]_vars

-----------------------------------------------------------------------------
(* What the results promise.  A document of CompreFace has a result; the   *)
(* properties that speak of results leave old documents aside.             *)

\* The view shows no confidence with a match or a verdict.
Confidences == IF client.sdk = "web" THEN {Missing} ELSE Scores

IsMatch(m) ==
  m.similarity \in Scores /\ m.match \in BOOLEAN /\ m.confidence \in Confidences

\* Every result has the shape the caller is told of: scores are numbers
\* between 0 and 1 also when the backend left the field out.
TypeOK ==
  answer # None =>
    CASE answer.kind = "fault" -> answer.why \in Why
      [] answer.kind = "faces" -> \A i \in DOMAIN answer.faces : answer.faces[i] \in Scores
      [] answer.kind = "matches" -> \A i \in DOMAIN answer.matches : IsMatch(answer.matches[i])
      [] answer.kind = "verdict" ->
           /\ answer.similarity \in Scores /\ answer.threshold \in Scores
           /\ \A i \in DOMAIN answer.faces : answer.faces[i] \in Confidences
      [] answer.kind = "feature" -> answer.text \in Seq(0..64)

Answered(op) == call # None /\ call.op = op /\ doc # None /\ doc.result # Missing

\* The subjects a search may return: those of every face that reach the
\* threshold, each named by its place in the document.
Reaching ==
  UNION {{<<i, j>> : j \in {k \in DOMAIN Get(doc.result[i].subjects, <<>>) :
                              doc.result[i].subjects[k].similarity >= Get(call.threshold, 0)}} :
         i \in DOMAIN doc.result}

SameSubject(m, c) ==
  LET s == doc.result[c[1]].subjects[c[2]] IN
    m.subject = s.subject /\ m.similarity = s.similarity

\* "展开每张脸的 subjects[]，过滤阈值并按相似度降序排列" (protocol.md:9), the
\* threshold included (20): a search of every client returns each candidate of
\* every face that reaches the threshold exactly once, the best one first.
SearchRanked ==
  Answered("search") =>
    LET ms == answer.matches IN
      /\ answer.kind = "matches"
      /\ Len(ms) = Cardinality(Reaching)
      /\ \A p \in DOMAIN ms :
           /\ ms[p].match
           /\ \A q \in DOMAIN ms : p < q => ms[p].similarity >= ms[q].similarity
           /\ Cardinality({q \in DOMAIN ms : ms[q].subject = ms[p].subject
                                             /\ ms[q].similarity = ms[p].similarity})
                = Cardinality({c \in Reaching : SameSubject(ms[p], c)})

\* "1:1 比对和特征提取遇到多脸会失败，以免默认选择错误身份" (protocol.md:20): a
\* comparison has a verdict only of one face against one face, by a threshold
\* between 0 and 1 that is the client's own, and then always; the boundary is
\* a match.
OneToOne ==
  Answered("compare") =>
    /\ (answer.kind = "verdict") <=> (OneEach(doc) /\ InRange(client.threshold))
    /\ answer.kind = "verdict" =>
         /\ answer.threshold = client.threshold
         /\ answer.similarity = doc.result[1].face_matches[1].similarity
         /\ answer.match = (answer.similarity >= client.threshold)

\* The digits of a text, what comes before as many places as it has padding,
\* and byte k of what they encode.
Digits(text) ==
  SubSeq(text, 1, Len(text) - Cardinality({k \in DOMAIN text : text[k] = 64}))

DecodedByte(digits, k) ==
  LET g == 4 * ((k - 1) \div 3) IN
    CASE (k - 1) % 3 = 0 -> digits[g + 1] * 4 + digits[g + 2] \div 16
      [] (k - 1) % 3 = 1 -> (digits[g + 2] % 16) * 16 + digits[g + 3] \div 4
      [] (k - 1) % 3 = 2 -> (digits[g + 3] % 4) * 64 + digits[g + 4]

\* "四种 SDK 对同一向量使用一致的 float32 LE/Base64 编码" (protocol.md:26): a
\* feature is made of exactly one face with an embedding, and whoever decodes
\* the text as little-endian words, padded to fours, has the embedding again.
FeatureDecodes ==
  Answered("extract") =>
    LET words == IF Len(doc.result) = 1 THEN Get(doc.result[1].embedding, <<>>) ELSE <<>>
        digits == Digits(answer.text)
    IN /\ (answer.kind = "feature") <=> (words # <<>>)
       /\ answer.kind = "feature" =>
            /\ Len(answer.text) % 4 = 0 /\ \A k \in DOMAIN digits : digits[k] < 64
            /\ (Len(digits) * 6) \div 8 = 4 * Len(words)
            /\ \A i \in DOMAIN words, b \in 1..4 :
                 DecodedByte(digits, 4 * (i - 1) + b) = words[i][5 - b]

\* "置信度取 box.probability" (protocol.md:7): CompreFace has no other field, so
\* the confidence a client shows is that of the box, face by face and in order.
ConfidenceKept ==
  Answered("detect") =>
    /\ answer.kind = "faces"
    /\ DOMAIN answer.faces = DOMAIN doc.result
    /\ \A i \in DOMAIN doc.result :
         doc.result[i].confidence = Missing =>
           answer.faces[i] = Get(doc.result[i].probability, 0)

\* "旧单密钥字段只作为缺少对应配置时的回退。空的分服务密钥会报认证错误"
\* (protocol.md:16): an SDK sends the key of the called service, the old one
\* only when that service has none configured, and never an empty one.
KeyOfService ==
  client # None /\ client.sdk # "web" /\ call # None =>
    LET own == client.keys[ServiceOf[call.op]]
        due == IF own = Missing THEN client.single ELSE own
    IN /\ call.key # None => call.key = due /\ call.key # ""
       /\ answer = Fault("authentication") => due = ""
=============================================================================
