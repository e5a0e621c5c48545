---------------------------- MODULE SdkDocuments ----------------------------
(***************************************************************************)
(* How each client turns a response document of the backend into a result: *)
(* the Python SDK (its two clients share models.py), the Go, Java and Node *)
(* SDKs, and the views of facesdk-web, which parse responses themselves.   *)
(* A document is a record, and an absent field is Missing.  Scores are     *)
(* integers; MaxScore stands for 1.                                        *)
(***************************************************************************)
EXTENDS Integers, Sequences, FiniteSets, SequencesExt

CONSTANTS
  Missing,     \* an absent field
  MaxScore,    \* the score 1
  WebThreshold \* the threshold built into CompareView, 0.8

ASSUME ScoreAssumption ==
  /\ MaxScore \in Nat /\ WebThreshold \in 0..MaxScore
  /\ Missing \notin Int

SdkNames == {"python", "go", "java", "node", "web"}

Fault(why) == [kind |-> "fault", why |-> why]

Get(field, default) == IF field = Missing THEN default ELSE field

-----------------------------------------------------------------------------
(* The documents.  Those of CompreFace have a result, the list of faces;   *)
(* the old ones have faces, results or the fields of a verdict instead.    *)

Scores == 0..MaxScore
Optional(S) == {Missing} \cup S

SeenFace ==
  [probability : Optional(Scores), confidence : Optional(Scores),
   embedding : Optional(Seq([1..4 -> 0..255]))]

DetectDocument == [result : Optional(Seq(SeenFace)), faces : Optional(Seq(SeenFace))]

KnownSubject == [subject : STRING, similarity : Scores]

\* A list of subjects is not taken for an absent one.
ASSUME MissingAssumption == Missing \notin Seq(KnownSubject)

KnownFace ==
  [probability : Optional(Scores), confidence : Optional(Scores),
   subjects : Optional(Seq(KnownSubject))]

KnownMatch ==
  [subject : STRING, similarity : Scores, match : BOOLEAN, confidence : Scores]

SearchDocument ==
  [result : Optional(Seq(KnownFace)), results : Optional(Seq(KnownMatch)), face_count : Nat]

TargetFace ==
  [probability : Optional(Scores), confidence : Optional(Scores), similarity : Scores]

SourceFace == [probability : Optional(Scores), confidence : Optional(Scores)]

Verdict ==
  [kind : {"verdict"}, similarity : Scores, threshold : Scores, match : BOOLEAN,
   faces : Seq(Scores)]

VerifyDocument ==
  [result : Optional(Seq([source : SourceFace, face_matches : Optional(Seq(TargetFace))])),
   verdict : Optional(Verdict)]

-----------------------------------------------------------------------------
(* Faces.  Confidence is a field of old documents; CompreFace has only the *)
(* probability of the box.                                                 *)

PythonConfidence(f) == Get(f.confidence, Get(f.probability, 0))

\* encoding/json leaves an absent number 0, so a 0 counts as absent.
GoConfidence(f) ==
  IF Get(f.confidence, 0) = 0 THEN Get(f.probability, 0) ELSE f.confidence

\* Mutant: the box is not looked at.
JavaConfidence_field(f) == Get(f.confidence, 0)

JavaConfidence(f) == Get(f.confidence, Get(f.probability, 0))

\* Mutant: the field is taken as it is.
NodeConfidence_raw(f) == f.confidence

NodeConfidence(f) == Get(f.confidence, Get(f.probability, 0))

\* To || a 0 is absent too, and the view asks the box first.
WebConfidence(f) ==
  IF Get(f.probability, 0) # 0 THEN f.probability ELSE Get(f.confidence, 0)

Confidence(sdk, f) ==
  CASE sdk = "python" -> PythonConfidence(f)
    [] sdk = "go" -> GoConfidence(f)
    [] sdk = "java" -> JavaConfidence(f)
    [] sdk = "node" -> NodeConfidence(f)
    [] sdk = "web" -> WebConfidence(f)

\* The face that comes with a match or a verdict; the views show none.
Shown(sdk, f) == IF sdk = "web" THEN Missing ELSE Confidence(sdk, f)

Detection(sdk, faces) ==
  [kind |-> "faces", faces |-> [i \in DOMAIN faces |-> Confidence(sdk, faces[i])]]

\* The list of faces is called result, or faces in old documents.
FaceList(d) == Get(d.result, d.faces)

Detected(sdk, d) ==
  IF FaceList(d) = Missing THEN Fault("invalid") ELSE Detection(sdk, FaceList(d))

PythonDetect(d) == Detected("python", d)
GoDetect(d) == Detected("go", d)
JavaDetect(d) == Detected("java", d)
NodeDetect(d) == Detected("node", d)
WebDetect(d) == Detection("web", Get(FaceList(d), <<>>))

-----------------------------------------------------------------------------
(* Search                                                                  *)

\* Every subject of every face, in the order of the document.
Candidates(sdk, faces) ==
  FlattenSeq([i \in DOMAIN faces |->
    LET subjects == Get(faces[i].subjects, <<>>) IN
      [j \in DOMAIN subjects |->
        [subject |-> subjects[j].subject, similarity |-> subjects[j].similarity,
         match |-> TRUE, confidence |-> Shown(sdk, faces[i])]]])

AtLeast(t, matches) ==
  FlattenSeq([i \in DOMAIN matches |->
    IF matches[i].similarity >= t THEN <<matches[i]>> ELSE <<>>])

\* Where a stable descending sort puts the i-th match.
Place(matches, i) ==
  Cardinality({j \in DOMAIN matches :
    \/ matches[j].similarity > matches[i].similarity
    \/ matches[j].similarity = matches[i].similarity /\ j <= i})

Descending(matches) ==
  [p \in DOMAIN matches |->
    matches[CHOOSE i \in DOMAIN matches : Place(matches, i) = p]]

Found(matches, count) ==
  [kind |-> "matches", matches |-> matches, face_count |-> count]

PythonSearch(d, t) ==
  IF d.result # Missing
  THEN Found(Descending(AtLeast(Get(t, 0), Candidates("python", d.result))),
             Len(d.result))
  ELSE IF d.results # Missing THEN Found(d.results, d.face_count) ELSE Fault("invalid")

\* Old documents are filtered and sorted as well.
GoSearch(d, t) ==
  IF d.result = Missing /\ d.results = Missing THEN Fault("invalid") ELSE
    LET all == IF d.result # Missing THEN Candidates("go", d.result) ELSE d.results
        kept == AtLeast(t, all)
    IN Found(Descending([i \in DOMAIN kept |-> [kept[i] EXCEPT !.match = TRUE]]),
             IF d.result # Missing THEN Len(d.result) ELSE d.face_count)

\* Mutant: the comparator is not reversed.
JavaSearch_ascending(d, t) ==
  IF d.result = Missing THEN Fault("invalid")
  ELSE Found(Reverse(Descending(AtLeast(Get(t, 0), Candidates("java", d.result)))),
             Len(d.result))

JavaSearch(d, t) ==
  IF d.result = Missing THEN Fault("invalid")
  ELSE Found(Descending(AtLeast(Get(t, 0), Candidates("java", d.result))),
             Len(d.result))

\* Filtered face by face, before the faces are joined.
FilteredFaces(faces, t) ==
  [i \in DOMAIN faces |->
    [faces[i] EXCEPT !.subjects = AtLeast(t, Get(@, <<>>))]]

NodeSearch(d, t) ==
  IF d.result = Missing THEN Fault("invalid")
  ELSE Found(Descending(Candidates("node", FilteredFaces(d.result, Get(t, 0)))),
             Len(d.result))

WebSearch(d, t) ==
  LET faces == FilteredFaces(Get(d.result, <<>>), t) IN
    Found(Descending(Candidates("web", faces)), Missing)

-----------------------------------------------------------------------------
(* Comparison                                                              *)

Sources(d) == Len(d.result)
Targets(d) == IF Sources(d) = 0 THEN 0 ELSE Len(Get(d.result[1].face_matches, <<>>))
OneEach(d) == Sources(d) = 1 /\ Targets(d) = 1

Judged(sdk, d, t) ==
  LET source == d.result[1].source  target == d.result[1].face_matches[1] IN
    [kind |-> "verdict", similarity |-> target.similarity, threshold |-> t,
     match |-> target.similarity >= t, faces |-> <<Shown(sdk, source), Shown(sdk, target)>>]

\* The order of the tests in the Python, Java and Node SDKs.
Compared(sdk, d, t) ==
  CASE Targets(d) = 0 -> Fault("no face")
    [] Targets(d) # 0 /\ ~OneEach(d) -> Fault("validation")
    [] OneEach(d) -> Judged(sdk, d, t)

\* An old document carries the server's verdict.
PythonCompare(d, t) ==
  IF d.result # Missing THEN Compared("python", d, t)
  ELSE Get(d.verdict, Fault("invalid"))

\* Mutant: the threshold is not looked at.
GoCompare_unchecked(d, t) ==
  IF d.result = Missing \/ ~OneEach(d) THEN Fault("validation") ELSE Judged("go", d, t)

\* The threshold of the client is looked at here for the first time.
GoCompare(d, t) ==
  CASE d.result = Missing -> Fault("validation")
    [] d.result # Missing /\ ~OneEach(d) -> Fault("validation")
    [] OTHER -> IF t \in 0..MaxScore THEN Judged("go", d, t) ELSE Fault("validation")

JavaCompare(d, t) ==
  IF d.result = Missing THEN Fault("invalid") ELSE Compared("java", d, t)

NodeCompare(d, t) ==
  IF d.result = Missing THEN Fault("invalid") ELSE Compared("node", d, t)

\* The view has no client, and shows similarity and verdict only.
WebCompare(d) ==
  IF d.result = Missing THEN Fault("validation")
  ELSE IF OneEach(d) THEN Judged("web", d, WebThreshold)
       ELSE Fault("validation")

-----------------------------------------------------------------------------
(* Features.  A word is the four bytes of a float32, the first one the     *)
(* most significant.                                                       *)

\* struct.pack("<f"), LittleEndian.PutUint32, ByteBuffer with its order set,
\* Buffer.writeFloatLE.
PythonBytes(word) == Reverse(word)
GoBytes(word) == Reverse(word)

\* Mutant: the order a ByteBuffer has by default.
JavaBytes_default(word) == word

JavaBytes(word) == Reverse(word)
NodeBytes(word) == Reverse(word)

\* Standard Base64: three bytes are four digits below 64, and 64 is padding.
Base64(bytes) ==
  LET byte(k) == IF k <= Len(bytes) THEN bytes[k] ELSE 0
      digit(g, r) ==
        CASE r = 0 -> byte(3*g + 1) \div 4
          [] r = 1 -> (byte(3*g + 1) % 4) * 16 + byte(3*g + 2) \div 16
          [] r = 2 -> IF 3*g + 2 > Len(bytes) THEN 64
                      ELSE (byte(3*g + 2) % 16) * 4 + byte(3*g + 3) \div 64
          [] r = 3 -> IF 3*g + 3 > Len(bytes) THEN 64 ELSE byte(3*g + 3) % 64
  IN [k \in 1 .. 4 * ((Len(bytes) + 2) \div 3) |-> digit((k - 1) \div 4, (k - 1) % 4)]

Bytes(sdk, word) ==
  CASE sdk = "python" -> PythonBytes(word)
    [] sdk = "go" -> GoBytes(word)
    [] sdk = "java" -> JavaBytes(word)
    [] sdk = "node" -> NodeBytes(word)

Encoded(sdk, faces) ==
  CASE Len(faces) = 0 -> Fault("no face")
    [] Len(faces) > 1 -> Fault("validation")
    [] Len(faces) = 1 ->
         LET words == Get(faces[1].embedding, <<>>) IN
           IF words = <<>> THEN Fault("no embedding")
           ELSE [kind |-> "feature",
                 text |-> Base64(FlattenSeq([i \in DOMAIN words |-> Bytes(sdk, words[i])]))]

\* Python and Java insist on result here; Go and Node go through detect.
PythonFeature(d) == IF d.result = Missing THEN Fault("invalid") ELSE Encoded("python", d.result)
JavaFeature(d) == IF d.result = Missing THEN Fault("invalid") ELSE Encoded("java", d.result)
NodeFeature(d) == IF FaceList(d) = Missing THEN Fault("invalid") ELSE Encoded("node", FaceList(d))

\* One error for no face and for several.
GoFeature(d) ==
  CASE FaceList(d) = Missing -> Fault("invalid")
    [] FaceList(d) # Missing /\ Len(FaceList(d)) # 1 -> Fault("validation")
    [] OTHER -> Encoded("go", FaceList(d))
=============================================================================
