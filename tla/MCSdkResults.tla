---------------------------- MODULE MCSdkResults ----------------------------
\* An instance of SdkResults for TLC: documents with up to two faces.
EXTENDS SdkResults, TLC

\* Both boundaries, the threshold of the view, one below and one above.
Thresholds == {-1, 0, WebThreshold, MaxScore - 1, MaxScore + 1}

UpTo2(S) == {<<>>} \cup {<<x>> : x \in S} \cup (S \X S)

\* -2, 1 and 0.5 as float32, the words of the example in protocol.md:26.
One == <<63, 128, 0, 0>>
MinusTwo == <<192, 0, 0, 0>>
Half == <<63, 0, 0, 0>>
Vectors == {Missing, <<>>, <<One>>, <<One, MinusTwo>>, <<One, MinusTwo, Half>>}

NoConfidence(p) == [probability |-> p, confidence |-> Missing]
Old(c) == [probability |-> Missing, confidence |-> c]

Seen(box, vector) == box @@ [embedding |-> vector]

SeenFaces ==
  {Seen(NoConfidence(9), v) : v \in Vectors}
    \cup {Seen(NoConfidence(0), Missing), Seen(Old(7), Missing), Seen(Old(Missing), Missing),
          Seen([probability |-> 9, confidence |-> 0], Missing)}

Detections ==
  {[result |-> r, faces |-> Missing] : r \in {Missing} \cup UpTo2(SeenFaces)}
    \cup {[result |-> Missing, faces |-> f] : f \in UpTo2({Seen(Old(7), <<Half>>)})}

Candidate(s, score) == [subject |-> s, similarity |-> score]

Known(list) == NoConfidence(9) @@ [subjects |-> list]

KnownFaces ==
  {Known(l) : l \in {Missing, <<>>, <<Candidate("a", 8)>>,
                     <<Candidate("a", 7), Candidate("b", 9)>>,
                     <<Candidate("b", 8), Candidate("c", 9)>>}}

OldMatch ==
  [subject |-> "a", similarity |-> 7, match |-> FALSE, confidence |-> 9]

Searches ==
  {[result |-> r, results |-> Missing, face_count |-> 0] : r \in {Missing} \cup UpTo2(KnownFaces)}
    \cup {[result |-> Missing, results |-> m, face_count |-> 1] : m \in UpTo2({OldMatch})}

Target(score) == NoConfidence(9) @@ [similarity |-> score]

Pair(list) == [source |-> NoConfidence(9), face_matches |-> list]

Pairs == {Pair(l) : l \in {Missing, <<>>, <<Target(8)>>, <<Target(9)>>, <<Target(9), Target(7)>>}}

OldVerdict ==
  [kind |-> "verdict", similarity |-> 7, threshold |-> 8, match |-> FALSE, faces |-> <<9, 9>>]

Verifications ==
  {[result |-> r, verdict |-> Missing] : r \in {Missing} \cup UpTo2(Pairs)}
    \cup {[result |-> Missing, verdict |-> OldVerdict]}
=============================================================================
