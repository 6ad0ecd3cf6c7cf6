-------------------------- MODULE BestCandidateProofs --------------------------
(* Theorems about bestCandidate and the decisions taken from it, for any   *)
(* shortlists, any similarities and any lookups that fail.  What depends   *)
(* on the configured thresholds says which thresholds it needs; the        *)
(* defaults of config.go satisfy all of it.                                *)
EXTENDS BestCandidate, ScoringProofs

\* No candidate is compared before the name map is complete, and only entries
\* of the shortlist with an identity and its metadata are read.
Scanning ==
    /\ i <= Len(nameMatches) => j = 1
    /\ \A k \in read : faceMatches[k].id \in Ids

CandidateInv == TypeOK /\ NameScoresAreMaxima /\ BestIsFirstMaximum /\ Scanning

\* Hypotheses on the configuration (config.go: 0.82, 0.80, 0.70 and 0.72).
\* Rounding to four decimals lets a name similarity of 0.9998 tie with 1.
NameBelowRounding == NameMatchThreshold <= 9998

\* A duplicate's face is at least a match, and a name match is at least the
\* name a partial match asks for.
DuplicateIsStrictest ==
    /\ FaceMatchThreshold <= FaceDupThreshold
    /\ PartialFaceThreshold <= FaceDupThreshold
    /\ NameMatchThreshold >= 5500

\* No threshold lies below the literal of the reason that goes with it.
ReasonsBelowThresholds ==
    /\ FaceMatchThreshold >= 8000
    /\ FaceDupThreshold >= 8000
    /\ NameMatchThreshold >= 7000
    /\ PartialFaceThreshold >= 7200
-----------------------------------------------------------------------------
(* A shortlist is a sequence of matches. *)
LEMMA ShortlistsType == Shortlists \subseteq Seq(Matches)
  <1>1. ASSUME NEW n \in 0..MaxMatches, NEW s \in [1..n -> Matches] PROVE s \in Seq(Matches)
    BY CandidateAssumption
  <1>2. QED BY <1>1 DEF Shortlists

(* What the types say of one entry of each shortlist. *)
LEMMA EntryType ==
    ASSUME TypeOK
    PROVE  /\ \A n \in 1..Len(nameMatches) : nameMatches[n].id \in Ids \cup {NoId} /\ nameMatches[n].score \in Scores
           /\ \A k \in 1..Len(faceMatches) : faceMatches[k].id \in Ids \cup {NoId} /\ faceMatches[k].score \in Scores
           /\ Len(nameMatches) \in Nat /\ Len(faceMatches) \in Nat
  <1>1. faceMatches \in Seq(Matches) /\ nameMatches \in Seq(Matches)
    BY DEF TypeOK
  <1>2. \A m \in Matches : m.id \in Ids \cup {NoId} /\ m.score \in Scores
    BY CandidateAssumption DEF Matches
  <1>3. QED BY <1>1, <1>2

(* The similarities and the demographics of a candidate that was read. *)
LEMMA CandidateType ==
    ASSUME TypeOK, NEW k \in 1..Len(faceMatches), faceMatches[k].id \in Ids
    PROVE  /\ FaceScore(k) \in Scores
           /\ NameScore(k) \in Scores
           /\ Demo(k) \in BOOLEAN
           /\ Combined(k) \in Int /\ Combined(k) <= 10000
  <1>1. FaceScore(k) \in Scores
    BY EntryType DEF FaceScore
  <1>2. NameScore(k) \in Scores
    BY DEF NameScore, TypeOK
  <1>3. Demo(k) \in BOOLEAN
    BY DEF Demo
  <1>4. QED BY SMT, <1>1, <1>2, <1>3, ConfidenceType DEF Combined

(* Before the first step nothing was read. *)
LEMMA CandidateInit == Init => CandidateInv
  <1> SUFFICES ASSUME Init PROVE CandidateInv
    OBVIOUS
  <1>1. faceMatches \in Seq(Matches) /\ nameMatches \in Seq(Matches)
    BY ShortlistsType DEF Init
  <1>2. Len(faceMatches) \in Nat /\ Len(nameMatches) \in Nat
    BY <1>1
  <1>3. TypeOK
    BY <1>1, <1>2 DEF Init, TypeOK, Scores
  <1>4. NameScoresAreMaxima
    BY DEF Init, NameScoresAreMaxima
  <1>5. QED BY <1>3, <1>4 DEF Init, CandidateInv, BestIsFirstMaximum, Found, Scanning

(* One entry of the name shortlist: the map stays one of maxima, and       *)
(* nothing was compared with it yet.                                       *)
LEMMA ScanNameStep ==
    ASSUME CandidateInv, ScanName
    PROVE  CandidateInv'
  <1> DEFINE n == nameMatches[i]
  <1>1. /\ i \in Nat /\ i \in 1..Len(nameMatches) /\ i' = i + 1
        /\ UNCHANGED <<faceMatches, nameMatches, demographics, j, read, best>>
        /\ nameScores' = IF n.id # NoId /\ n.score > nameScores[n.id]
                         THEN [nameScores EXCEPT ![n.id] = n.score] ELSE nameScores
    BY EntryType DEF CandidateInv, TypeOK, ScanName, inputs
  <1>2. read = {} /\ best = 0 /\ j = 1
    BY <1>1, EntryType DEF CandidateInv, TypeOK, Scanning
  <1>3. n.id \in Ids \cup {NoId} /\ n.score \in Scores /\ n = [id |-> n.id, score |-> n.score]
    <2>1. n \in Matches
      BY <1>1 DEF CandidateInv, TypeOK
    <2>2. QED BY <1>1, <2>1, EntryType DEF CandidateInv, Matches
  <1>4. nameScores' \in [Ids -> Scores]
    BY <1>1, <1>3 DEF CandidateInv, TypeOK
  <1>5. TypeOK'
    BY <1>1, <1>4, EntryType DEF CandidateInv, TypeOK
  <1>6. NameScoresAreMaxima'
    <2> SUFFICES ASSUME NEW id \in Ids
                 PROVE  /\ nameScores'[id] >= 0
                        /\ \A m \in 1..i : nameMatches[m].id = id => nameMatches[m].score <= nameScores'[id]
                        /\ nameScores'[id] # 0 =>
                             \E m \in 1..i : nameMatches[m] = [id |-> id, score |-> nameScores'[id]]
      BY <1>1 DEF NameScoresAreMaxima
    <2>1. PICK old \in Int : old = nameScores[id] /\ old >= 0
      BY ScoresAreNumbers DEF CandidateInv, TypeOK, NameScoresAreMaxima
    <2>2. /\ \A m \in 1..(i - 1) : nameMatches[m].id = id => nameMatches[m].score <= old
          /\ old # 0 => \E m \in 1..(i - 1) : nameMatches[m] = [id |-> id, score |-> old]
      BY <2>1 DEF CandidateInv, NameScoresAreMaxima
    <2>3. \A m \in 1..i : m \in 1..(i - 1) \/ m = i
      BY <1>1
    <2>4. \A m \in 1..(i - 1) : m \in 1..i /\ nameMatches[m].score \in Int
      <3>1. \A m \in 1..(i - 1) : m \in 1..i /\ m \in 1..Len(nameMatches)
        <4>1. PICK last \in Nat : last = Len(nameMatches) /\ i <= last
          BY <1>1, EntryType DEF CandidateInv
        <4>2. QED BY <1>1, <4>1
      <3>2. \A m \in 1..Len(nameMatches) : nameMatches[m].score \in Int
        BY EntryType, ScoresAreNumbers DEF CandidateInv
      <3>3. QED BY <3>1, <3>2
    <2>5. PICK sc \in Int : sc = n.score
      BY <1>3, ScoresAreNumbers
    <2>6. CASE n.id = id /\ n.score > nameScores[id]
      <3>1. nameScores'[id] = sc
        BY <1>1, <1>3, <2>5, <2>6, CandidateAssumption DEF CandidateInv, TypeOK
      <3>2. nameMatches[i] = [id |-> id, score |-> sc]
        BY <1>3, <2>5, <2>6
      <3>3. \A m \in 1..(i - 1) : nameMatches[m].id = id => nameMatches[m].score <= sc
        BY <2>1, <2>2, <2>4, <2>5, <2>6
      <3>4. sc >= 0 /\ i \in 1..i
        BY <1>1, <2>1, <2>5, <2>6
      <3>5. \A m \in 1..i : nameMatches[m].id = id => nameMatches[m].score <= sc
        BY <2>3, <2>5, <3>3
      <3>6. QED BY <3>1, <3>2, <3>4, <3>5
    <2>7. CASE ~(n.id = id /\ n.score > nameScores[id])
      <3>1. nameScores'[id] = old
        BY <1>1, <1>3, <2>1, <2>7 DEF CandidateInv, TypeOK
      <3>2. QED BY <1>1, <2>1, <2>2, <2>3, <2>4, <2>5, <2>7, <3>1
    <2>8. QED BY <2>6, <2>7
  <1>7. BestIsFirstMaximum'
    BY <1>1, <1>2 DEF BestIsFirstMaximum, Found
  <1>8. Scanning'
    BY <1>1, <1>2 DEF Scanning
  <1>9. QED BY <1>5, <1>6, <1>7, <1>8 DEF CandidateInv

(* A candidate that is read: it becomes the best one only by a higher      *)
(* confidence, so that the first of several equals stays.                  *)
LEMMA ScanFaceStep ==
    ASSUME CandidateInv, ScanFace
    PROVE  CandidateInv'
  <1>1. /\ i > Len(nameMatches) /\ j \in Nat /\ j \in 1..Len(faceMatches) /\ j' = j + 1
        /\ UNCHANGED <<faceMatches, nameMatches, demographics, nameScores, i>>
        /\ read' = read \cup {j}
        /\ best' = IF Improves(j) THEN j ELSE best
        /\ faceMatches[j].id # NoId
    BY EntryType DEF CandidateInv, TypeOK, ScanFace, ScanningFaces, inputs
  <1>2. faceMatches[j].id \in Ids
    BY <1>1, EntryType DEF CandidateInv
  <1>3. \A k \in read : k \in 1..Len(faceMatches) /\ k < j /\ k \in Nat /\ faceMatches[k].id \in Ids
    BY <1>1, EntryType DEF CandidateInv, TypeOK, Scanning
  <1>4. TypeOK'
    BY <1>1, <1>3, EntryType DEF CandidateInv, TypeOK
  <1>5. NameScoresAreMaxima'
    BY <1>1 DEF CandidateInv, NameScoresAreMaxima
  <1>6. \A k : Combined(k)' = ComputeConfidence(faceMatches[k].score, nameScores[faceMatches[k].id],
                                                demographics[faceMatches[k].id] = "same")
    BY <1>1 DEF Combined, FaceScore, NameScore, Demo
  <1>7. \A k : ComputeConfidence(faceMatches[k].score, nameScores[faceMatches[k].id],
                                 demographics[faceMatches[k].id] = "same") = Combined(k)
    BY DEF Combined, FaceScore, NameScore, Demo
  <1>8. Combined(j) \in Int /\ \A k \in read : Combined(k) \in Int
    BY <1>1, <1>2, <1>3, CandidateType DEF CandidateInv
  <1>9. best \in read \cup {0} /\ 0 \notin read /\ (best # 0 <=> read # {})
    BY <1>3 DEF CandidateInv, TypeOK, BestIsFirstMaximum, Found
  <1>10. \A k \in read : Combined(k) <= Combined(best) /\ (Combined(k) = Combined(best) => best <= k)
    BY DEF CandidateInv, BestIsFirstMaximum
  <1>11. BestIsFirstMaximum'
    <2>1. (best' # 0 <=> read' # {})
      <3>1. CASE Improves(j)
        BY <3>1, <1>1
      <3>2. CASE ~Improves(j)
        BY <3>2, <1>1, <1>9 DEF Improves
      <3>3. QED BY <3>1, <3>2
    <2>2. ASSUME NEW k \in read'
          PROVE  Combined(k) <= Combined(best') /\ (Combined(k) = Combined(best') => best' <= k)
      <3>1. CASE Improves(j)
        BY <3>1, <2>2, <1>1, <1>3, <1>8, <1>9, <1>10 DEF Improves
      <3>2. CASE ~Improves(j)
        BY <3>2, <2>2, <1>1, <1>3, <1>8, <1>9, <1>10 DEF Improves
      <3>3. QED BY <3>1, <3>2
    <2>3. QED BY <2>1, <2>2, <1>6, <1>7 DEF BestIsFirstMaximum, Found
  <1>12. Scanning'
    BY <1>1, <1>2, EntryType DEF CandidateInv, TypeOK, Scanning
  <1>13. QED BY <1>4, <1>5, <1>11, <1>12 DEF CandidateInv

(* Every step of a call keeps the invariant. *)
LEMMA CandidateStep == CandidateInv /\ [Next]_vars => CandidateInv'
  <1> SUFFICES ASSUME CandidateInv, [Next]_vars PROVE CandidateInv'
    OBVIOUS
  <1>1. CASE ScanName
    BY <1>1, ScanNameStep
  <1>2. CASE ScanFace
    BY <1>2, ScanFaceStep
  <1>3. CASE SkipFace
    <2>1. /\ i > Len(nameMatches) /\ j \in 1..Len(faceMatches) /\ j' = j + 1
          /\ UNCHANGED <<faceMatches, nameMatches, demographics, nameScores, i, read, best>>
      BY <1>3, EntryType DEF CandidateInv, TypeOK, SkipFace, ScanningFaces, inputs
    <2>2. TypeOK'
      BY <2>1, EntryType DEF CandidateInv, TypeOK
    <2>3. Scanning'
      BY <2>1, EntryType DEF CandidateInv, TypeOK, Scanning
    <2>4. QED BY <2>1, <2>2, <2>3
              DEF CandidateInv, NameScoresAreMaxima, BestIsFirstMaximum, Found,
                  Combined, FaceScore, NameScore, Demo
  <1>4. CASE UNCHANGED vars
    BY <1>4 DEF vars, CandidateInv, TypeOK, Scanning, NameScoresAreMaxima, BestIsFirstMaximum,
                Found, Combined, FaceScore, NameScore, Demo
  <1>5. QED BY <1>1, <1>2, <1>3, <1>4 DEF Next

LEMMA CandidateInvariant == Spec => []CandidateInv
  BY CandidateInit, CandidateStep, PTL DEF Spec

-----------------------------------------------------------------------------
(* The call keeps its types: no index runs over, no map entry is missing. *)
THEOREM CandidateTypeCorrect == Spec => []TypeOK
  BY CandidateInvariant, PTL DEF CandidateInv

(* The name map is the largest positive similarity of each identity,       *)
(* whatever the order of the shortlist.                                    *)
THEOREM NameMapIsMaximum == Spec => []NameScoresAreMaxima
  BY CandidateInvariant, PTL DEF CandidateInv

(* The candidate kept is the first of highest confidence among those that  *)
(* could be read, for every way the lookups may fail.                      *)
THEOREM BestIsKept == Spec => []BestIsFirstMaximum
  BY CandidateInvariant, PTL DEF CandidateInv

(* What the decision sees of the best candidate. *)
LEMMA BestType ==
    ASSUME CandidateInv
    PROVE  /\ Found \in BOOLEAN /\ BestFace \in Int /\ BestName \in Int /\ BestDemo \in BOOLEAN
           /\ Found => /\ BestFace = FaceScore(best) /\ BestFace \in Scores
                       /\ BestName = NameScore(best) /\ BestName \in Scores
                       /\ BestDemo = Demo(best)
                       /\ Combined(best) = ComputeConfidence(BestFace, BestName, BestDemo)
           /\ ~Found => ~BestDemo
  <1>1. CASE Found
    <2>1. best \in 1..Len(faceMatches) /\ faceMatches[best].id \in Ids
      BY <1>1, EntryType DEF CandidateInv, TypeOK, Scanning, Found
    <2>2. FaceScore(best) \in Scores /\ NameScore(best) \in Scores /\ Demo(best) \in BOOLEAN
      BY <2>1, CandidateType DEF CandidateInv
    <2>3. QED BY <1>1, <2>2, ScoresAreNumbers DEF BestFace, BestName, BestDemo, Combined
  <1>2. CASE ~Found
    BY <1>2 DEF BestFace, BestName, BestDemo, Found
  <1>3. QED BY <1>1, <1>2

(* An exact repeat that was read has confidence 1, so the best candidate   *)
(* has it too: its face similarity is 1 and its demographics are the same, *)
(* and its name is within the rounding of 1.                               *)
THEOREM RepeatIsRecognised ==
    ASSUME NameBelowRounding
    PROVE  Spec => []ExactRepeatIsRecognised
  <1>1. ASSUME CandidateInv, NEW k \in read, ExactRepeat(k)
        PROVE  Enroll = "ALREADY_EXISTS"
    <2>1. k \in 1..Len(faceMatches) /\ faceMatches[k].id \in Ids
      BY <1>1, EntryType DEF CandidateInv, TypeOK, Scanning
    <2>2. FaceScore(k) \in Scores /\ NameScore(k) \in Scores /\ Demo(k) \in BOOLEAN
      BY <1>1, <2>1, CandidateType DEF CandidateInv
    <2>3. Combined(k) >= 10000
      <3>1. FaceScore(k) >= Highest /\ NameScore(k) >= Highest /\ Demo(k)
        BY SMT, <1>1, <2>2 DEF ExactRepeat, Highest
      <3>2. ComputeConfidence(FaceScore(k), NameScore(k), Demo(k)) >= Highest
        BY <2>2, <3>1, ExactConfidence, Zenon
      <3>3. QED BY SMT, <3>2 DEF Combined, Highest
    <2>4. Found /\ Combined(best) >= 10000
      <3>1. Found /\ Combined(k) <= Combined(best)
        BY <1>1 DEF CandidateInv, BestIsFirstMaximum
      <3>2. best \in 1..Len(faceMatches) /\ faceMatches[best].id \in Ids
        BY <1>1, <3>1, EntryType DEF CandidateInv, TypeOK, Scanning, Found
      <3>3. Combined(k) \in Int /\ Combined(best) \in Int
        BY <1>1, <2>1, <3>2, CandidateType DEF CandidateInv
      <3>4. QED BY SMT, <2>3, <3>1, <3>3
    <2>5. BestFace = 10000 /\ BestName >= 9998 /\ BestDemo
      BY SMT, <1>1, <2>4, BestType, TopConfidence
    <2>6. FaceDupThreshold \in Int /\ FaceDupThreshold <= 10000 /\ NameMatchThreshold \in Int
      <3>1. FaceDupThreshold <= Highest
        BY ThresholdsAreScores, HighestScore
      <3>2. QED BY SMT, <3>1, ThresholdsAreNumbers DEF Highest
    <2>7. IsDuplicate(Found, BestFace) /\ ~(BestName < NameMatchThreshold)
      BY SMT, <1>1, <2>4, <2>5, <2>6, BestType DEF IsDuplicate, NameBelowRounding
    <2>8. QED BY SMT, <2>5, <2>7 DEF Enroll, EnrollVerdict, DuplicateVerdict
  <1>2. CandidateInv => ExactRepeatIsRecognised
    BY <1>1 DEF ExactRepeatIsRecognised
  <1>3. QED BY <1>2, CandidateInvariant, PTL

(* A duplicate is a match to a live verification of the same data, unless  *)
(* its name or its demographics leave a doubt: then it is a partial one.   *)
THEOREM VerdictsAgree ==
    ASSUME DuplicateIsStrictest
    PROVE  Spec => []EnrollAndVerifyAgree
  <1>1. ASSUME CandidateInv
        PROVE  /\ Enroll = "ALREADY_EXISTS" /\ BestDemo => Verify(TRUE) = "MATCHED"
               /\ Enroll = "PARTIAL_MATCH" => Verify(TRUE) = "PARTIAL_MATCH"
               /\ Enroll = "POTENTIAL_FRAUD" => Verify(TRUE) = "PARTIAL_MATCH"
    <2>1. PICK face, name \in Int : face = BestFace /\ name = BestName
      BY <1>1, BestType
    <2>2. PICK found, demo \in BOOLEAN : (found <=> Found) /\ (demo <=> BestDemo)
      BY <1>1, BestType
    <2>3. QED BY SMT, <2>1, <2>2, ThresholdsAreNumbers
              DEF DuplicateIsStrictest, Enroll, Verify, EnrollVerdict, IsDuplicate, DuplicateVerdict,
                  VerifyVerdict, FullMatch, PartialMatch
  <1>2. CandidateInv => EnrollAndVerifyAgree
    BY <1>1 DEF EnrollAndVerifyAgree
  <1>3. QED BY <1>2, CandidateInvariant, PTL

(* The literals of the reasons never contradict a verdict taken from the   *)
(* configured thresholds, as long as none of those is lower.               *)
THEOREM ReasonsSupport ==
    ASSUME ReasonsBelowThresholds
    PROVE  Spec => []ExplanationSupportsVerdict
  <1>1. ASSUME CandidateInv, NEW live \in BOOLEAN
        PROVE  /\ Verify(live) = "MATCHED" =>
                    Reasons(live) = [live |-> TRUE, face |-> "strong", name |-> TRUE, demo |-> TRUE]
               /\ Verify(live) = "PARTIAL_MATCH" => Reasons(live).live /\ Reasons(live).face # "weak"
               /\ Enroll # "NEW_USER" => Reasons(live).face = "strong"
               /\ Enroll = "POTENTIAL_FRAUD" => Reasons(live).name /\ ~Reasons(live).demo
    <2>1. PICK face, name \in Int : face = BestFace /\ name = BestName
      BY <1>1, BestType
    <2>2. BestDemo \in BOOLEAN /\ Found \in BOOLEAN
      BY <1>1, BestType
    <2> DEFINE nm == name >= 7000
               fc == IF face >= 8000 THEN "strong" ELSE IF face >= 7200 THEN "moderate" ELSE "weak"
    <2>3. Reasons(live) = [live |-> live, face |-> fc, name |-> nm, demo |-> BestDemo]
      BY SMT, <2>1 DEF Reasons, Explanation
    <2>4. Verify(live) = "MATCHED" => live /\ face >= 8000 /\ name >= 7000 /\ BestDemo
      BY SMT, <2>1, <2>2, ThresholdsAreNumbers
         DEF ReasonsBelowThresholds, Verify, VerifyVerdict, FullMatch, PartialMatch
    <2>5. Verify(live) = "PARTIAL_MATCH" => live /\ face >= 7200
      BY SMT, <2>1, <2>2, ThresholdsAreNumbers
         DEF ReasonsBelowThresholds, Verify, VerifyVerdict, FullMatch, PartialMatch
    <2>6. Enroll # "NEW_USER" => face >= 8000
      BY SMT, <2>1, <2>2, ThresholdsAreNumbers
         DEF ReasonsBelowThresholds, Enroll, EnrollVerdict, IsDuplicate
    <2>7. Enroll = "POTENTIAL_FRAUD" => name >= 7000 /\ ~BestDemo
      BY SMT, <2>1, <2>2, ThresholdsAreNumbers
         DEF ReasonsBelowThresholds, Enroll, EnrollVerdict, DuplicateVerdict
    <2>8. /\ nm \in BOOLEAN /\ (face >= 7200 => fc # "weak") /\ (face >= 8000 => fc = "strong")
          /\ name >= 7000 => nm
      BY SMT, <2>1
    <2> HIDE DEF nm, fc
    <2>9. Verify(live) = "MATCHED" => live = TRUE /\ fc = "strong" /\ nm = TRUE /\ BestDemo = TRUE
      BY <2>2, <2>4, <2>8
    <2>10. /\ Reasons(live).live = live /\ Reasons(live).face = fc
           /\ Reasons(live).name = nm /\ Reasons(live).demo = BestDemo
      BY <2>3
    <2>11. Verify(live) = "MATCHED" =>
             Reasons(live) = [live |-> TRUE, face |-> "strong", name |-> TRUE, demo |-> TRUE]
      BY <2>3, <2>9, Zenon
    <2>12. Verify(live) = "PARTIAL_MATCH" => Reasons(live).live /\ Reasons(live).face # "weak"
      BY <2>5, <2>8, <2>10
    <2>13. Enroll # "NEW_USER" => Reasons(live).face = "strong"
      BY <2>6, <2>8, <2>10
    <2>14. Enroll = "POTENTIAL_FRAUD" => Reasons(live).name /\ ~Reasons(live).demo
      BY <2>7, <2>8, <2>10
    <2>15. QED BY <2>11, <2>12, <2>13, <2>14
  <1>2. CandidateInv => ExplanationSupportsVerdict
    BY <1>1 DEF ExplanationSupportsVerdict
  <1>3. QED BY <1>2, CandidateInvariant, PTL
=============================================================================
