---------------------------- MODULE BestCandidate ----------------------------
(***************************************************************************)
(* bestCandidate and the two decisions taken from its result: one call, a  *)
(* step per loop iteration.  The shortlists are whatever the vector        *)
(* searches returned and the metadata store may fail on any lookup.        *)
(***************************************************************************)
EXTENDS Scoring, Sequences

CONSTANTS
    Ids,           \* identities that may be in a shortlist
    NoId,          \* the identity of a point without payload ("")
    ScoreValues,   \* the similarities the searches may return
    MaxMatches     \* longest shortlist (TopK)

ASSUME CandidateAssumption ==
    /\ NoId \notin Ids
    /\ ScoreValues \subseteq Scores
    /\ MaxMatches \in Nat

Matches == [id : Ids \cup {NoId}, score : ScoreValues]

VARIABLES
    faceMatches,   \* face shortlist
    nameMatches,   \* name shortlist
    demographics,   \* [Ids -> "absent", "same" or "other"]: metadata and its demographic hash
    nameScores,    \* the map built from the name shortlist
    i, j,          \* next entry of the name and of the face shortlist
    read,          \* indexes of the face entries whose metadata was read
    best           \* index in faceMatches of the best candidate, 0 for none

vars == <<faceMatches, nameMatches, demographics, nameScores, i, j, read, best>>
inputs == <<faceMatches, nameMatches, demographics>>

Shortlists == UNION {[1..n -> Matches] : n \in 0..MaxMatches}

\* A point id is its identity id, so an identity occurs once in a shortlist.
DistinctIds(s) == \A m, n \in DOMAIN s : s[m].id = s[n].id => m = n \/ s[m].id = NoId

Init ==
    /\ faceMatches \in {s \in Shortlists : DistinctIds(s)}
    /\ nameMatches \in {s \in Shortlists : DistinctIds(s)}
    /\ demographics \in [Ids -> {"absent", "same", "other"}]
    /\ nameScores = [id \in Ids |-> 0]
    /\ i = 1 /\ j = 1 /\ read = {} /\ best = 0
-----------------------------------------------------------------------------
\* Mutant of ScanName: the score is stored without a comparison.
ScanNameOverwrites ==
    /\ i <= Len(nameMatches)
    /\ LET n == nameMatches[i] IN
         nameScores' = IF n.id # NoId THEN [nameScores EXCEPT ![n.id] = n.score] ELSE nameScores
    /\ i' = i + 1
    /\ UNCHANGED <<inputs, j, read, best>>

\* One entry of the name shortlist; a missing map key reads as 0.
ScanName ==
    /\ i <= Len(nameMatches)
    /\ LET n == nameMatches[i] IN
         nameScores' = IF n.id # NoId /\ n.score > nameScores[n.id]
                       THEN [nameScores EXCEPT ![n.id] = n.score] ELSE nameScores
    /\ i' = i + 1
    /\ UNCHANGED <<inputs, j, read, best>>

Demo(k) == demographics[faceMatches[k].id] = "same"
FaceScore(k) == faceMatches[k].score
NameScore(k) == nameScores[faceMatches[k].id]
Combined(k) == ComputeConfidence(FaceScore(k), NameScore(k), Demo(k))

\* Mutants of Improves: the last maximum; the best face.
ImprovesOnTie(k) == best = 0 \/ Combined(k) >= Combined(best)
ImprovesByFace(k) == best = 0 \/ FaceScore(k) > FaceScore(best)

Improves(k) == best = 0 \/ Combined(k) > Combined(best)

ScanningFaces == i > Len(nameMatches) /\ j <= Len(faceMatches)

\* Mutant of ScanFace: a candidate is kept before its metadata was read.
ScanFaceUnread ==
    /\ ScanningFaces
    /\ faceMatches[j].id # NoId
    /\ demographics[faceMatches[j].id] # "absent"
    /\ read' \in {read, read \cup {j}}
    /\ best' = IF Improves(j) THEN j ELSE best
    /\ j' = j + 1
    /\ UNCHANGED <<inputs, nameScores, i>>

\* A candidate whose metadata is there and could be read.
ScanFace ==
    /\ ScanningFaces
    /\ faceMatches[j].id # NoId
    /\ demographics[faceMatches[j].id] # "absent"
    /\ read' = read \cup {j}
    /\ best' = IF Improves(j) THEN j ELSE best
    /\ j' = j + 1
    /\ UNCHANGED <<inputs, nameScores, i>>

\* No payload, no metadata, or GetIdentity failed: the candidate is passed over.
SkipFace ==
    /\ ScanningFaces
    /\ j' = j + 1
    /\ UNCHANGED <<inputs, nameScores, i, read, best>>

Next == ScanName \/ ScanFace \/ SkipFace
Spec == Init /\ [][Next]_vars
-----------------------------------------------------------------------------
Done == i > Len(nameMatches) /\ j > Len(faceMatches)

\* best has the zero value when no candidate was read.
Found == best # 0
BestFace == IF Found THEN FaceScore(best) ELSE 0
BestName == IF Found THEN NameScore(best) ELSE 0
BestDemo == Found /\ Demo(best)

Enroll == EnrollVerdict(Found, BestFace, BestName, BestDemo)
Verify(live) == VerifyVerdict(Found, live, BestFace, BestName, BestDemo)
Reasons(live) == Explanation(BestFace, BestName, BestDemo, live)
-----------------------------------------------------------------------------
TypeOK ==
    /\ faceMatches \in Seq(Matches)
    /\ nameMatches \in Seq(Matches)
    /\ demographics \in [Ids -> {"absent", "same", "other"}]
    /\ nameScores \in [Ids -> Scores]
    /\ i \in 1..(Len(nameMatches) + 1)
    /\ j \in 1..(Len(faceMatches) + 1)
    /\ read \subseteq 1..(j - 1)
    /\ best \in read \cup {0}

(* The map holds the largest positive score of each identity seen so far:  *)
(* a negative similarity counts as "not in the shortlist".                 *)
NameScoresAreMaxima ==
    \A id \in Ids :
        /\ nameScores[id] >= 0
        /\ \A n \in 1..(i - 1) : nameMatches[n].id = id => nameMatches[n].score <= nameScores[id]
        /\ nameScores[id] # 0 =>
             \E n \in 1..(i - 1) : nameMatches[n] = [id |-> id, score |-> nameScores[id]]

(* Whatever lookups fail, the candidate kept is the first of highest       *)
(* combined confidence among those whose metadata was read.                *)
BestIsFirstMaximum ==
    /\ Found <=> read # {}
    /\ \A k \in read : Combined(k) <= Combined(best) /\ (Combined(k) = Combined(best) => best <= k)

(* README "duplicate enrollment detection": when the very same enrollment  *)
(* is in the shortlist (both similarities 1, same demographics) and its    *)
(* metadata could be read, no other candidate can hide it: the verdict is  *)
(* ALREADY_EXISTS.                                                         *)
ExactRepeat(k) == FaceScore(k) = 10000 /\ NameScore(k) = 10000 /\ Demo(k)
ExactRepeatIsRecognised ==
    Done /\ (\E k \in read : ExactRepeat(k)) => Enroll = "ALREADY_EXISTS"

(* The two operations agree on a duplicate: one that enrollment recognises *)
(* by face, name and demographics is MATCHED by a live verification, and   *)
(* one it doubts, by name or by demographics, is a PARTIAL_MATCH.  The     *)
(* converse does not hold: a face between the two thresholds is a NEW_USER *)
(* and yet MATCHED.                                                        *)
EnrollAndVerifyAgree ==
    Done =>
      /\ Enroll = "ALREADY_EXISTS" /\ BestDemo => Verify(TRUE) = "MATCHED"
      /\ Enroll = "PARTIAL_MATCH" => Verify(TRUE) = "PARTIAL_MATCH"
      /\ Enroll = "POTENTIAL_FRAUD" => Verify(TRUE) = "PARTIAL_MATCH"

(* The reasons returned with a verdict support it: MATCHED comes with      *)
(* liveness passed, a strong face, the name and the demographics, a        *)
(* duplicate with a strong face, and a PARTIAL_MATCH never with a weak     *)
(* one.  The reasons use literals, so this rests on the thresholds not     *)
(* being configured below them.                                            *)
ExplanationSupportsVerdict ==
    Done => \A live \in BOOLEAN :
      LET why == Reasons(live) IN
      /\ Verify(live) = "MATCHED" => why = [live |-> TRUE, face |-> "strong", name |-> TRUE, demo |-> TRUE]
      /\ Verify(live) = "PARTIAL_MATCH" => why.live /\ why.face # "weak"
      /\ Enroll # "NEW_USER" => why.face = "strong"
      /\ Enroll = "POTENTIAL_FRAUD" => why.name /\ ~why.demo
=============================================================================
