------------------------------- MODULE Scoring -------------------------------
(***************************************************************************)
(* The arithmetic of a KYC decision: the combined confidence of a          *)
(* candidate, the verdict of an enrollment and of a verification, and the  *)
(* explanation that goes with it.                                          *)
(*                                                                         *)
(* A similarity is an integer number of ten-thousandths (8200 is 0.82),    *)
(* the precision round4 keeps; a cosine similarity lies in -10000..10000.  *)
(***************************************************************************)
EXTENDS Integers

CONSTANTS
    FaceDupThreshold,      \* from this face similarity on, an enrollment is a duplicate
    FaceMatchThreshold,    \* face similarity a MATCHED verification needs
    NameMatchThreshold,    \* name similarity that counts as the same name
    PartialFaceThreshold   \* face similarity a PARTIAL_MATCH verification needs

Scores == -10000..10000

ASSUME ThresholdsAreScores ==
    /\ FaceDupThreshold \in Scores
    /\ FaceMatchThreshold \in Scores
    /\ NameMatchThreshold \in Scores
    /\ PartialFaceThreshold \in Scores

-----------------------------------------------------------------------------
\* 0.65*face + 0.25*name + 0.10*demo, in millionths.
Weighted(face, name, demo) == 65 * face + 25 * name + (IF demo THEN 100000 ELSE 0)

Clamp01(x) == IF x < 0 THEN 0 ELSE IF x > 1000000 THEN 1000000 ELSE x

\* Rounded half up to four decimals; the argument is never negative here.
ComputeConfidence(face, name, demo) ==
    (Clamp01(Weighted(face, name, demo)) + 50) \div 100

-----------------------------------------------------------------------------
(* A candidate is a record [id, face, name, demo]; NoId is the empty       *)
(* identity of the Go zero value.                                          *)

IsDuplicate(found, face) == found /\ face >= FaceDupThreshold

\* Mutant of DuplicateVerdict: a name at the threshold is another name.
DuplicateVerdictStrict(name, demo) ==
    CASE ~demo /\ name > NameMatchThreshold -> "POTENTIAL_FRAUD"
      [] demo /\ name <= NameMatchThreshold -> "PARTIAL_MATCH"
      [] OTHER                              -> "ALREADY_EXISTS"

DuplicateVerdict(name, demo) ==
    CASE ~demo /\ name >= NameMatchThreshold -> "POTENTIAL_FRAUD"
      [] demo /\ name < NameMatchThreshold   -> "PARTIAL_MATCH"
      [] OTHER                               -> "ALREADY_EXISTS"

EnrollVerdict(found, face, name, demo) ==
    IF IsDuplicate(found, face) THEN DuplicateVerdict(name, demo) ELSE "NEW_USER"

FullMatch(face, name, demo) ==
    face >= FaceMatchThreshold /\ name >= NameMatchThreshold /\ demo

PartialMatch(face, name, demo) ==
    face >= PartialFaceThreshold /\ (name >= 5500 \/ demo)

VerifyVerdict(found, live, face, name, demo) ==
    IF ~(found /\ live)             THEN "NO_MATCH"
    ELSE IF FullMatch(face, name, demo)    THEN "MATCHED"
    ELSE IF PartialMatch(face, name, demo) THEN "PARTIAL_MATCH"
    ELSE "NO_MATCH"

\* Mutant of Explanation: a name at the threshold is another name.
ExplanationStrict(face, name, demo, live) ==
    [live |-> live,
     face |-> IF face >= 8000 THEN "strong" ELSE IF face >= 7200 THEN "moderate" ELSE "weak",
     name |-> name > 7000,
     demo |-> demo]

\* The reasons given with a verdict: the literals 0.80, 0.72 and 0.70 are the
\* code's, whatever the thresholds are configured to.
Explanation(face, name, demo, live) ==
    [live |-> live,
     face |-> IF face >= 8000 THEN "strong" ELSE IF face >= 7200 THEN "moderate" ELSE "weak",
     name |-> name >= 7000,
     demo |-> demo]
=============================================================================
