---------------------------- MODULE ScoringProofs ----------------------------
(* Lemmas about the arithmetic of a confidence: what clamping and rounding *)
(* to four decimals do to the order of candidates.                         *)
EXTENDS Scoring, TLAPS

\* Zenon writes a number in unary: what holds a large one is left to SMT.

\* Similarity 1.
Highest == 10000

LEMMA HighestScore == Scores \subseteq Int /\ \A x \in Scores : x <= Highest
  BY SMT DEF Scores, Highest

LEMMA ScoresAreNumbers == \A x \in Scores : x \in Int
  BY DEF Scores

\* The thresholds are numbers.
LEMMA ThresholdsAreNumbers ==
    /\ FaceDupThreshold \in Int /\ FaceMatchThreshold \in Int
    /\ NameMatchThreshold \in Int /\ PartialFaceThreshold \in Int
  BY ThresholdsAreScores, ScoresAreNumbers

(* What clamping and rounding do to a sum in millionths. *)
LEMMA Clamped == \A w \in Int : /\ Clamp01(w) \in Int /\ Clamp01(w) >= 0 /\ Clamp01(w) <= 1000000
                                /\ Clamp01(w) >= 999950 => w >= 999950
  BY SMT DEF Clamp01

LEMMA Rounded == \A x \in Int : x >= 0 /\ x <= 1000000 =>
                   LET q == (x + 50) \div 100 IN
                   /\ q \in Int /\ q >= 0 /\ q <= 10000
                   /\ q >= 10000 => x >= 999950
  BY SMT

(* The sum behind a confidence is a number. *)
LEMMA WeightedType == \A face, name \in Scores, demo \in BOOLEAN : Weighted(face, name, demo) \in Int
  <1> SUFFICES ASSUME NEW face \in Scores, NEW name \in Scores, NEW demo \in BOOLEAN
               PROVE  Weighted(face, name, demo) \in Int
    OBVIOUS
  <1>1. face \in Int /\ name \in Int
    BY ScoresAreNumbers
  <1>2. QED BY SMT, <1>1 DEF Weighted

(* A confidence is a number of ten-thousandths between 0 and 1. *)
LEMMA ConfidenceType ==
    ASSUME NEW face \in Scores, NEW name \in Scores, NEW demo \in BOOLEAN
    PROVE  /\ ComputeConfidence(face, name, demo) \in Int
           /\ ComputeConfidence(face, name, demo) >= 0
           /\ ComputeConfidence(face, name, demo) <= 10000
  <1>1. PICK w \in Int : w = Weighted(face, name, demo)
    BY SMT, WeightedType
  <1>2. PICK x \in Int : x = Clamp01(w) /\ x >= 0 /\ x <= 1000000
    BY SMT, Clamped
  <1>3. ComputeConfidence(face, name, demo) = (x + 50) \div 100
    BY SMT, <1>1, <1>2 DEF ComputeConfidence
  <1>4. QED BY SMT, <1>2, <1>3, Rounded

(* Confidence 1 needs face similarity 1, the same demographics and a name  *)
(* similarity that rounding brings to 1.                                   *)
LEMMA TopConfidence ==
    ASSUME NEW face \in Scores, NEW name \in Scores, NEW demo \in BOOLEAN,
           ComputeConfidence(face, name, demo) >= 10000
    PROVE  face = 10000 /\ name >= 9998 /\ demo
  <1>1. PICK w \in Int : w = Weighted(face, name, demo)
    BY SMT, WeightedType
  <1>2. PICK x \in Int : x = Clamp01(w) /\ x >= 0 /\ x <= 1000000
    BY SMT, Clamped
  <1>3. (x + 50) \div 100 >= 10000
    BY SMT, <1>1, <1>2 DEF ComputeConfidence
  <1>4. w >= 999950
    BY SMT, <1>2, <1>3, Rounded, Clamped
  <1>5. face \in Int /\ name \in Int /\ face <= 10000 /\ name <= 10000
    BY SMT DEF Scores
  <1>6. demo
    <2>1. SUFFICES ASSUME ~demo PROVE FALSE
      OBVIOUS
    <2>2. w = 65 * face + 25 * name
      BY SMT, <1>1, <1>5, <2>1 DEF Weighted
    <2>3. QED BY SMT, <1>4, <1>5, <2>2
  <1>7. w = 65 * face + 25 * name + 100000
    BY SMT, <1>1, <1>6 DEF Weighted
  <1>8. face = 10000
    BY SMT, <1>4, <1>5, <1>7
  <1>9. name >= 9998
    BY SMT, <1>4, <1>5, <1>7
  <1>10. QED BY SMT, <1>6, <1>8, <1>9

(* An exact repeat has it. *)
LEMMA ExactConfidence ==
    ASSUME NEW face \in Scores, NEW name \in Scores, NEW demo \in BOOLEAN
    PROVE  face >= Highest /\ name >= Highest /\ demo => ComputeConfidence(face, name, demo) >= Highest
  <1>1. PICK w \in Int : w = Weighted(face, name, demo)
    BY SMT, WeightedType
  <1>2. face >= 10000 /\ name >= 10000 /\ demo => w >= 1000000
    BY SMT, <1>1 DEF Weighted, Scores
  <1>3. \A v \in Int : v >= 1000000 => Clamp01(v) >= 1000000
    BY SMT DEF Clamp01
  <1>4. \A x \in Int : x >= 1000000 => (x + 50) \div 100 >= 10000
    BY SMT
  <1>5. ComputeConfidence(face, name, demo) = (Clamp01(w) + 50) \div 100
    BY SMT, <1>1 DEF ComputeConfidence
  <1>6. PICK x \in Int : x = Clamp01(w) /\ (w >= 1000000 => x >= 1000000)
    BY SMT, <1>3, Clamped
  <1>7. x >= 1000000 => (x + 50) \div 100 >= 10000
    BY SMT, <1>4
  <1>8. QED BY SMT, <1>2, <1>5, <1>6, <1>7 DEF Highest

(* A candidate with confidence 1 is at least as similar as any threshold. *)
LEMMA TopIsDuplicate ==
    ASSUME NEW face \in Scores, NEW name \in Scores, NEW demo \in BOOLEAN,
           ComputeConfidence(face, name, demo) >= Highest
    PROVE  face >= FaceDupThreshold
  <1>1. ComputeConfidence(face, name, demo) >= 10000
    BY SMT DEF Highest
  <1>2. face = 10000
    BY SMT, <1>1, TopConfidence
  <1>3. face = Highest
    BY SMT, <1>2 DEF Highest
  <1>4. FaceDupThreshold <= Highest
    BY ThresholdsAreScores, HighestScore
  <1>5. QED BY <1>3, <1>4
=============================================================================
