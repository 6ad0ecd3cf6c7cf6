SPECIFICATION Spec
CONSTANTS
    FaceDupThreshold = 8200
    FaceMatchThreshold = 8000
    NameMatchThreshold = 7000
    PartialFaceThreshold = 7200
    Ids = {ada, bob}
    NoId = NoId
    ScoreValues <- MCScoreValues
    MaxMatches = 2
SYMMETRY Symmetry
INVARIANTS
    TypeOK
    NameScoresAreMaxima
    BestIsFirstMaximum
    ExactRepeatIsRecognised
    EnrollAndVerifyAgree
    ExplanationSupportsVerdict
CHECK_DEADLOCK FALSE
