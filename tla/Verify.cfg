SPECIFICATION Spec
CONSTANTS
    ada1 = ada1
    ada2 = ada2
    adaCheck = adaCheck
    twin = twin
    Txns = {ada1, twin, adaCheck}
    Types <- MCTypes
    JobType <- Kind
    Partitions <- OnePartition
    PartitionType <- OneType
    PartitionOf <- OneOf
    InputKinds = {"valid"}
    Retries = 2
    Workers = {w1}
    FaceSim <- MCFaceSim
    NameSim <- MCNameSim
    SameDemo <- MCSameDemo
    Live <- MCLive
    TopK = 8
    FaceDupThreshold = 8200
    FaceMatchThreshold = 8000
    NameMatchThreshold = 7000
    PartialFaceThreshold = 7200
    FaultKinds = {"embed", "search", "upsert", "identityRead", "identityWrite", "callback", "decode"}
    MaxFaults = 3
INVARIANTS
    AnswersAreSupported
    CallbackAgreesWithStatus
PROPERTIES
    CompletedIsFinal
CHECK_DEADLOCK FALSE
