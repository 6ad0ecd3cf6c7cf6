SPECIFICATION Spec
CONSTANTS
    ada1 = ada1
    ada2 = ada2
    adaCheck = adaCheck
    twin = twin
    Txns = {ada1, ada2}
    Types <- MCTypes
    JobType <- Kind
    Partitions <- EachPartition
    PartitionType <- EachType
    PartitionOf <- EachOf
    InputKinds = {"valid"}
    Retries = 2
    Workers = {w1, w2}
    FaceSim <- MCFaceSim
    NameSim <- MCNameSim
    SameDemo <- MCSameDemo
    Live <- MCLive
    TopK = 8
    FaceDupThreshold = 8200
    FaceMatchThreshold = 8000
    NameMatchThreshold = 7000
    PartialFaceThreshold = 7200
    FaultKinds = {"embed", "upsert", "workerCrash", "sigterm", "instanceLost"}
    MaxFaults = 1
SYMMETRY WorkerSymmetry
INVARIANTS
    AnswersAreDurable
    ProcessingIsPending
CHECK_DEADLOCK FALSE
