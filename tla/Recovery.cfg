SPECIFICATION Spec
CONSTANTS
    ada1 = ada1
    ada2 = ada2
    adaCheck = adaCheck
    twin = twin
    Txns = {ada1, ada2}
    Types <- MCTypes
    JobType <- Kind
    Partitions <- OnePartition
    PartitionType <- OneType
    PartitionOf <- OneOf
    InputKinds = {"valid"}
    Retries = 2
    Workers = {w1}
    FaceSim <- MCFaceSim
    NameSim <- MCNameSim
    SameDemo <- MCSameDemo
    Live <- MCLive
    TopK = 2
    FaceDupThreshold = 8200
    FaceMatchThreshold = 8000
    NameMatchThreshold = 7000
    PartialFaceThreshold = 7200
    FaultKinds = {"publish", "apiCrash", "statusWrite", "lateWrite", "decode", "embed", "search", "upsert", "identityWrite", "callback", "pollReply", "sigterm", "workerCrash", "instanceLost"}
    MaxFaults = 3
INVARIANTS
    TypeOK
    IdentityHasVectors
    AnswersAreDurable
    OneIdentityUnlessCrowdedOrLate
    OrphansArePaid
PROPERTIES
    NoReturnToAccepted
    ImplementsRegistry
    WorkersAreProcesses
CHECK_DEADLOCK FALSE
