SPECIFICATION FairSpec
CONSTANTS
    ada1 = ada1
    ada2 = ada2
    adaCheck = adaCheck
    twin = twin
    Txns = {ada1, adaCheck}
    Types <- MCTypes
    JobType <- Kind
    Partitions <- OnePartition
    PartitionType <- OneType
    PartitionOf <- OneOf
    InputKinds = {"valid"}
    Retries = 2
    Workers = {w1}
    FaceSim <- MCFaceSim
    NameSim <- MCNameSim
    SameDemo <- MCSameDemo
    Live <- MCLive
    TopK = 8
    FaceDupThreshold = 8200
    FaceMatchThreshold = 8000
    NameMatchThreshold = 7000
    PartialFaceThreshold = 7200
    FaultKinds = {"publish", "apiCrash", "embed", "upsert", "callback", "workerCrash", "sigterm"}
    MaxFaults = 2
INVARIANTS
    RefusedIsNotAccepted
    OneIdentityPerPerson
    CallbacksNameOneIdentity
PROPERTIES
    AcceptedIsDecided
CHECK_DEADLOCK FALSE
