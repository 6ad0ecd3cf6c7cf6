SPECIFICATION HttpSpec
CONSTANTS
    e1 = e1
    e2 = e2
    v = v
    client = client
    Txns = {e1, e2, v}
    Types <- MCTypes
    JobType <- MCJobType
    Partitions <- MCTypes
    PartitionType <- MCPartitionType
    PartitionOf <- MCJobType
    InputKinds = {"valid", "invalid", "unreadable"}
    Retries = 3
    FaultKinds = {"publish", "statusWrite", "lateWrite", "apiCrash"}
    MaxFaults = 4
    Clients = {client}
    ClientOf <- MCClientOf
    Limit = 2
    Window = 2
    MaxTime = 5
SYMMETRY Symmetry
INVARIANTS
    SubmitTypeOK
    LimiterTypeOK
    AcceptedIsPublished
    PublishedHasRecord
    CopiesAreBounded
    AdmissionIsBounded
    RefusalIsDeserved
CHECK_DEADLOCK FALSE
