SPECIFICATION Spec
CONSTANTS
    s1 = s1
    s2 = s2
    s3 = s3
    g1 = g1
    g2 = g2
    Saves = {s1, s2, s3}
    Gets = {g1, g2}
    KeyOf <- MCKeyOf
    FaultKinds = {"fileRead", "fileWrite", "storeCrash", "redisSend", "redisError", "shortRead", "redisTimeout", "redisRestart"}
    MaxFaults = 3
INVARIANTS
    TypeOK
    FileIsWhole
    AcknowledgedIsInFile
PROPERTIES
    ImplementsKeyValue
CHECK_DEADLOCK FALSE
