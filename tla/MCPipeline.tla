------------------------------ MODULE MCPipeline ------------------------------
(* Instances of the pipeline: who the transactions are about, and how the  *)
(* jobs are spread over partitions.                                        *)
EXTENDS Pipeline, TLC

CONSTANTS ada1, ada2, adaCheck, twin

\* Ada enrolls twice and is verified; her twin has a similar face and name but
\* another date of birth.
Kind == [t \in Txns |-> IF t = adaCheck THEN "verify" ELSE "enroll"]
Ada == {ada1, ada2, adaCheck}
SameSide(t, u) == (t \in Ada) = (u \in Ada)

MCTypes == {Kind[t] : t \in Txns}
MCFaceSim == [t \in Txns |-> [u \in Txns |-> IF SameSide(t, u) THEN 10000 ELSE 8300]]
MCNameSim == [t \in Txns |-> [u \in Txns |-> IF SameSide(t, u) THEN 10000 ELSE 9000]]
MCSameDemo == [t \in Txns |-> [u \in Txns |-> SameSide(t, u)]]
MCLive == [t \in Txns |-> TRUE]

\* One partition per topic, named by the type; or one partition per transaction.
OnePartition == MCTypes
OneOf == Kind
OneType == [p \in MCTypes |-> p]
EachPartition == Txns
EachOf == [t \in Txns |-> t]
EachType == Kind

WorkerSymmetry == Permutations(Workers)
=============================================================================
