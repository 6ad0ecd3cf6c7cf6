------------------------------ MODULE JobTopics ------------------------------
(***************************************************************************)
(* The command topics kyc_enroll and kyc_verify in Redpanda, as the API    *)
(* writes them: one append-only record sequence per partition.  A record   *)
(* is keyed by its transaction, so all copies of a job are in the same     *)
(* partition, and its content is determined by the transaction.            *)
(***************************************************************************)
EXTENDS Transactions, Sequences

CONSTANTS
    Partitions,      \* the partitions of the topics
    PartitionType,   \* [Partitions -> Types]: the topic a partition belongs to
    PartitionOf      \* [Txns -> Partitions]: where the key of a job hashes to

ASSUME TopicAssumption ==
    /\ PartitionType \in [Partitions -> Types]
    /\ PartitionOf \in [Txns -> Partitions]
    /\ \A t \in Txns : PartitionType[PartitionOf[t]] = JobType[t]

VARIABLE topic       \* topic[p]: the records of partition p, oldest first

TopicTypeOK == topic \in [Partitions -> Seq(Txns)]

TopicInit == topic = [p \in Partitions |-> <<>>]

Produce(t) == topic' = [topic EXCEPT ![PartitionOf[t]] = Append(@, t)]

Published(t) == \E k \in DOMAIN topic[PartitionOf[t]] : topic[PartitionOf[t]][k] = t
=============================================================================
