---------------------------- MODULE ConsumerGroups ----------------------------
(***************************************************************************)
(* The consumer side of Redpanda's HTTP proxy, as the workers use it: one  *)
(* consumer group per topic, whose members are the consumer instances the  *)
(* loops of the workers created.  External to the repository.  No part of  *)
(* the repository commits an offset or asks the proxy to, so a group never *)
(* has one, and auto.offset.reset = earliest, which the workers ask for,   *)
(* applies to every assignment.  Each start of a worker makes instances of *)
(* new names.                                                              *)
(***************************************************************************)
EXTENDS JobTopics

CONSTANT Loops     \* consumer loops <<worker, type>>

VARIABLES
    joined,        \* loops whose consumer instance exists in the proxy
    owner,         \* owner[p]: the loop partition p is assigned to, or Nobody
    position,      \* position[p]: records of p handed out since its last assignment
    unsettled      \* types whose group has to rebalance

Nobody == <<>>

GroupTypeOK ==
    /\ joined \subseteq Loops
    /\ owner \in [Partitions -> Loops \cup {Nobody}]
    /\ position \in [Partitions -> Nat]
    /\ unsettled \subseteq Types

GroupInit ==
    /\ joined = Loops
    /\ owner = [p \in Partitions |-> Nobody]
    /\ position = [p \in Partitions |-> 0]
    /\ unsettled = Types

Owned(l) == {p \in Partitions : owner[p] = l}
Members(type) == {l \in joined : l[2] = type}

\* Mutant of Rebalance: offsets are committed as records are handed out.
RebalanceResumes(type) ==
    /\ type \in unsettled
    /\ unsettled' = unsettled \ {type}
    /\ \E assignment \in [{p \in Partitions : PartitionType[p] = type} -> Members(type)] :
         owner' = [p \in Partitions |-> IF PartitionType[p] = type THEN assignment[p] ELSE owner[p]]
    /\ UNCHANGED <<joined, position>>

\* Every partition of the topic gets an owner among the members and is read
\* from its earliest record.
Rebalance(type) ==
    /\ type \in unsettled
    /\ unsettled' = unsettled \ {type}
    /\ \E assignment \in [{p \in Partitions : PartitionType[p] = type} -> Members(type)] :
         owner' = [p \in Partitions |-> IF PartitionType[p] = type THEN assignment[p] ELSE owner[p]]
    /\ position' = [p \in Partitions |-> IF PartitionType[p] = type THEN 0 ELSE position[p]]
    /\ UNCHANGED joined

\* The loops ls leave their groups, or their instances expire.
Leave(ls) ==
    /\ joined' = joined \ ls
    /\ owner' = [p \in Partitions |-> IF owner[p] \in ls THEN Nobody ELSE owner[p]]
    /\ unsettled' = unsettled \cup {l[2] : l \in ls}
    /\ UNCHANGED position

Join(ls) ==
    /\ joined' = joined \cup ls
    /\ unsettled' = unsettled \cup {l[2] : l \in ls}
    /\ UNCHANGED <<owner, position>>
=============================================================================
