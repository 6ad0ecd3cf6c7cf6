-------------------------------- MODULE Worker --------------------------------
(***************************************************************************)
(* cmd/worker: the consumer loops, what they do with the events they poll, *)
(* and the start and stop of the process.                                  *)
(***************************************************************************)
EXTENDS KYCService, JobTopics

VARIABLES
    joined, owner, position, unsettled,   \* see ConsumerGroups
    batch          \* batch[l][p]: polled events of partition p loop l has not taken yet

Groups == INSTANCE ConsumerGroups
groupVars == <<joined, owner, position, unsettled>>

workVars == <<status, late, faults, topic, facePoints, namePoints, identities, minted,
              lateFaces, lateNames, lateIdentities, worker,
              call, told, joined, owner, position, unsettled, batch>>

NoEvents == [p \in Partitions |-> <<>>]

WorkerTypeOK ==
    /\ ServiceTypeOK /\ Groups!GroupTypeOK
    /\ batch \in [Loops -> [Partitions -> Seq(Txns)]]

WorkerInit ==
    /\ ServiceInit /\ Groups!GroupInit
    /\ batch = [l \in Loops |-> NoEvents]

LoopsOf(w) == {l \in Loops : l[1] = w}
Drained(l) == call[l] = Idle /\ batch[l] = NoEvents
-----------------------------------------------------------------------------
\* The records of a poll: from every partition of the loop, any number of the
\* next ones, at least one altogether.
Fetch(l) ==
    /\ worker[l[1]] = "running" /\ l \in joined /\ Drained(l)
    /\ position' \in [Partitions -> UNION {0..Len(topic[p]) : p \in Partitions}]
    /\ position' # position
    /\ \A p \in Partitions : IF p \in Groups!Owned(l) THEN position'[p] \in position[p]..Len(topic[p])
                                                     ELSE position'[p] = position[p]
    /\ UNCHANGED <<joined, owner, unsettled>>

Poll(l) ==
    /\ Fetch(l) /\ NoFault
    /\ batch' = [batch EXCEPT ![l] = [p \in Partitions |-> SubSeq(topic[p], position[p] + 1, position'[p])]]
    /\ UNCHANGED <<status, late, topic, stores, worker, call, told>>

\* The answer is lost or cannot be parsed: the loop logs it and polls on, and
\* the records it held are behind the position.
PollFails(l) ==
    /\ Fetch(l) /\ Fault("pollReply")
    /\ UNCHANGED <<status, late, topic, stores, worker, call, told, batch>>

\* The next event of the batch (the batch is worked off after SIGTERM, too).
Take(l, p) ==
    /\ worker[l[1]] # "down" /\ call[l] = Idle /\ batch[l][p] # <<>>
    /\ batch' = [batch EXCEPT ![l][p] = Tail(@)]
    /\ \/ NoFault /\ Set(l, NewCall(Head(batch[l][p]), "start"))
       \/ Fault("decode") /\ Set(l, NewCall(Head(batch[l][p]), "failAgain"))
    /\ UNCHANGED <<status, late, topic, stores, worker, told, groupVars>>
-----------------------------------------------------------------------------
Sigterm(w) ==
    /\ worker[w] = "running" /\ Fault("sigterm")
    /\ worker' = [worker EXCEPT ![w] = "stopping"]
    /\ UNCHANGED <<status, late, topic, stores, call, told, groupVars, batch>>

\* Mutant of Exit: without the deferred Close calls.
ExitWithoutClose(w) ==
    /\ worker[w] = "stopping" /\ \A l \in LoopsOf(w) : Drained(l)
    /\ worker' = [worker EXCEPT ![w] = "down"] /\ NoFault
    /\ UNCHANGED <<status, late, topic, stores, call, told, groupVars, batch>>

\* Both loops have returned: the consumer instances are deleted.
Exit(w) ==
    /\ worker[w] = "stopping" /\ \A l \in LoopsOf(w) : Drained(l)
    /\ worker' = [worker EXCEPT ![w] = "down"]
    /\ Groups!Leave(LoopsOf(w)) /\ NoFault
    /\ UNCHANGED <<status, late, topic, stores, call, told, batch>>

\* The process dies: calls and batches are gone, the instances expire.
Crash(w) ==
    /\ worker[w] # "down" /\ Fault("workerCrash")
    /\ worker' = [worker EXCEPT ![w] = "down"]
    /\ call' = [l \in Loops |-> IF l[1] = w THEN Idle ELSE call[l]]
    /\ batch' = [l \in Loops |-> IF l[1] = w THEN NoEvents ELSE batch[l]]
    /\ Groups!Leave(LoopsOf(w))
    /\ UNCHANGED <<status, late, topic, stores, told>>

Restart(w) ==
    /\ worker[w] = "down"
    /\ worker' = [worker EXCEPT ![w] = "running"]
    /\ Groups!Join(LoopsOf(w)) /\ NoFault
    /\ UNCHANGED <<status, late, topic, stores, call, told, batch>>

\* The proxy forgets an instance (it restarted, or the instance was idle for
\* too long).  The loop goes on polling it and never creates another.
InstanceLost(l) ==
    /\ l \in joined /\ Fault("instanceLost")
    /\ Groups!Leave({l})
    /\ UNCHANGED <<status, late, topic, stores, worker, call, told, batch>>

Rebalance(type) ==
    /\ Groups!Rebalance(type) /\ NoFault
    /\ UNCHANGED <<status, late, topic, stores, worker, call, told, batch>>
-----------------------------------------------------------------------------
RunLoop(l) ==
    \/ Poll(l)
    \/ \E p \in Partitions : Take(l, p)
    \/ Work(l) /\ UNCHANGED <<topic, groupVars, batch>>

Stop(w) == Sigterm(w) \/ Crash(w)

WorkerNext ==
    \/ \E l \in Loops : RunLoop(l) \/ PollFails(l) \/ InstanceLost(l)
    \/ \E w \in Workers : Stop(w) \/ Exit(w) \/ Restart(w)
    \/ \E type \in Types : Rebalance(type)
    \/ Land /\ UNCHANGED <<topic, groupVars, batch>>
=============================================================================
