--------------------------- MODULE ConsumerLifecycle ---------------------------
(***************************************************************************)
(* The start and the end of a worker process: the collections of the       *)
(* vector store, one consumer instance per command topic in the HTTP       *)
(* proxy, and their removal after SIGTERM.  Each life of the process has   *)
(* instance names of its own.  The proxy drops instances nobody polls.     *)
(***************************************************************************)
EXTENDS Faults, FiniteSets

CONSTANTS
    Attempts,     \* attempts of retryWithLog (120)
    MaxLives      \* bound: how often the process is started

ASSUME LifecycleAssumption == {Attempts, MaxLives} \subseteq Nat \ {0}

VARIABLES
    life,         \* which life of the process this is
    stage,        \* what the process is doing
    group,        \* the consumer it starts or closes
    attempt,      \* attempts made at the present dependency
    cancelled,    \* SIGTERM has come: ctx is cancelled
    collections,  \* collections that exist in the vector store
    instances,    \* consumer instances that exist in the proxy
    subscribed,   \* those with a subscription
    dropped       \* groups whose instance the proxy dropped, and nobody created again

processVars == <<life, stage, group, attempt, cancelled>>
proxyVars == <<instances, subscribed, dropped>>
vars == <<faults, processVars, collections, proxyVars>>

Groups == {"enroll", "verify"}
\* An instance is known by its group and the life that named it.
Instances == [group : Groups, life : 1..MaxLives]
Stages == {"down", "face", "name", "ready", "create", "conflict", "recreate",
           "subscribe", "running", "close"}
Alive == stage # "down"

TypeOK ==
    /\ FaultsTypeOK
    /\ life \in 0..MaxLives /\ stage \in Stages /\ group \in Groups /\ (Alive => life > 0)
    /\ attempt \in 0..Attempts /\ cancelled \in BOOLEAN
    /\ collections \subseteq {"face", "name"}
    /\ subscribed \subseteq instances /\ instances \subseteq Instances
    /\ dropped \subseteq Groups

Init ==
    /\ faults = 0 /\ life = 0 /\ stage = "down" /\ group = "enroll"
    /\ attempt = 0 /\ cancelled = FALSE
    /\ collections = {} /\ instances = {} /\ subscribed = {} /\ dropped = {}

\* utils.NewID, once in every life, before the first attempt.
Own(g) == [group |-> g, life |-> life]

OfThisLife(i) == i.life = life
-----------------------------------------------------------------------------
Goto(next) == stage' = next /\ UNCHANGED <<life, cancelled>>
Step(next) == Goto(next) /\ UNCHANGED <<group, attempt>>
Succeed(next) == Goto(next) /\ attempt' = 0

\* Mutant of Retry: it never gives up.
RetryForever(first) == Goto(first) /\ UNCHANGED <<group, attempt>>

\* Mutant of Retry: one attempt too many.
RetryOnceMore(first) ==
    /\ attempt' = attempt + 1
    /\ Goto(IF attempt' <= Attempts THEN first ELSE "down")
    /\ UNCHANGED group

\* retryWithLog: again from the first call, or log.Fatalf, which ends the
\* process without the deferred calls.  It does not look at ctx.
Retry(first) ==
    /\ attempt' = attempt + 1
    /\ Goto(IF attempt' < Attempts THEN first ELSE "down")
    /\ UNCHANGED group

Launch ==
    /\ ~Alive /\ life < MaxLives
    /\ life' = life + 1 /\ stage' = "face" /\ group' = "enroll"
    /\ attempt' = 0 /\ cancelled' = FALSE /\ dropped' = {}
    /\ NoFault /\ UNCHANGED <<collections, instances, subscribed>>
-----------------------------------------------------------------------------
\* EnsureCollections: one PUT per collection; 409 means it exists.
EnsureFace ==
    /\ stage = "face" /\ collections' = collections \cup {"face"}
    /\ Step("name") /\ NoFault /\ UNCHANGED proxyVars

EnsureName ==
    /\ stage = "name" /\ collections' = collections \cup {"name"}
    /\ Succeed("ready") /\ NoFault /\ UNCHANGED <<group, proxyVars>>

\* Mutant of EnsureFails: only the collection that failed is tried again, and
\* the first is taken for done.
EnsureFailsOnward ==
    /\ stage \in {"face", "name"} /\ Fault("qdrant")
    /\ collections' \in {collections, collections \cup {stage}}
    /\ Retry("name") /\ UNCHANGED proxyVars

EnsureFails ==
    /\ stage \in {"face", "name"} /\ Fault("qdrant")
    /\ collections' \in {collections, collections \cup {stage}}
    /\ Retry("face") /\ UNCHANGED proxyVars

\* WaitForKafkaREST: GET /topics answers, or not within five seconds.
Ready ==
    /\ stage = "ready"
    /\ Succeed("create") /\ NoFault /\ UNCHANGED <<group, collections, proxyVars>>

NotReady ==
    /\ stage = "ready" /\ Fault("proxy")
    /\ Retry("ready") /\ UNCHANGED <<collections, proxyVars>>
-----------------------------------------------------------------------------
AddInstance ==
    /\ instances' = instances \cup {Own(group)} /\ dropped' = dropped \ {group}
    /\ UNCHANGED subscribed

RemoveInstance ==
    /\ instances' = instances \ {Own(group)} /\ subscribed' = subscribed \ {Own(group)}
    /\ UNCHANGED dropped

\* The request is not made because ctx is cancelled, or it fails with or
\* without its effect.
CallFails(effect) ==
    \/ cancelled /\ NoFault /\ UNCHANGED proxyVars
    \/ ~cancelled /\ Fault("proxy") /\ (effect \/ UNCHANGED proxyVars)

\* Start: POST creates the instance, unless its name is taken.
Create ==
    /\ stage = "create" /\ ~cancelled
    /\ IF Own(group) \in instances THEN Step("conflict") /\ UNCHANGED proxyVars
                                   ELSE Step("subscribe") /\ AddInstance
    /\ NoFault /\ UNCHANGED collections

CreateFails ==
    /\ stage \in {"create", "recreate"} /\ CallFails(AddInstance)
    /\ Retry("create") /\ UNCHANGED collections

\* After a 409 the instance is deleted; whether that worked is not looked at.
DeleteFirst ==
    /\ stage = "conflict" /\ Step("recreate")
    /\ \/ NoFault /\ RemoveInstance
       \/ Fault("proxy") /\ (RemoveInstance \/ UNCHANGED proxyVars)
    /\ UNCHANGED collections

Recreate ==
    /\ stage = "recreate" /\ ~cancelled
    /\ IF Own(group) \in instances THEN Retry("create") /\ UNCHANGED proxyVars
                                   ELSE Step("subscribe") /\ AddInstance
    /\ NoFault /\ UNCHANGED collections

\* The consumer is started: the other one is next, or the loops.
Started ==
    \/ group = "enroll" /\ Succeed("create") /\ group' = "verify"
    \/ group = "verify" /\ Succeed("running") /\ UNCHANGED group

AddSubscription == subscribed' = subscribed \cup {Own(group)} /\ UNCHANGED <<instances, dropped>>

Subscribe ==
    /\ stage = "subscribe" /\ ~cancelled
    /\ IF Own(group) \in instances THEN Started /\ AddSubscription
                                   ELSE Retry("create") /\ UNCHANGED proxyVars
    /\ NoFault /\ UNCHANGED collections

\* Mutant of SubscribeFails: the error of the request is not returned.
SubscribeErrorDropped ==
    /\ stage = "subscribe" /\ Own(group) \in instances /\ CallFails(AddSubscription)
    /\ Started /\ UNCHANGED collections

SubscribeFails ==
    /\ stage = "subscribe"
    /\ IF Own(group) \in instances THEN CallFails(AddSubscription) ELSE CallFails(FALSE)
    /\ Retry("create") /\ UNCHANGED collections
-----------------------------------------------------------------------------
\* Before NotifyContext SIGTERM ends the process, after it ctx is cancelled.
Sigterm ==
    /\ Alive /\ ~cancelled /\ Fault("sigterm")
    /\ cancelled' = TRUE
    /\ stage' = IF stage \in {"face", "name", "ready"} THEN "down" ELSE stage
    /\ UNCHANGED <<life, group, attempt, collections, proxyVars>>

\* Both loops have returned: the deferred Close calls, the last one first.
StopLoops ==
    /\ stage = "running" /\ cancelled
    /\ Goto("close") /\ group' = "verify"
    /\ NoFault /\ UNCHANGED <<attempt, collections, proxyVars>>

Close ==
    /\ stage = "close"
    /\ \/ NoFault /\ RemoveInstance
       \/ Fault("proxy") /\ (RemoveInstance \/ UNCHANGED proxyVars)
    /\ Goto(IF group = "verify" THEN "close" ELSE "down") /\ group' = "enroll"
    /\ UNCHANGED <<attempt, collections>>

Crash ==
    /\ Alive /\ Fault("crash")
    /\ Goto("down") /\ UNCHANGED <<group, attempt, collections, proxyVars>>

\* The proxy drops an instance that is not polled: one of a dead process in
\* the end, one of this process when the start, or a job, takes long; and it
\* has none after a restart of its own.  A loop that polls an instance which is
\* gone gets errors and polls on.
Drop(i) == instances' = instances \ {i} /\ subscribed' = subscribed \ {i}

DropDead(i) ==
    /\ i \in instances /\ (OfThisLife(i) => ~Alive)
    /\ Drop(i) /\ NoFault /\ UNCHANGED <<processVars, collections, dropped>>

DropIdle(i) ==
    /\ i \in instances /\ OfThisLife(i) /\ Alive
    /\ Fault("idle")
    /\ Drop(i) /\ dropped' = dropped \cup {i.group}
    /\ UNCHANGED <<processVars, collections>>
-----------------------------------------------------------------------------
Run ==
    \/ EnsureFace \/ EnsureName \/ Ready
    \/ Create \/ DeleteFirst \/ Recreate \/ Subscribe
    \/ StopLoops \/ Close
    \/ cancelled /\ (CreateFails \/ SubscribeFails)

Next ==
    \/ Launch \/ Run
    \/ EnsureFails \/ NotReady \/ CreateFails \/ SubscribeFails
    \/ Sigterm \/ Crash
    \/ \E i \in instances : DropDead(i) \/ DropIdle(i)

Spec == Init /\ [][Next]_vars

(* Every call has a timeout and the process runs on; the orchestrator      *)
(* starts it again; the proxy lets idle instances expire.                  *)
Fairness ==
    /\ WF_vars(Run) /\ WF_vars(Launch)
    /\ WF_vars(\E i \in instances : DropDead(i))

FairSpec == Spec /\ Fairness
-----------------------------------------------------------------------------
(* The loops run only when both collections are there; and the groups they *)
(* have no subscribed instance in are exactly those whose instance the     *)
(* proxy dropped and nobody created again: no failed call of the start, in *)
(* whatever order, makes another.                                          *)
RunningIsReady ==
    stage = "running" =>
        /\ collections = {"face", "name"}
        /\ \A g \in Groups : Own(g) \in subscribed <=> g \notin dropped

(* For its surroundings a process is down until its loops begin, and from   *)
(* when they have returned.  A SIGTERM during the start never leads to     *)
(* loops that run, and no consumer joins while they do.                    *)
ProcessState == IF stage # "running" THEN "down" ELSE IF cancelled THEN "stopping" ELSE "running"
Members == {g \in Groups : stage = "running" /\ Own(g) \in subscribed}

Process == INSTANCE ProcessLife WITH Consumers <- Groups, state <- ProcessState, members <- Members
ImplementsProcess == Process!Spec

(* In the end the worker runs with a subscribed instance in both groups    *)
(* and alone in them: neither a stop in the middle of the start nor        *)
(* instances of earlier lives keep the jobs from it.  That is so when in   *)
(* the end it lacks no instance the proxy dropped: a process that lacks    *)
(* one never creates it again.                                             *)
Serving ==
    /\ stage = "running"
    /\ \A g \in Groups : {i \in instances : i.group = g} = {Own(g)} /\ Own(g) \in subscribed
EventuallyServing == <>[](dropped = {}) => <>[]Serving
=============================================================================
