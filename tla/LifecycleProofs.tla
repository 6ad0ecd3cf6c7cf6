---------------------------- MODULE LifecycleProofs ----------------------------
(* Theorems about the start and the end of a worker process, for any       *)
(* number of attempts, lives and failures.                                 *)
EXTENDS ConsumerLifecycle, FiniteSetTheorems, TLAPS

Starting == {"face", "name", "ready", "create", "conflict", "recreate", "subscribe"}
WithConsumers == {"create", "conflict", "recreate", "subscribe", "running"}

\* A start goes on only while an attempt is left.
AttemptsLeft == stage \in Starting => attempt < Attempts

\* An instance the proxy dropped is missing until it is created again.
DroppedIsGone == \A g \in dropped : Own(g) \notin instances

\* What a stage of the start has behind it.
StepsDone ==
    /\ stage = "name" => "face" \in collections
    /\ stage \in WithConsumers \cup {"ready"} => {"face", "name"} \subseteq collections
    /\ stage \in {"face", "name", "ready"} => group = "enroll"
    /\ stage \in WithConsumers /\ group = "verify" =>
         Own("enroll") \in subscribed \/ "enroll" \in dropped
    /\ stage = "running" => group = "verify" /\ (Own("verify") \in subscribed \/ "verify" \in dropped)

LifecycleInv == TypeOK /\ AttemptsLeft /\ DroppedIsGone /\ StepsDone
-----------------------------------------------------------------------------
(* The fault budget is kept. *)
LEMMA BudgetKept ==
    ASSUME FaultsTypeOK, NEW kind, NoFault \/ Fault(kind)
    PROVE  FaultsTypeOK'
  BY FaultAssumption DEF FaultsTypeOK, NoFault, Fault

LEMMA OwnType ==
    ASSUME TypeOK, Alive, NEW g \in Groups
    PROVE  Own(g) \in Instances /\ Own(g).life = life /\ Own(g).group = g
  BY LifecycleAssumption DEF TypeOK, Own, Instances, Groups

(* A failed attempt goes back to the first call or ends the process. *)
LEMMA RetryGoes ==
    ASSUME TypeOK, AttemptsLeft, stage \in Starting, NEW first \in Stages, Retry(first)
    PROVE  /\ stage' \in {first, "down"} /\ UNCHANGED <<life, group, cancelled>>
           /\ attempt' \in 0..Attempts /\ (stage' # "down" => attempt' < Attempts)
  BY LifecycleAssumption DEF Retry, Goto, TypeOK, AttemptsLeft

\* What the steps of the start do to the proxy.
ProxyStep(g) ==
    \/ UNCHANGED proxyVars
    \/ instances' = instances \cup {Own(g)} /\ dropped' = dropped \ {g} /\ UNCHANGED subscribed
    \/ Own(g) \in instances /\ subscribed' = subscribed \cup {Own(g)} /\ UNCHANGED <<instances, dropped>>
    \/ instances' = instances \ {Own(g)} /\ subscribed' = subscribed \ {Own(g)} /\ UNCHANGED dropped

(* They keep its types, and leave the other group alone.                   *)
LEMMA ProxyKept ==
    ASSUME LifecycleInv, Alive, NEW g \in Groups, ProxyStep(g), UNCHANGED life
    PROVE  /\ subscribed' \subseteq instances' /\ instances' \subseteq Instances /\ dropped' \subseteq Groups
           /\ DroppedIsGone'
           /\ \A h \in Groups \ {g} : /\ Own(h) \in subscribed => Own(h) \in subscribed'
                                      /\ h \in dropped => h \in dropped'
  <1>1. /\ Own(g) \in Instances
        /\ subscribed \subseteq instances /\ instances \subseteq Instances /\ dropped \subseteq Groups
    BY OwnType DEF LifecycleInv, TypeOK
  <1>2. \A h \in Groups : Own(h)' = Own(h) /\ (h # g => Own(h) # Own(g))
    BY DEF Own
  <1>3. DroppedIsGone
    BY DEF LifecycleInv
  <1>4. dropped' \subseteq dropped /\ \A h \in dropped' : Own(h) \notin instances'
    BY <1>1, <1>2, <1>3 DEF ProxyStep, proxyVars, DroppedIsGone
  <1>5. QED BY <1>1, <1>2, <1>4 DEF ProxyStep, proxyVars, DroppedIsGone

(* A failed attempt keeps the invariant. *)
LEMMA FailureKeeps ==
    ASSUME LifecycleInv, stage \in Starting, Alive,
           NEW first \in {"face", "ready", "create"}, Retry(first),
           first = "face" => stage \in {"face", "name"}, first = "ready" => stage = "ready",
           first = "create" => stage \in WithConsumers,
           FaultsTypeOK', ProxyStep(group), collections \subseteq collections', collections' \subseteq {"face", "name"}
    PROVE  LifecycleInv'
  <1>1. /\ stage' \in {first, "down"} /\ UNCHANGED <<life, group, cancelled>>
        /\ attempt' \in 0..Attempts /\ (stage' # "down" => attempt' < Attempts)
    BY RetryGoes DEF LifecycleInv, Stages
  <1>2. group \in Groups
    BY DEF LifecycleInv, TypeOK
  <1>3. /\ subscribed' \subseteq instances' /\ instances' \subseteq Instances /\ dropped' \subseteq Groups
        /\ DroppedIsGone'
        /\ \A h \in Groups \ {group} : /\ Own(h) \in subscribed => Own(h) \in subscribed'
                                       /\ h \in dropped => h \in dropped'
    BY <1>1, <1>2, ProxyKept
  <1>4. TypeOK'
    BY <1>1, <1>3 DEF LifecycleInv, TypeOK, Stages, Alive
  <1>5. AttemptsLeft'
    BY <1>1 DEF AttemptsLeft, Starting
  <1>6. StepsDone'
    BY <1>1, <1>3 DEF LifecycleInv, StepsDone, WithConsumers, Own, Groups
  <1>7. QED BY <1>3, <1>4, <1>5, <1>6 DEF LifecycleInv

(* A call that succeeded keeps the invariant when what its next stage has  *)
(* behind it is there.                                                     *)
LEMMA ProgressKeeps ==
    ASSUME LifecycleInv, Alive, stage' \in Stages, UNCHANGED <<life, cancelled>>,
           attempt' \in {attempt, 0}, stage' \in Starting => attempt' = 0 \/ stage \in Starting,
           group' \in Groups, FaultsTypeOK', NEW g \in Groups, ProxyStep(g),
           collections \subseteq collections', collections' \subseteq {"face", "name"}, StepsDone'
    PROVE  LifecycleInv'
  <1>1. /\ subscribed' \subseteq instances' /\ instances' \subseteq Instances /\ dropped' \subseteq Groups
        /\ DroppedIsGone'
    BY ProxyKept
  <1>2. TypeOK'
    BY <1>1, LifecycleAssumption DEF LifecycleInv, TypeOK, Alive
  <1>3. AttemptsLeft'
    BY LifecycleAssumption DEF LifecycleInv, AttemptsLeft, TypeOK
  <1>4. QED BY <1>1, <1>2, <1>3 DEF LifecycleInv
-----------------------------------------------------------------------------
LEMMA BoundsType == Attempts \in Nat \ {0} /\ MaxLives \in Nat \ {0}
  BY LifecycleAssumption

LEMMA Initially == Init => LifecycleInv
  <1> SUFFICES ASSUME Init PROVE LifecycleInv
    OBVIOUS
  <1>0. cancelled \in BOOLEAN
    BY Zenon DEF Init
  <1>1. TypeOK
    BY <1>0, FaultAssumption, BoundsType DEF Init, TypeOK, FaultsTypeOK, Stages, Groups, Alive
  <1>2. AttemptsLeft /\ DroppedIsGone /\ StepsDone
    BY DEF Init, AttemptsLeft, Starting, DroppedIsGone, StepsDone, WithConsumers
  <1>3. QED BY <1>1, <1>2 DEF LifecycleInv

LEMMA Stays == LifecycleInv /\ [Next]_vars => LifecycleInv'
  <1> SUFFICES ASSUME LifecycleInv, [Next]_vars PROVE LifecycleInv'
    OBVIOUS
  <1>t. TypeOK /\ AttemptsLeft /\ DroppedIsGone /\ StepsDone /\ group \in Groups /\ FaultsTypeOK
    BY DEF LifecycleInv, TypeOK
  <1> USE DEF Goto, Step, Succeed
  <1>1. CASE Launch
    <2>1. life' = life + 1 /\ life' \in 1..MaxLives /\ FaultsTypeOK'
      BY <1>1, <1>t, BudgetKept, LifecycleAssumption DEF Launch, TypeOK
    <2>2. /\ stage' = "face" /\ group' = "enroll" /\ attempt' = 0 /\ cancelled' = FALSE /\ dropped' = {}
          /\ UNCHANGED <<collections, instances, subscribed>>
      BY <1>1 DEF Launch
    <2>0. (cancelled \in BOOLEAN)'
      BY <2>2, Zenon
    <2>3. TypeOK'
      BY <1>t, <2>0, <2>1, <2>2, BoundsType DEF TypeOK, Stages, Groups, Alive
    <2>4. AttemptsLeft' /\ StepsDone'
      BY <2>2, LifecycleAssumption DEF AttemptsLeft, StepsDone, WithConsumers
    <2>5. DroppedIsGone'
      BY <2>2 DEF DroppedIsGone
    <2>6. QED BY <2>3, <2>4, <2>5 DEF LifecycleInv
  <1>2. CASE EnsureFace
    <2>1. StepsDone'
      BY <1>2, <1>t DEF EnsureFace, StepsDone, WithConsumers
    <2>2. FaultsTypeOK' /\ ProxyStep(group)
      BY <1>2, <1>t, BudgetKept DEF EnsureFace, ProxyStep
    <2>3. collections' \subseteq {"face", "name"}
      BY <1>2, <1>t DEF EnsureFace, TypeOK
    <2>4. QED BY <1>2, <1>t, <2>1, <2>2, <2>3, ProgressKeeps DEF EnsureFace, Stages, Starting, Alive
  <1>3. CASE EnsureName
    <2>1. StepsDone'
      BY <1>3, <1>t DEF EnsureName, StepsDone, WithConsumers
    <2>2. FaultsTypeOK' /\ ProxyStep(group)
      BY <1>3, <1>t, BudgetKept DEF EnsureName, ProxyStep
    <2>3. collections' \subseteq {"face", "name"}
      BY <1>3, <1>t DEF EnsureName, TypeOK
    <2>4. QED BY <1>3, <1>t, <2>1, <2>2, <2>3, ProgressKeeps DEF EnsureName, Stages, Alive
  <1>4. CASE EnsureFails
    <2>1. FaultsTypeOK' /\ ProxyStep(group)
      BY <1>4, <1>t, BudgetKept DEF EnsureFails, ProxyStep
    <2>2. /\ stage \in {"face", "name"} /\ Retry("face")
          /\ collections \subseteq collections' /\ collections' \subseteq {"face", "name"}
      BY <1>4, <1>t DEF EnsureFails, TypeOK
    <2>3. QED BY <2>1, <2>2, FailureKeeps DEF Starting, Alive
  <1>5. CASE Ready
    <2>0. group = "enroll"
      BY <1>5, <1>t DEF Ready, StepsDone
    <2>1. StepsDone'
      BY <1>5, <1>t DEF Ready, StepsDone, WithConsumers
    <2>2. FaultsTypeOK' /\ ProxyStep(group)
      BY <1>5, <1>t, BudgetKept DEF Ready, ProxyStep
    <2>3. QED BY <1>5, <1>t, <2>1, <2>2, ProgressKeeps DEF Ready, Stages, Alive, TypeOK
  <1>6. CASE NotReady
    <2>1. FaultsTypeOK' /\ ProxyStep(group)
      BY <1>6, <1>t, BudgetKept DEF NotReady, ProxyStep
    <2>2. QED BY <1>6, <1>t, <2>1, FailureKeeps DEF NotReady, Starting, Alive, TypeOK
  <1>7. CASE CreateFails
    <2>1. FaultsTypeOK' /\ ProxyStep(group)
      BY <1>7, <1>t, BudgetKept DEF CreateFails, CallFails, AddInstance, ProxyStep
    <2>2. QED BY <1>7, <1>t, <2>1, FailureKeeps DEF CreateFails, Starting, WithConsumers, Alive, TypeOK
  <1>8. CASE SubscribeFails
    <2>1. FaultsTypeOK' /\ ProxyStep(group)
      BY <1>8, <1>t, BudgetKept DEF SubscribeFails, CallFails, AddSubscription, ProxyStep
    <2>2. QED BY <1>8, <1>t, <2>1, FailureKeeps DEF SubscribeFails, Starting, WithConsumers, Alive, TypeOK
  <1>9. CASE Create
    <2>1. FaultsTypeOK' /\ ProxyStep(group) /\ stage' \in {"conflict", "subscribe"}
      BY <1>9, <1>t, BudgetKept DEF Create, AddInstance, ProxyStep
    <2>2. UNCHANGED <<life, group, cancelled, attempt, collections>> /\ stage = "create"
      BY <1>9 DEF Create, AddInstance, proxyVars
    <2>3. \A h \in Groups \ {group} : /\ Own(h) \in subscribed => Own(h)' \in subscribed'
                                      /\ h \in dropped => h \in dropped'
      BY <1>t, <2>1, <2>2, ProxyKept DEF Alive, Own
    <2>4. StepsDone'
      BY <1>t, <2>1, <2>2, <2>3 DEF StepsDone, WithConsumers, Groups
    <2>5. QED BY <1>t, <2>1, <2>2, <2>4, ProgressKeeps DEF Stages, Starting, Alive, TypeOK
  <1>10. CASE DeleteFirst
    <2>1. FaultsTypeOK' /\ ProxyStep(group) /\ stage' = "recreate"
      BY <1>10, <1>t, BudgetKept DEF DeleteFirst, RemoveInstance, ProxyStep
    <2>2. UNCHANGED <<life, group, cancelled, attempt, collections>> /\ stage = "conflict"
      BY <1>10 DEF DeleteFirst, RemoveInstance, proxyVars
    <2>3. \A h \in Groups \ {group} : /\ Own(h) \in subscribed => Own(h)' \in subscribed'
                                      /\ h \in dropped => h \in dropped'
      BY <1>t, <2>1, <2>2, ProxyKept DEF Alive, Own
    <2>4. StepsDone'
      BY <1>t, <2>1, <2>2, <2>3 DEF StepsDone, WithConsumers, Groups
    <2>5. QED BY <1>t, <2>1, <2>2, <2>4, ProgressKeeps DEF Stages, Starting, Alive, TypeOK
  <1>11. CASE Recreate
    <2>1. FaultsTypeOK' /\ ProxyStep(group) /\ stage = "recreate" /\ UNCHANGED collections
      BY <1>11, <1>t, BudgetKept DEF Recreate, AddInstance, ProxyStep
    <2>2. CASE Own(group) \in instances
      BY <1>11, <1>t, <2>1, <2>2, FailureKeeps DEF Recreate, Starting, WithConsumers, Alive, TypeOK
    <2>3. CASE Own(group) \notin instances
      <3>1. UNCHANGED <<life, group, cancelled, attempt>> /\ stage' = "subscribe"
        BY <1>11, <2>3 DEF Recreate, AddInstance
      <3>2. \A h \in Groups \ {group} : /\ Own(h) \in subscribed => Own(h)' \in subscribed'
                                        /\ h \in dropped => h \in dropped'
        BY <1>t, <2>1, <3>1, ProxyKept DEF Alive, Own
      <3>3. StepsDone'
        BY <1>t, <2>1, <3>1, <3>2 DEF StepsDone, WithConsumers, Groups
      <3>4. QED BY <1>t, <2>1, <3>1, <3>3, ProgressKeeps DEF Stages, Starting, Alive, TypeOK
    <2>4. QED BY <2>2, <2>3
  <1>12. CASE Subscribe
    <2>1. FaultsTypeOK' /\ ProxyStep(group) /\ stage = "subscribe" /\ UNCHANGED collections
      BY <1>12, <1>t, BudgetKept DEF Subscribe, AddSubscription, ProxyStep
    <2>2. CASE Own(group) \notin instances
      BY <1>12, <1>t, <2>1, <2>2, FailureKeeps DEF Subscribe, Starting, WithConsumers, Alive, TypeOK
    <2>3. CASE Own(group) \in instances
      <3>1. /\ UNCHANGED <<life, cancelled, dropped>> /\ attempt' = 0
            /\ subscribed' = subscribed \cup {Own(group)}
            /\ \/ group = "enroll" /\ stage' = "create" /\ group' = "verify"
               \/ group = "verify" /\ stage' = "running" /\ group' = "verify"
        BY <1>12, <2>3 DEF Subscribe, Started, AddSubscription
      <3>2. \A h \in Groups : Own(h) \in subscribed \cup {Own(group)} => Own(h)' \in subscribed'
        BY <3>1 DEF Own
      <3>3. StepsDone'
        BY <1>t, <2>1, <3>1, <3>2 DEF StepsDone, WithConsumers, Groups
      <3>4. QED BY <1>t, <2>1, <3>1, <3>3, ProgressKeeps DEF Stages, Starting, Alive, TypeOK, Groups
    <2>4. QED BY <2>2, <2>3
  <1>13. CASE Sigterm
    <2>1. FaultsTypeOK' /\ stage' \in {stage, "down"} /\ UNCHANGED <<life, group, attempt, collections, proxyVars>>
      BY <1>13, <1>t, BudgetKept DEF Sigterm
    <2>2. cancelled' = TRUE /\ stage # "down"
      BY <1>13 DEF Sigterm, Alive
    <2>3. TypeOK'
      BY <1>t, <2>1, <2>2 DEF TypeOK, Stages, Alive, proxyVars
    <2>4. AttemptsLeft' /\ DroppedIsGone'
      BY <1>t, <2>1 DEF AttemptsLeft, Starting, DroppedIsGone, Own, proxyVars
    <2>5. StepsDone'
      BY <1>t, <2>1 DEF StepsDone, WithConsumers, Own, proxyVars
    <2>6. QED BY <2>3, <2>4, <2>5 DEF LifecycleInv
  <1>14. CASE StopLoops
    <2>1. FaultsTypeOK' /\ ProxyStep(group)
      BY <1>14, <1>t, BudgetKept DEF StopLoops, ProxyStep
    <2>2. StepsDone'
      BY <1>14 DEF StopLoops, StepsDone, WithConsumers
    <2>3. QED BY <1>14, <1>t, <2>1, <2>2, ProgressKeeps DEF StopLoops, Stages, Groups, Starting, Alive, TypeOK
  <1>15. CASE Close
    <2>1. FaultsTypeOK' /\ ProxyStep(group) /\ stage' \in {"close", "down"}
      BY <1>15, <1>t, BudgetKept DEF Close, RemoveInstance, ProxyStep
    <2>2. StepsDone'
      BY <2>1 DEF StepsDone, WithConsumers
    <2>3. QED BY <1>15, <1>t, <2>1, <2>2, ProgressKeeps DEF Close, Stages, Groups, Starting, Alive, TypeOK
  <1>16. CASE Crash
    <2>1. FaultsTypeOK' /\ ProxyStep(group)
      BY <1>16, <1>t, BudgetKept DEF Crash, ProxyStep
    <2>2. StepsDone'
      BY <1>16 DEF Crash, StepsDone, WithConsumers
    <2>3. QED BY <1>16, <1>t, <2>1, <2>2, ProgressKeeps DEF Crash, Stages, Starting, Alive, TypeOK
  <1>17. ASSUME NEW i \in instances, DropDead(i) PROVE LifecycleInv'
    <2>1. /\ UNCHANGED <<life, stage, group, attempt, cancelled, collections, dropped>> /\ FaultsTypeOK'
          /\ instances' = instances \ {i} /\ subscribed' = subscribed \ {i}
      BY <1>17, <1>t, BudgetKept DEF DropDead, Drop, processVars
    <2>2. TypeOK'
      BY <1>t, <2>1 DEF TypeOK, Alive
    <2>3. AttemptsLeft' /\ DroppedIsGone'
      BY <1>t, <2>1 DEF AttemptsLeft, DroppedIsGone, Own
    <2>4. Alive => \A g \in Groups : Own(g) # i
      BY <1>17, <1>t, OwnType DEF DropDead, OfThisLife
    <2>5. StepsDone'
      BY <1>t, <2>1, <2>4 DEF StepsDone, WithConsumers, Own, Alive, Groups
    <2>6. QED BY <2>2, <2>3, <2>5 DEF LifecycleInv
  <1>18. ASSUME NEW i \in instances, DropIdle(i) PROVE LifecycleInv'
    <2>1. /\ UNCHANGED <<life, stage, group, attempt, cancelled, collections>> /\ FaultsTypeOK'
          /\ instances' = instances \ {i} /\ subscribed' = subscribed \ {i} /\ OfThisLife(i)
          /\ dropped' = dropped \cup {i.group}
      BY <1>18, <1>t, BudgetKept DEF DropIdle, Drop, processVars
    <2>2. i.group \in Groups
      BY <1>t DEF TypeOK, Instances
    <2>3. TypeOK'
      BY <1>t, <2>1, <2>2 DEF TypeOK, Alive
    <2>4. AttemptsLeft' /\ DroppedIsGone'
      <3>1. Own(i.group) = i
        BY <1>t, <2>1 DEF TypeOK, Instances, Own, OfThisLife
      <3>2. QED BY <1>t, <2>1, <3>1 DEF AttemptsLeft, DroppedIsGone, Own
    <2>5. \A g \in Groups : Own(g) = i => g = i.group
      BY DEF Own
    <2>6. StepsDone'
      BY <1>t, <2>1, <2>5 DEF StepsDone, WithConsumers, Own, Groups
    <2>7. QED BY <2>3, <2>4, <2>6 DEF LifecycleInv
  <1>19. CASE UNCHANGED vars
    BY <1>19 DEF vars, processVars, proxyVars, LifecycleInv, TypeOK, FaultsTypeOK, Alive, AttemptsLeft, DroppedIsGone,
         StepsDone, Own
  <1>20. QED
    BY <1>1, <1>2, <1>3, <1>4, <1>5, <1>6, <1>7, <1>8, <1>9, <1>10, <1>11, <1>12, <1>13, <1>14, <1>15, <1>16,
       <1>17, <1>18, <1>19 DEF Next, Run

(* Every state of the start and the end satisfies the inductive invariant: *)
(* a stage has behind it what the earlier calls of main established.       *)
THEOREM LifecycleInvariance == Spec => []LifecycleInv
  BY Initially, Stays, PTL DEF Spec

(* The process and the proxy keep their types; in particular no dependency *)
(* is tried more often than Attempts times.                                *)
THEOREM LifecycleTypeCorrect == Spec => []TypeOK
  <1>1. LifecycleInv => TypeOK
    BY DEF LifecycleInv
  <1>2. QED BY <1>1, LifecycleInvariance, PTL

(* The loops run only on both collections, and with a subscribed instance  *)
(* of this life in each group but those whose instance the proxy dropped   *)
(* and nobody created again.                                               *)
THEOREM LoopsStartReady == Spec => []RunningIsReady
  <1>1. LifecycleInv => RunningIsReady
    <2> SUFFICES ASSUME LifecycleInv, stage = "running" PROVE RunningIsReady
      BY DEF RunningIsReady
    <2>1. \A g \in Groups : Own(g) \in subscribed \/ g \in dropped
      BY DEF LifecycleInv, StepsDone, WithConsumers, Groups
    <2>2. \A g \in Groups : Own(g) \in subscribed => g \notin dropped
      BY DEF LifecycleInv, TypeOK, DroppedIsGone
    <2>3. collections = {"face", "name"}
      BY DEF LifecycleInv, TypeOK, StepsDone, WithConsumers
    <2>4. QED BY <2>1, <2>2, <2>3 DEF RunningIsReady
  <1>2. QED BY <1>1, LifecycleInvariance, PTL
-----------------------------------------------------------------------------
(* What its surroundings see of the process.  Whenever an instance of a    *)
(* life was dropped, something has failed.                                 *)
DroppedPaid == dropped # {} => faults > 0

(* A step costs a failure or none. *)
LEMMA StepCosts ==
    ASSUME [Next]_vars
    PROVE  faults' \in {faults, faults + 1}
  BY DEF Next, Run, vars, NoFault, Fault, CallFails, Launch, EnsureFace, EnsureName, EnsureFails, Ready, NotReady,
         Create, CreateFails, DeleteFirst, Recreate, Subscribe, SubscribeFails, Sigterm, StopLoops, Close, Crash,
         DropDead, DropIdle

LEMMA PaidInit == Init => DroppedPaid
  BY DEF Init, DroppedPaid

(* An instance is dropped at the cost of a failure; nothing else adds one. *)
LEMMA DroppedGrows ==
    ASSUME TypeOK, [Next]_vars
    PROVE  dropped' \subseteq dropped \/ faults' = faults + 1
  BY DEF Next, Run, vars, processVars, proxyVars, Fault, CallFails, Launch, EnsureFace, EnsureName, EnsureFails, Ready,
         NotReady, Create, CreateFails, DeleteFirst, Recreate, Subscribe, SubscribeFails, Sigterm, StopLoops, Close,
         Crash, DropDead, DropIdle, AddInstance, RemoveInstance, AddSubscription, Drop

LEMMA PaidStays == LifecycleInv /\ DroppedPaid /\ [Next]_vars => DroppedPaid'
  <1> SUFFICES ASSUME LifecycleInv, DroppedPaid, [Next]_vars PROVE DroppedPaid'
    OBVIOUS
  <1>1. faults \in Nat
    BY FaultAssumption DEF LifecycleInv, TypeOK, FaultsTypeOK
  <1>2. QED BY <1>1, StepCosts, DroppedGrows DEF DroppedPaid, LifecycleInv

(* The loops begin with the subscription of the second consumer only, and  *)
(* not after SIGTERM.                                                      *)
LEMMA LoopsBegin ==
    ASSUME TypeOK, Next, stage # "running", stage' = "running"
    PROVE  ~cancelled' /\ UNCHANGED <<faults, dropped>>
  <1>1. ~EnsureFails /\ ~NotReady /\ ~CreateFails /\ ~SubscribeFails
    BY DEF EnsureFails, NotReady, CreateFails, SubscribeFails, Retry, Goto
  <1>2. ~Launch /\ ~EnsureFace /\ ~EnsureName /\ ~Ready /\ ~Create /\ ~DeleteFirst /\ ~Recreate
    BY DEF Launch, EnsureFace, EnsureName, Ready, Create, DeleteFirst, Recreate, Retry, Step, Succeed, Goto
  <1>3. ~StopLoops /\ ~Close /\ ~Sigterm /\ ~Crash
    BY DEF StopLoops, Close, Sigterm, Crash, Goto
  <1>4. ~\E i \in instances : DropDead(i) \/ DropIdle(i)
    BY DEF DropDead, DropIdle, processVars
  <1>5. Subscribe
    BY <1>1, <1>2, <1>3, <1>4 DEF Next, Run
  <1>6. QED BY <1>5 DEF Subscribe, Started, Retry, Succeed, Goto, NoFault, AddSubscription, proxyVars

(* While the loops run the process is told to stop, stops or dies, or an   *)
(* instance is dropped, one of its own at the cost of a failure.           *)
LEMMA LoopsEnd ==
    ASSUME TypeOK, Next, stage = "running"
    PROVE  \/ stage' = "running" /\ ~cancelled /\ cancelled' /\ faults' = faults + 1 /\ UNCHANGED <<life, subscribed>>
           \/ stage' = "close" /\ cancelled /\ UNCHANGED faults
           \/ stage' = "down" /\ faults' = faults + 1
           \/ \E i \in instances : /\ UNCHANGED <<life, stage, cancelled>>
                                   /\ subscribed' = subscribed \ {i}
                                   /\ IF OfThisLife(i) THEN faults' = faults + 1 ELSE faults' = faults
  <1>1. ~EnsureFails /\ ~NotReady /\ ~CreateFails /\ ~SubscribeFails
    BY DEF EnsureFails, NotReady, CreateFails, SubscribeFails
  <1>2. ~Launch /\ ~EnsureFace /\ ~EnsureName /\ ~Ready /\ ~Create /\ ~DeleteFirst /\ ~Recreate /\ ~Subscribe
    BY DEF Launch, Alive, EnsureFace, EnsureName, Ready, Create, DeleteFirst, Recreate, Subscribe
  <1>3. ~Close
    BY DEF Close
  <1>4. CASE Sigterm
    BY <1>4 DEF Sigterm, Fault, proxyVars
  <1>5. CASE StopLoops
    BY <1>5 DEF StopLoops, Goto, NoFault
  <1>6. CASE Crash
    BY <1>6 DEF Crash, Goto, Fault
  <1>7. ASSUME NEW i \in instances, DropDead(i) \/ DropIdle(i)
        PROVE  /\ UNCHANGED <<life, stage, cancelled>> /\ subscribed' = subscribed \ {i}
               /\ IF OfThisLife(i) THEN faults' = faults + 1 ELSE faults' = faults
    BY <1>7 DEF DropDead, DropIdle, Drop, Alive, NoFault, Fault, processVars
  <1>8. QED BY <1>1, <1>2, <1>3, <1>4, <1>5, <1>6, <1>7 DEF Next, Run

LEMMA ProcessInit == Init => Process!Init
  BY DEF Init, Process!Init, ProcessState, Members

LEMMA ProcessStep ==
    ASSUME LifecycleInv, LifecycleInv', DroppedPaid, [Next]_vars
    PROVE  [Process!Next]_Process!vars
  <1>1. CASE UNCHANGED vars
    BY <1>1 DEF vars, processVars, proxyVars, Process!vars, ProcessState, Members, Own
  <1>2. CASE Next /\ stage # "running" /\ stage' # "running"
    <2>1. UNCHANGED <<ProcessState, Members>>
      BY <1>2 DEF ProcessState, Members
    <2>2. QED BY <2>1, StepCosts DEF Process!Next, Process!FailElsewhere, Process!vars
  <1>3. CASE Next /\ stage # "running" /\ stage' = "running"
    <2>1. ~cancelled' /\ UNCHANGED <<faults, dropped>>
      BY <1>3, LoopsBegin DEF LifecycleInv
    <2>2. ProcessState = "down" /\ ProcessState' = "running"
      BY <1>3, <2>1 DEF ProcessState
    <2>3. Members' \subseteq Groups
      BY DEF Members
    <2>4. (Own("enroll") \in subscribed \/ "enroll" \in dropped)'
      BY <1>3 DEF LifecycleInv, StepsDone, WithConsumers
    <2>5. (Own("verify") \in subscribed \/ "verify" \in dropped)'
      BY <1>3 DEF LifecycleInv, StepsDone
    <2>6. dropped' = {} => Members' = Groups
      BY <1>3, <2>4, <2>5 DEF Members, Groups
    <2>7. Members' # Groups => faults > 0
      BY <2>1, <2>6 DEF DroppedPaid
    <2>8. QED BY <2>1, <2>2, <2>3, <2>7 DEF Process!Next, Process!Start
  <1>4. CASE Next /\ stage = "running"
    <2>1. TypeOK /\ cancelled \in BOOLEAN
      BY DEF LifecycleInv, TypeOK
    <2>2. CASE stage' = "running" /\ ~cancelled /\ cancelled' /\ faults' = faults + 1 /\ UNCHANGED <<life, subscribed>>
      <3>1. ProcessState = "running" /\ ProcessState' = "stopping" /\ UNCHANGED Members
        BY <1>4, <2>2 DEF ProcessState, Members, Own
      <3>2. QED BY <2>2, <3>1 DEF Process!Next, Process!Stop
    <2>3. CASE stage' = "close" /\ cancelled /\ UNCHANGED faults
      <3>1. ProcessState = "stopping" /\ ProcessState' = "down" /\ Members' = {}
        BY <1>4, <2>3 DEF ProcessState, Members
      <3>2. QED BY <2>3, <3>1 DEF Process!Next, Process!End
    <2>4. CASE stage' = "down" /\ faults' = faults + 1
      <3>1. ProcessState \in {"running", "stopping"} /\ ProcessState' = "down" /\ Members' = {}
        BY <1>4, <2>4 DEF ProcessState, Members
      <3>2. QED BY <2>4, <3>1 DEF Process!Next, Process!End
    <2>5. ASSUME NEW i \in instances, UNCHANGED <<life, stage, cancelled>>, subscribed' = subscribed \ {i},
                 IF OfThisLife(i) THEN faults' = faults + 1 ELSE faults' = faults
          PROVE  [Process!Next]_Process!vars
      <3>1. UNCHANGED ProcessState
        BY <2>5 DEF ProcessState
      <3>2. i \in Instances /\ (OfThisLife(i) => Own(i.group) = i)
        BY DEF LifecycleInv, TypeOK, Instances, OfThisLife, Own
      <3>3. CASE ~OfThisLife(i)
        <4>1. UNCHANGED Members
          BY <2>5, <3>3 DEF Members, Own, OfThisLife
        <4>2. QED BY <2>5, <3>1, <3>3, <4>1 DEF Process!vars
      <3>4. CASE OfThisLife(i)
        <4>1. Members' = Members \ {i.group}
          <5>1. \A g \in Groups : Own(g)' = Own(g) /\ (Own(g) = i <=> g = i.group)
            BY <2>5, <3>2, <3>4 DEF Own
          <5>2. QED BY <2>5, <5>1 DEF Members
        <4>2. CASE i.group \in Members
          BY <2>5, <3>1, <3>4, <4>1, <4>2 DEF Process!Next, Process!Lose
        <4>3. CASE i.group \notin Members
          BY <2>5, <3>1, <3>4, <4>1, <4>3 DEF Process!Next, Process!FailElsewhere
        <4>4. QED BY <4>2, <4>3
      <3>5. QED BY <3>3, <3>4
    <2>6. QED BY <1>4, <2>1, <2>2, <2>3, <2>4, <2>5, LoopsEnd DEF Process!vars
  <1>5. QED BY <1>1, <1>2, <1>3, <1>4

(* The start and the end of a process, with every request they make, live  *)
(* the abstract life: no loops after a SIGTERM during the start, no        *)
(* consumer regained while they run, and none counts after they have       *)
(* ended, although its instance may be left in the proxy.                  *)
THEOREM ProcessImplemented == Spec => ImplementsProcess
  <1>1. Init => DroppedPaid /\ Process!Init
    BY PaidInit, ProcessInit
  <1>2. LifecycleInv /\ DroppedPaid /\ [Next]_vars => DroppedPaid'
    BY PaidStays
  <1>3. LifecycleInv /\ LifecycleInv' /\ DroppedPaid /\ [Next]_vars => [Process!Next]_Process!vars
    BY ProcessStep
  <1>4. QED BY <1>1, <1>2, <1>3, LifecycleInvariance, PTL DEF Spec, ImplementsProcess, Process!Spec
=============================================================================
