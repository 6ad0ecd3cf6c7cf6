--------------------------- MODULE SubmissionProofs ---------------------------
(* Theorems about the API server on its own, for any number of             *)
(* transactions, partitions and produce attempts and any failures.  The    *)
(* step lemmas are used again for the whole pipeline.                      *)
EXTENDS Submission, FiniteSetTheorems, TLAPS

\* A handler that may still produce has an attempt left.
AttemptLeft ==
    \A t \in Txns : request[t] \in {"idle", "accepting", "publishing"} => attempt[t] < Retries

SubmitTypeInv == SubmitTypeOK /\ AttemptLeft

\* Before the ACCEPTED record is written the job is nowhere; from then on
\* there is a record.
RecordBeforeJob ==
    \A t \in Txns :
        /\ request[t] \in {"idle", "accepting"} => status[t].state = "MISSING" /\ ~Published(t)
        /\ request[t] \in {"publishing", "compensating"} => status[t].state # "MISSING"
        /\ reply[t] = 202 => request[t] = "done"

\* A late write neither takes the record away nor comes before it.  When it is
\* the first write of the record, nobody else writes that record.
LateIsRecord ==
    \A w \in late :
        /\ w.record.state # "MISSING" /\ request[w.txn] \notin {"idle", "accepting"}
        /\ w.record.state = "ACCEPTED" =>
             /\ request[w.txn] = "done" /\ ~Published(w.txn)
             /\ status[w.txn].state \in {"MISSING", "ACCEPTED"}
             /\ \A x \in late : x.txn = w.txn => x.record.state = "ACCEPTED"

SubmitInv == RecordBeforeJob /\ LateIsRecord /\ PublishedHasRecord /\ AcceptedIsPublished
-----------------------------------------------------------------------------
(* SaveStatus replaces one record and produces records of the right shape. *)
LEMMA PlainRecord == ASSUME NEW state \in States PROVE Plain(state) \in Records /\ Plain(state).state = state
  BY DEF Plain, Records

LEMMA SaveStatusType ==
    ASSUME StatusTypeOK, NEW t \in Txns, NEW r \in Records, SaveStatus(t, r)
    PROVE  StatusTypeOK' /\ status'[t] = r /\ \A u \in Txns \ {t} : status'[u] = status[u]
  BY DEF StatusTypeOK, SaveStatus

(* A write that fails, or whose error is dropped, leaves the record as it  *)
(* was or replaces it, and is itself all that may come late.               *)
LEMMA FailedWriteType ==
    ASSUME StatusTypeOK, FaultsTypeOK, NEW t \in Txns, NEW r \in Records, StatusWriteFails(t, r)
    PROVE  /\ StatusTypeOK' /\ FaultsTypeOK'
           /\ status'[t] \in {status[t], r}
           /\ \A u \in Txns \ {t} : status'[u] = status[u]
           /\ \A w \in late' : w \in late \/ (w.txn = t /\ w.record = r)
  <1>1. FaultsTypeOK' /\ faults' \in Nat
    BY FaultAssumption DEF StatusWriteFails, Postpone, Fault, FaultsTypeOK
  <1>2. CASE SaveStatus(t, r)
    <2>1. StatusTypeOK' /\ status'[t] = r /\ \A u \in Txns \ {t} : status'[u] = status[u]
      BY <1>2, SaveStatusType
    <2>2. late' = late
      BY <1>2 DEF SaveStatus
    <2>3. QED BY <1>1, <2>1, <2>2
  <1>3. CASE UNCHANGED <<status, late>>
    BY <1>1, <1>3 DEF StatusTypeOK
  <1>4. CASE Postpone(t, r)
    <2> DEFINE new == [txn |-> t, record |-> r, mark |-> faults']
    <2>1. new \in LateWrites /\ new.txn = t /\ new.record = r
      BY <1>1 DEF LateWrites
    <2>2. late' = late \cup {new} /\ status' = status
      BY <1>4 DEF Postpone
    <2> HIDE DEF new
    <2>3. QED BY <1>1, <2>1, <2>2 DEF StatusTypeOK
  <1>5. QED BY <1>2, <1>3, <1>4 DEF StatusWriteFails

LEMMA QuietType ==
    ASSUME StatusTypeOK, FaultsTypeOK, NEW t \in Txns, NEW r \in Records, SaveStatusQuietly(t, r)
    PROVE  /\ StatusTypeOK' /\ FaultsTypeOK'
           /\ status'[t] \in {status[t], r}
           /\ \A u \in Txns \ {t} : status'[u] = status[u]
           /\ \A w \in late' : w \in late \/ (w.txn = t /\ w.record = r)
  <1>1. CASE SaveStatus(t, r) /\ NoFault
    BY <1>1 DEF SaveStatus, StatusTypeOK, NoFault, FaultsTypeOK
  <1>2. CASE StatusWriteFails(t, r)
    BY <1>2, FailedWriteType
  <1>3. QED BY <1>1, <1>2 DEF SaveStatusQuietly

(* A late write replaces one record. *)
LEMMA LandType ==
    ASSUME StatusTypeOK, LandStatus
    PROVE  /\ StatusTypeOK' /\ late' \subseteq late
           /\ \E w \in late :
                /\ w.txn \in Txns /\ w.record \in Records
                /\ status'[w.txn] = w.record
                /\ \A u \in Txns \ {w.txn} : status'[u] = status[u]
  <1>1. PICK w \in late : status' = [status EXCEPT ![w.txn] = w.record] /\ late' = late \ {w}
    BY DEF LandStatus
  <1>2. w.txn \in Txns /\ w.record \in Records
    BY DEF StatusTypeOK, LateWrites
  <1>3. QED BY <1>1, <1>2 DEF StatusTypeOK

(* The fault budget is never exceeded. *)
LEMMA FaultType ==
    ASSUME FaultsTypeOK, NoFault \/ \E kind : Fault(kind)
    PROVE  FaultsTypeOK'
  BY FaultAssumption DEF FaultsTypeOK, NoFault, Fault

(* Producing a job appends it: its transaction is published, and what was  *)
(* published before stays so.                                              *)
LEMMA ProduceType ==
    ASSUME TopicTypeOK, NEW t \in Txns, Produce(t)
    PROVE  /\ TopicTypeOK'
           /\ Published(t)'
           /\ \A u \in Txns : Published(u) => Published(u)'
           /\ \A u \in Txns \ {t} : Published(u)' => Published(u)
  <1> DEFINE p == PartitionOf[t]
  <1>1. p \in Partitions /\ topic[p] \in Seq(Txns)
    BY TopicAssumption DEF TopicTypeOK
  <1>2. topic' = [topic EXCEPT ![p] = Append(topic[p], t)]
    BY DEF Produce
  <1>3. topic'[p] = Append(topic[p], t) /\ \A q \in Partitions \ {p} : topic'[q] = topic[q]
    BY <1>1, <1>2 DEF TopicTypeOK
  <1>4. TopicTypeOK'
    BY <1>1, <1>2 DEF TopicTypeOK
  <1>5. /\ Len(topic'[p]) = Len(topic[p]) + 1
        /\ topic'[p][Len(topic[p]) + 1] = t
        /\ \A k \in 1..Len(topic[p]) : topic'[p][k] = topic[p][k]
        /\ DOMAIN topic'[p] = 1..(Len(topic[p]) + 1)
        /\ DOMAIN topic[p] = 1..Len(topic[p])
        /\ Len(topic[p]) \in Nat
    BY <1>1, <1>3
  <1>6. Published(t)'
    BY <1>5 DEF Published
  <1>7. ASSUME NEW u \in Txns, Published(u) PROVE Published(u)'
    <2>1. CASE PartitionOf[u] = p
      BY <1>5, <1>7, <2>1 DEF Published
    <2>2. CASE PartitionOf[u] # p
      BY <1>3, <1>7, <2>2, TopicAssumption DEF Published
    <2>3. QED BY <2>1, <2>2
  <1>8. ASSUME NEW u \in Txns \ {t}, Published(u)' PROVE Published(u)
    <2>1. CASE PartitionOf[u] = p
      <3>1. PICK k \in 1..(Len(topic[p]) + 1) : topic'[p][k] = u
        BY <1>5, <1>8, <2>1 DEF Published
      <3>2. k \in 1..Len(topic[p])
        BY <1>5, <3>1
      <3>3. QED BY <1>5, <2>1, <3>1, <3>2 DEF Published
    <2>2. CASE PartitionOf[u] # p
      BY <1>3, <1>8, <2>2, TopicAssumption DEF Published
    <2>3. QED BY <2>1, <2>2
  <1>9. QED BY <1>4, <1>6, <1>7, <1>8
-----------------------------------------------------------------------------
(* Every step of a handler preserves the types, and leaves an attempt to   *)
(* every handler that may still need one.                                  *)
LEMMA ReceiveType ==
    ASSUME SubmitTypeInv, NEW t \in Txns, NEW kind \in InputKinds, Receive(t, kind)
    PROVE  SubmitTypeInv'
  <1> USE DEF SubmitTypeInv, SubmitTypeOK, AttemptLeft
  <1>1. StatusTypeOK' /\ FaultsTypeOK' /\ TopicTypeOK'
    BY DEF Receive, Unreadable, Invalid, StatusTypeOK, FaultsTypeOK, TopicTypeOK
  <1>2. request' = [request EXCEPT ![t] = "done"] \/ request' = [request EXCEPT ![t] = "accepting"]
    BY SubmissionAssumption DEF Receive, Unreadable, Invalid, Answer, Goto
  <1>3. /\ attempt' = attempt /\ request[t] = "idle"
        /\ input' = [input EXCEPT ![t] = kind]
        /\ reply' = reply \/ reply' = [reply EXCEPT ![t] = 400] \/ reply' = [reply EXCEPT ![t] = 503]
    BY SubmissionAssumption DEF Receive, Unreadable, Invalid, Answer
  <1>4. QED BY <1>1, <1>2, <1>3 DEF RequestStates

LEMMA HandleType ==
    ASSUME SubmitTypeInv, NEW t \in Txns, Handle(t)
    PROVE  SubmitTypeInv'
  <1> USE DEF SubmitTypeInv, SubmitTypeOK
  <1>a. Plain("ACCEPTED") \in Records /\ Plain("FAILED") \in Records
    BY PlainRecord DEF States
  <1>1. StatusTypeOK'
    BY <1>a, SaveStatusType, QuietType, FailedWriteType
    DEF Handle, Accept, AcceptFails, Publish, PublishRetried, ProduceFails, PublishRefused, Compensate, StatusTypeOK
  <1>2. FaultsTypeOK'
    BY <1>a, FaultType, QuietType, FailedWriteType
    DEF Handle, Accept, AcceptFails, Publish, PublishRetried, ProduceFails, PublishRefused, Compensate
  <1>3. TopicTypeOK'
    BY ProduceType
    DEF Handle, Accept, AcceptFails, Publish, PublishRetried, ProduceFails, PublishRefused, Compensate, TopicTypeOK
  <1>4. /\ request' \in [Txns -> RequestStates]
        /\ attempt' \in [Txns -> 0..Retries]
        /\ reply' \in [Txns -> {0, 202, 400, 503}]
        /\ input' \in [Txns -> {"none"} \cup InputKinds]
        /\ AttemptLeft'
    <2> USE SubmissionAssumption DEF RequestStates, AttemptLeft, Goto, Answer, clientVars
    <2>1. CASE Accept(t)         BY <2>1 DEF Accept
    <2>2. CASE AcceptFails(t)    BY <2>2 DEF AcceptFails
    <2>3. CASE Publish(t)        BY <2>3 DEF Publish
    <2>4. CASE PublishRetried(t) BY <2>4 DEF PublishRetried, ProduceFails
    <2>5. CASE PublishRefused(t) BY <2>5 DEF PublishRefused
    <2>6. CASE Compensate(t)     BY <2>6 DEF Compensate
    <2>7. QED BY <2>1, <2>2, <2>3, <2>4, <2>5, <2>6 DEF Handle
  <1>5. QED BY <1>1, <1>2, <1>3, <1>4

LEMMA SubmitTypeStep ==
    ASSUME SubmitTypeInv, [SubmitNext]_submitVars
    PROVE  SubmitTypeInv'
  <1>1. ASSUME NEW t \in Txns, Handle(t) PROVE SubmitTypeInv'
    BY <1>1, HandleType
  <1>2. ASSUME NEW t \in Txns, NEW kind \in InputKinds, Receive(t, kind) PROVE SubmitTypeInv'
    BY <1>2, ReceiveType
  <1>3. CASE ApiCrash
    <2>1. FaultsTypeOK'
      BY <1>3, FaultType DEF ApiCrash, SubmitTypeInv, SubmitTypeOK
    <2>2. QED
      BY <1>3, <2>1 DEF ApiCrash, SubmitTypeInv, SubmitTypeOK, AttemptLeft, RequestStates,
                        clientVars, StatusTypeOK, TopicTypeOK
  <1>4. CASE UNCHANGED submitVars
    BY <1>4 DEF submitVars, SubmitTypeInv, SubmitTypeOK, AttemptLeft, StatusTypeOK, FaultsTypeOK,
                TopicTypeOK
  <1>5. CASE LateStatus
    BY <1>5, LandType DEF LateStatus, LandStatus, NoFault, clientVars, SubmitTypeInv, SubmitTypeOK,
                          AttemptLeft, FaultsTypeOK, TopicTypeOK
  <1>6. QED BY <1>1, <1>2, <1>3, <1>4, <1>5 DEF SubmitNext

LEMMA SubmitTypeInit == SubmitInit => SubmitTypeInv
  <1> SUFFICES ASSUME SubmitInit PROVE SubmitTypeInv
    OBVIOUS
  <1>1. StatusTypeOK
    BY PlainRecord DEF SubmitInit, StatusInit, StatusTypeOK, States
  <1>2. QED
    BY <1>1, SubmissionAssumption, FaultAssumption
    DEF SubmitInit, SubmitTypeInv, SubmitTypeOK, AttemptLeft, FaultsTypeOK, TopicInit, TopicTypeOK,
        RequestStates

(* The state of the API server is of the right shape in every state: in    *)
(* particular no job is produced more often than KAFKA_PUBLISH_RETRIES.    *)
THEOREM SubmitTypeCorrect == SubmitSpec => []SubmitTypeOK
  <1>1. SubmitInit => SubmitTypeInv
    BY SubmitTypeInit
  <1>2. SubmitTypeInv /\ [SubmitNext]_submitVars => SubmitTypeInv'
    BY SubmitTypeStep
  <1>3. SubmitTypeInv => SubmitTypeOK
    BY DEF SubmitTypeInv
  <1>4. QED BY <1>1, <1>2, <1>3, PTL DEF SubmitSpec
-----------------------------------------------------------------------------
(* Every step of the API server keeps record and job in step: the record   *)
(* exists before the job, and an answered 202 has both.                    *)
LEMMA HandleInv ==
    ASSUME SubmitTypeInv, SubmitInv, NEW t \in Txns, Handle(t)
    PROVE  SubmitInv'
  <1> USE DEF SubmitInv, RecordBeforeJob, LateIsRecord, PublishedHasRecord, AcceptedIsPublished
  <1>a. StatusTypeOK /\ FaultsTypeOK /\ TopicTypeOK /\ request \in [Txns -> RequestStates]
        /\ reply \in [Txns -> {0, 202, 400, 503}]
    BY DEF SubmitTypeInv, SubmitTypeOK
  <1>b. /\ Plain("ACCEPTED") \in Records /\ Plain("ACCEPTED").state = "ACCEPTED"
        /\ Plain("FAILED") \in Records /\ Plain("FAILED").state = "FAILED"
    BY PlainRecord DEF States
  <1>c. ASSUME UNCHANGED topic PROVE \A u \in Txns : Published(u)' <=> Published(u)
    BY <1>c DEF Published
  <1>d. \A w \in late : w.txn \in Txns
    BY <1>a DEF StatusTypeOK, LateWrites
  <1>1. CASE Accept(t)
    <2>1. status'[t] = Plain("ACCEPTED") /\ \A u \in Txns \ {t} : status'[u] = status[u]
      BY <1>1, <1>a, <1>b, SaveStatusType DEF Accept
    <2>2. late' = late
      BY <1>1 DEF Accept, SaveStatus
    <2>3. QED BY <1>1, <1>a, <1>b, <1>c, <1>d, <2>1, <2>2 DEF Accept, Goto, clientVars
  <1>2. CASE AcceptFails(t)
    <2>1. /\ status'[t] \in {status[t], Plain("ACCEPTED")}
          /\ \A u \in Txns \ {t} : status'[u] = status[u]
          /\ \A w \in late' : w \in late \/ (w.txn = t /\ w.record = Plain("ACCEPTED"))
      BY <1>2, <1>a, <1>b, FailedWriteType DEF AcceptFails
    <2>2. QED BY <1>2, <1>a, <1>b, <1>c, <1>d, <2>1 DEF AcceptFails, Answer, Goto
  <1>3. CASE Publish(t)
    <2>1. /\ Published(t)' /\ \A u \in Txns : Published(u) => Published(u)'
          /\ \A u \in Txns \ {t} : Published(u)' => Published(u)
      BY <1>3, <1>a, ProduceType DEF Publish
    <2>2. QED BY <1>3, <1>a, <1>d, <2>1 DEF Publish, Answer, Goto
  <1>4. CASE PublishRetried(t)
    <2>1. /\ \A u \in Txns : Published(u) => Published(u)'
          /\ \A u \in Txns \ {t} : Published(u)' => Published(u)
      BY <1>4, <1>a, <1>c, ProduceType DEF PublishRetried, ProduceFails
    <2>2. QED BY <1>4, <1>a, <1>d, <2>1 DEF PublishRetried, ProduceFails, Goto, clientVars
  <1>5. CASE PublishRefused(t)
    BY <1>5, <1>a, <1>c, <1>d DEF PublishRefused, Goto, clientVars
  <1>6. CASE Compensate(t)
    <2>1. /\ status'[t] \in {status[t], Plain("FAILED")}
          /\ \A u \in Txns \ {t} : status'[u] = status[u]
          /\ \A w \in late' : w \in late \/ (w.txn = t /\ w.record = Plain("FAILED"))
      BY <1>6, <1>a, <1>b, QuietType DEF Compensate
    <2>2. QED BY <1>6, <1>a, <1>b, <1>c, <1>d, <2>1 DEF Compensate, Answer, Goto
  <1>7. QED BY <1>1, <1>2, <1>3, <1>4, <1>5, <1>6 DEF Handle

LEMMA SubmitInvStep ==
    ASSUME SubmitTypeInv, SubmitInv, [SubmitNext]_submitVars
    PROVE  SubmitInv'
  <1> USE DEF SubmitInv, RecordBeforeJob, LateIsRecord, PublishedHasRecord, AcceptedIsPublished
  <1>a. request \in [Txns -> RequestStates] /\ reply \in [Txns -> {0, 202, 400, 503}]
    BY DEF SubmitTypeInv, SubmitTypeOK
  <1>b. ASSUME UNCHANGED topic PROVE \A u \in Txns : Published(u)' <=> Published(u)
    BY <1>b DEF Published
  <1>c. \A w \in late : w.txn \in Txns
    BY DEF SubmitTypeInv, SubmitTypeOK, StatusTypeOK, LateWrites
  <1>1. ASSUME NEW t \in Txns, Handle(t) PROVE SubmitInv'
    BY <1>1, HandleInv
  <1>2. ASSUME NEW t \in Txns, NEW kind \in InputKinds, Receive(t, kind) PROVE SubmitInv'
    BY <1>2, <1>a, <1>b, <1>c DEF Receive, Unreadable, Invalid, Answer, Goto
  <1>3. CASE ApiCrash
    BY <1>3, <1>a, <1>b, <1>c DEF ApiCrash, clientVars
  <1>4. CASE UNCHANGED submitVars
    BY <1>4, <1>b, <1>c DEF submitVars
  <1>5. CASE LateStatus
    <2>1. LandStatus /\ StatusTypeOK /\ UNCHANGED <<topic, request, attempt, reply, input>>
      BY <1>5 DEF LateStatus, clientVars, SubmitTypeInv, SubmitTypeOK
    <2>2. PICK w \in late : /\ w.txn \in Txns /\ status'[w.txn] = w.record
                            /\ \A u \in Txns \ {w.txn} : status'[u] = status[u]
      BY <2>1, LandType
    <2>3. late' \subseteq late
      BY <2>1, LandType
    <2>4. \A u \in Txns : status'[u] = status[u] \/ (u = w.txn /\ status'[u] = w.record)
      BY <2>2
    <2>5. LateIsRecord'
      <3>1. ASSUME NEW x \in late', x.record.state = "ACCEPTED"
            PROVE  status'[x.txn].state \in {"MISSING", "ACCEPTED"}
        BY <1>c, <2>3, <2>4, <3>1
      <3>2. QED BY <1>b, <1>c, <2>1, <2>3, <3>1
    <2>6. RecordBeforeJob' /\ PublishedHasRecord' /\ AcceptedIsPublished'
      BY <1>b, <1>c, <2>1, <2>2, <2>4
    <2>7. QED BY <2>5, <2>6
  <1>6. QED BY <1>1, <1>2, <1>3, <1>4, <1>5 DEF SubmitNext

LEMMA SubmitInvInit == SubmitInit => SubmitInv
  BY TopicAssumption
  DEF SubmitInit, StatusInit, TopicInit, Plain, SubmitInv, RecordBeforeJob, LateIsRecord,
      PublishedHasRecord, AcceptedIsPublished, Published

(* Whoever got a 202 has a job in the topic and a record, and no job is in *)
(* a topic without a record.                                               *)
THEOREM SubmissionSafe == SubmitSpec => [](AcceptedIsPublished /\ PublishedHasRecord)
  <1>1. SubmitInit => SubmitTypeInv /\ SubmitInv
    BY SubmitTypeInit, SubmitInvInit
  <1>2. SubmitTypeInv /\ SubmitInv /\ [SubmitNext]_submitVars => (SubmitTypeInv /\ SubmitInv)'
    BY SubmitTypeStep, SubmitInvStep
  <1>3. SubmitInv => AcceptedIsPublished /\ PublishedHasRecord
    BY DEF SubmitInv
  <1>4. QED BY <1>1, <1>2, <1>3, PTL DEF SubmitSpec
-----------------------------------------------------------------------------
\* A job has at most one copy per attempt, and one more attempt at most is the
\* acknowledged one that ends the handler.
CopiesInv ==
    \A t \in Txns :
        /\ IsFiniteSet(Copies(t))
        /\ Cardinality(Copies(t)) <= Retries
        /\ request[t] # "done" => Cardinality(Copies(t)) <= attempt[t]

(* Producing a job adds one copy of it and none of any other. *)
LEMMA ProduceCopies ==
    ASSUME TopicTypeOK, NEW t \in Txns, Produce(t), IsFiniteSet(Copies(t))
    PROVE  /\ IsFiniteSet(Copies(t)')
           /\ Cardinality(Copies(t)') = Cardinality(Copies(t)) + 1
           /\ \A u \in Txns \ {t} : Copies(u)' = Copies(u)
  <1> DEFINE p == PartitionOf[t]
             last == Len(topic[p]) + 1
  <1>1. p \in Partitions /\ topic[p] \in Seq(Txns)
    BY TopicAssumption DEF TopicTypeOK
  <1>2. topic'[p] = Append(topic[p], t) /\ \A q \in Partitions \ {p} : topic'[q] = topic[q]
    BY <1>1 DEF TopicTypeOK, Produce
  <1>3. /\ DOMAIN topic[p] = 1..Len(topic[p]) /\ DOMAIN topic'[p] = 1..last
        /\ Len(topic[p]) \in Nat /\ topic'[p][last] = t
        /\ \A k \in 1..Len(topic[p]) : topic'[p][k] = topic[p][k]
    BY <1>1, <1>2
  <1>4. Copies(t)' = Copies(t) \cup {last} /\ last \notin Copies(t)
    BY <1>3 DEF Copies
  <1>5. ASSUME NEW u \in Txns \ {t} PROVE Copies(u)' = Copies(u)
    <2>1. CASE PartitionOf[u] = p
      <3>1. ASSUME NEW k PROVE k \in DOMAIN topic'[p] /\ topic'[p][k] = u
                               <=> k \in DOMAIN topic[p] /\ topic[p][k] = u
        BY <1>3
      <3>2. QED BY <2>1, <3>1 DEF Copies
    <2>2. CASE PartitionOf[u] # p  BY <1>2, <2>2, TopicAssumption DEF Copies
    <2>3. QED BY <2>1, <2>2
  <1>6. /\ IsFiniteSet(Copies(t) \cup {last})
        /\ Cardinality(Copies(t) \cup {last}) = Cardinality(Copies(t)) + 1
    BY <1>4, FS_AddElement
  <1>7. QED BY <1>4, <1>5, <1>6

LEMMA HandleCopies ==
    ASSUME SubmitTypeInv, CopiesInv, NEW t \in Txns, Handle(t)
    PROVE  CopiesInv'
  <1> USE DEF CopiesInv
  <1>a. /\ TopicTypeOK /\ request \in [Txns -> RequestStates] /\ attempt \in [Txns -> 0..Retries]
        /\ request[t] = "publishing" => attempt[t] < Retries
        /\ Retries \in Nat
    BY SubmissionAssumption DEF SubmitTypeInv, SubmitTypeOK, AttemptLeft
  <1>b. ASSUME UNCHANGED topic PROVE \A u \in Txns : Copies(u)' = Copies(u)
    BY <1>b DEF Copies
  <1>c. \A u \in Txns : Cardinality(Copies(u)) \in Nat
    BY FS_CardinalityType
  <1>1. CASE Accept(t) \/ AcceptFails(t) \/ PublishRefused(t) \/ Compensate(t)
    BY <1>1, <1>a, <1>b DEF Accept, AcceptFails, PublishRefused, Compensate, Goto, Answer
  <1>2. CASE Publish(t)
    <2>1. /\ IsFiniteSet(Copies(t)') /\ Cardinality(Copies(t)') = Cardinality(Copies(t)) + 1
          /\ \A u \in Txns \ {t} : Copies(u)' = Copies(u)
      BY <1>2, <1>a, ProduceCopies DEF Publish
    <2>2. QED BY <1>2, <1>a, <1>c, <2>1 DEF Publish, Goto, Answer
  <1>3. CASE PublishRetried(t)
    <2>1. /\ IsFiniteSet(Copies(t)')
          /\ Cardinality(Copies(t)') \in {Cardinality(Copies(t)), Cardinality(Copies(t)) + 1}
          /\ \A u \in Txns \ {t} : Copies(u)' = Copies(u)
      BY <1>3, <1>a, <1>b, ProduceCopies DEF PublishRetried, ProduceFails
    <2>2. attempt' = [attempt EXCEPT ![t] = attempt[t] + 1]
      BY <1>3 DEF PublishRetried, ProduceFails
    <2>3. \A u \in Txns \ {t} : request'[u] = request[u]
      BY <1>3, <1>a DEF PublishRetried, ProduceFails, Goto
    <2>4. QED BY <1>3, <1>a, <1>c, <2>1, <2>2, <2>3 DEF PublishRetried, ProduceFails
  <1>4. QED BY <1>1, <1>2, <1>3 DEF Handle

(* However often the publisher retries, the topic holds at most            *)
(* KAFKA_PUBLISH_RETRIES copies of a job.                                  *)
THEOREM DuplicatesAreBounded == SubmitSpec => []CopiesAreBounded
  <1>1. SubmitInit => CopiesInv
    <2> SUFFICES ASSUME SubmitInit, NEW t \in Txns
                 PROVE  Copies(t) = {} /\ attempt[t] = 0
      BY FS_EmptySet, SubmissionAssumption DEF CopiesInv
    <2>1. QED BY TopicAssumption DEF SubmitInit, TopicInit, Copies
  <1>2. SubmitTypeInv /\ CopiesInv /\ [SubmitNext]_submitVars => CopiesInv'
    <2> SUFFICES ASSUME SubmitTypeInv, CopiesInv, [SubmitNext]_submitVars PROVE CopiesInv'
      OBVIOUS
    <2>a. request \in [Txns -> RequestStates]
      BY DEF SubmitTypeInv, SubmitTypeOK
    <2>b. ASSUME UNCHANGED topic PROVE \A u \in Txns : Copies(u)' = Copies(u)
      BY <2>b DEF Copies
    <2>1. ASSUME NEW t \in Txns, Handle(t) PROVE CopiesInv'
      BY <2>1, HandleCopies
    <2>2. ASSUME NEW t \in Txns, NEW kind \in InputKinds, Receive(t, kind) PROVE CopiesInv'
      BY <2>2, <2>a, <2>b DEF Receive, Unreadable, Invalid, Answer, Goto, CopiesInv
    <2>3. CASE ApiCrash
      BY <2>3, <2>a, <2>b DEF ApiCrash, CopiesInv
    <2>4. CASE UNCHANGED submitVars
      BY <2>4, <2>b DEF submitVars, CopiesInv
    <2>5. CASE LateStatus
      BY <2>5, <2>b DEF LateStatus, clientVars, CopiesInv
    <2>6. QED BY <2>1, <2>2, <2>3, <2>4, <2>5 DEF SubmitNext
  <1>3. CopiesInv => CopiesAreBounded
    BY DEF CopiesInv, CopiesAreBounded
  <1>4. QED BY <1>1, <1>2, <1>3, SubmitTypeInit, SubmitTypeStep, PTL DEF SubmitSpec
=============================================================================
