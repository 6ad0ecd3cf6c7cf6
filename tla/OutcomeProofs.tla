---------------------------- MODULE OutcomeProofs ----------------------------
(* Theorems about what the clients of the pipeline end up with: refusals,  *)
(* verdicts, records that do not stay PROCESSING, callbacks, one identity  *)
(* per person.  Where one holds only while certain failures stay away, its *)
(* assumption on FaultKinds names them; all other failures may happen, in  *)
(* any number.                                                             *)
EXTENDS PipelineProofs, ScoringProofs

\* The steps of a call that write its status record, and what they write.
Writers == {"start", "complete", "fail", "failAgain"}
Written(l) ==
    CASE call[l].step = "start" -> Plain("PROCESSING")
      [] call[l].step = "complete" -> Completed(call[l].result)
      [] OTHER -> Plain("FAILED")

\* While no write is executed after its caller gave it up, no store is left
\* with anything to execute late.
Prompt == "lateWrite" \notin FaultKinds
NothingLate == late = {} /\ lateFaces = {} /\ lateNames = {} /\ lateIdentities = {}
-----------------------------------------------------------------------------
(* Prompt writes leave nothing for later, and nothing is executed later.   *)
LEMMA PromptWork ==
    ASSUME Prompt, NEW l \in Loops, Work(l)
    PROVE  UNCHANGED <<late, lateFaces, lateNames, lateIdentities>>
  <1>1. ~Fault("lateWrite") /\ ~UpsertIsLate(l)
    BY DEF Prompt, Fault, UpsertIsLate
  <1>2. ASSUME NEW t, NEW r, SaveStatusQuietly(t, r) PROVE late' = late
    BY <1>1, <1>2 DEF SaveStatusQuietly, StatusWriteFails, Postpone, SaveStatus
  <1>3. CASE Start(l) \/ Complete(l) \/ Fail(l) \/ FailAgain(l)
    BY <1>2, <1>3 DEF Start, Complete, Fail, FailAgain, stores
  <1>4. CASE Embed(l) \/ SearchFace(l) \/ SearchName(l) \/ Rank(l) \/ Decide(l) \/ UpsertFace(l)
             \/ UpsertName(l) \/ SaveIdentity(l) \/ Notify(l)
    BY <1>1, <1>4 DEF Embed, SearchFace, SearchName, Rank, Decide, UpsertFace, UpsertName, SaveIdentity,
                      Notify, stores
  <1>5. QED BY <1>3, <1>4 DEF Work

LEMMA PromptServer ==
    ASSUME Prompt, RequestNext
    PROVE  late' = late
  <1>1. ASSUME NEW t, NEW r, StatusWriteFails(t, r) \/ SaveStatus(t, r) PROVE late' = late
    BY <1>1 DEF Prompt, Fault, StatusWriteFails, Postpone, SaveStatus
  <1>2. QED
    BY <1>1 DEF RequestNext, Handle, Accept, AcceptFails, Publish, PublishRetried, PublishRefused, Compensate,
                SaveStatusQuietly, Receive, ApiCrash

LEMMA PromptCases ==
    ASSUME NothingLate, [Next]_vars
    PROVE  ServerStep \/ CallStep \/ RestStep \/ UNCHANGED vars
  BY StepCases DEF NothingLate, RecordLands, LateStatus, LandStatus, StoreLands, Land, LandFace, LandName,
                   LandIdentity

LEMMA PromptStep ==
    ASSUME Prompt, NothingLate, [Next]_vars
    PROVE  NothingLate'
  <1>1. CASE ServerStep
    BY <1>1, PromptServer DEF ServerStep, workerVars, stores, NothingLate
  <1>2. CASE CallStep
    BY <1>2, PromptWork DEF CallStep, NothingLate
  <1>3. CASE RestStep
    BY <1>3, OtherFrame DEF RestStep, stores, NothingLate
  <1>4. CASE UNCHANGED vars
    BY <1>4 DEF vars, workVars, NothingLate
  <1>5. QED BY <1>1, <1>2, <1>3, <1>4, PromptCases

LEMMA PromptInvariance == ASSUME Prompt PROVE Spec => []NothingLate
  <1>1. Init => NothingLate
    BY DEF Init, SubmitInit, StatusInit, WorkerInit, ServiceInit, NothingLate
  <1>2. NothingLate /\ [Next]_vars => NothingLate'
    BY PromptStep
  <1>3. QED BY <1>1, <1>2, PTL DEF Spec
-----------------------------------------------------------------------------
(* A step of a call writes no record or its own, and at the steps that     *)
(* write one it does so unless the write fails.  What it leaves for later  *)
(* is that record.                                                         *)
LEMMA WorkWrites ==
    ASSUME NEW l \in Loops, Work(l)
    PROVE  /\ \/ status' = status
              \/ call[l].step \in Writers /\ status' = [status EXCEPT ![call[l].txn] = Written(l)]
           /\ call[l].step \in Writers /\ "statusWrite" \notin FaultKinds /\ Prompt =>
                status' = [status EXCEPT ![call[l].txn] = Written(l)]
           /\ \A w \in late' : w \in late \/ (w.txn = call[l].txn /\ w.record = Written(l))
  <1> DEFINE Saves(r) == /\ \/ status' = [status EXCEPT ![call[l].txn] = r]
                            \/ status' = status /\ ("statusWrite" \in FaultKinds \/ ~Prompt)
                         /\ \A w \in late' : w \in late \/ (w.txn = call[l].txn /\ w.record = r)
  <1>1. ASSUME NEW r, SaveStatusQuietly(call[l].txn, r) PROVE Saves(r)
    BY <1>1 DEF SaveStatusQuietly, StatusWriteFails, Postpone, SaveStatus, Fault, Prompt
  <1>2. CASE Start(l)
    BY <1>1, <1>2 DEF Start, At, Txn, Written, Writers
  <1>3. CASE Complete(l)
    BY <1>1, <1>3 DEF Complete, At, Txn, Written, Writers
  <1>4. CASE Fail(l)
    BY <1>1, <1>4 DEF Fail, At, Txn, Written, Writers
  <1>5. CASE FailAgain(l)
    BY <1>1, <1>5 DEF FailAgain, At, Txn, Written, Writers
  <1>6. CASE Embed(l) \/ SearchFace(l) \/ SearchName(l) \/ Rank(l) \/ Decide(l) \/ UpsertFace(l)
             \/ UpsertName(l) \/ SaveIdentity(l) \/ Notify(l)
    BY <1>6 DEF Embed, SearchFace, SearchName, Rank, Decide, UpsertFace, UpsertName, SaveIdentity, Notify,
                At, Writers
  <1>7. QED BY <1>2, <1>3, <1>4, <1>5, <1>6 DEF Work

(* A step of a call ends it at notify and failAgain only, reaches notify   *)
(* from complete only, and posts nothing before notify.                    *)
LEMMA WorkMoves ==
    ASSUME CallsType, NEW l \in Loops, Work(l)
    PROVE  /\ \/ call'[l] = Idle /\ call[l].step \in {"notify", "failAgain"}
              \/ /\ call'[l].txn = call[l].txn
                 /\ call'[l].step = "notify" <=> call[l].step = "complete"
                 /\ call[l].step = "complete" => call'[l].result = call[l].result
                 /\ call'[l].step # "idle" /\ call[l].step \notin {"notify", "failAgain"}
           /\ call[l].step # "notify" => told' = told
  <1> DEFINE c == call[l]
             Moves(d) == /\ d.txn = c.txn
                         /\ d.step = "notify" <=> c.step = "complete"
                         /\ c.step = "complete" => d.result = c.result
                         /\ d.step # "idle" /\ c.step \notin {"notify", "failAgain"}
  <1>1. c \in Calls
    BY InCall DEF Work, Start, Embed, SearchFace, SearchName, Rank, Decide, UpsertFace, UpsertName,
                  SaveIdentity, Complete, Notify, Fail, FailAgain, Steps
  <1>2. ASSUME NEW step \in Steps, Step(l, step) PROVE call'[l] = [c EXCEPT !.step = step]
    BY <1>1, <1>2, StepType
  <1>3. ASSUME NEW d, Set(l, d) PROVE call'[l] = d
    BY <1>3 DEF Set, CallsType
  <1>4. CASE Start(l) \/ Embed(l) \/ UpsertFace(l) \/ UpsertName(l) \/ Fail(l)
    <2>1. /\ c.step \in {"start", "embed", "upsertFace", "upsertName", "fail"}
          /\ \E step \in {"embed", "searchFace", "fail", "upsertName", "saveIdentity", "failAgain"} :
               call'[l] = [c EXCEPT !.step = step]
      BY <1>2, <1>4 DEF Start, Embed, UpsertFace, UpsertName, Fail, At, Steps
    <2>2. Moves(call'[l])
      BY <1>1, <2>1 DEF Calls
    <2>3. told' = told
      BY <1>4 DEF Start, Embed, UpsertFace, UpsertName, Fail
    <2>4. QED BY <2>2, <2>3
  <1>5. CASE Complete(l)
    <2>1. c.step = "complete" /\ call'[l] = [c EXCEPT !.step = "notify"] /\ told' = told
      BY <1>2, <1>5 DEF Complete, At, Steps
    <2>2. Moves(call'[l])
      BY <1>1, <2>1 DEF Calls
    <2>3. QED BY <2>1, <2>2
  <1>6. CASE Notify(l)
    BY <1>3, <1>6 DEF Notify, At
  <1>7. CASE FailAgain(l)
    BY <1>3, <1>7 DEF FailAgain, At
  <1>8. CASE SearchFace(l) \/ SearchName(l) \/ Rank(l) \/ Decide(l) \/ SaveIdentity(l)
    <2>1. c.step \in {"searchFace", "searchName", "rank", "saveIdentity"} /\ told' = told
      BY <1>8 DEF SearchFace, SearchName, Rank, Decide, SaveIdentity, At
    <2>2. ASSUME SearchFace(l) \/ SearchName(l) PROVE Moves(call'[l])
      <3>1. CASE Step(l, "fail")
        BY <1>1, <1>2, <2>1, <3>1 DEF Calls, Steps
      <3>2. CASE \E s : Set(l, [c EXCEPT !.faces = s, !.step = "searchName"])
        BY <1>1, <1>3, <2>1, <3>2 DEF Calls
      <3>3. CASE \E s : Set(l, [c EXCEPT !.names = Entries(s), !.step = "rank"])
        BY <1>1, <1>3, <2>1, <3>3 DEF Calls
      <3>4. QED BY <2>2, <3>1, <3>2, <3>3 DEF SearchFace, SearchName
    <2>3. ASSUME Rank(l) PROVE Moves(call'[l])
      <3>1. call'[l] \in {[c EXCEPT !.faces = Tail(@)],
                          [[c EXCEPT !.faces = Tail(@)] EXCEPT !.best = Head(c.faces)]}
        BY <1>3, <2>3 DEF Rank
      <3>2. QED BY <1>1, <2>1, <3>1 DEF Calls
    <2>4. ASSUME Decide(l) PROVE Moves(call'[l])
      <3>1. \/ \E id : Set(l, [c EXCEPT !.id = id, !.step = "upsertFace"])
            \/ c.step = "rank" /\ \E r : Set(l, [c EXCEPT !.result = r, !.step = "complete"])
        BY <2>4 DEF Decide, At
      <3>2. QED BY <1>1, <1>3, <2>1, <3>1 DEF Calls
    <2>5. ASSUME SaveIdentity(l) PROVE Moves(call'[l])
      <3>1. \/ \E r : Set(l, [c EXCEPT !.result = r, !.step = "complete"])
            \/ Step(l, "fail")
        BY <2>5 DEF SaveIdentity
      <3>2. QED BY <1>1, <1>2, <1>3, <2>1, <3>1 DEF Calls, Steps
    <2>6. QED BY <1>8, <2>1, <2>2, <2>3, <2>4, <2>5
  <1>9. QED BY <1>4, <1>5, <1>6, <1>7, <1>8 DEF Work
-----------------------------------------------------------------------------
\* A transaction that was refused has a handler that ended, and a record that
\* is not ACCEPTED, nor will be.
RefusedInv ==
    /\ \A t \in Txns : reply[t] \in {400, 503} => request[t] = "done" /\ status[t].state # "ACCEPTED"
    /\ late = {}

(* No step of the API server leaves the record of a transaction it refuses *)
(* or has refused ACCEPTED.                                                *)
LEMMA RefusedServerStep ==
    ASSUME "statusWrite" \notin FaultKinds, Prompt, SubmitTypeInv, SubmitInv, RefusedInv,
           [SubmitNext]_submitVars
    PROVE  RefusedInv'
  <1> USE DEF RefusedInv
  <1>a. /\ StatusTypeOK /\ request \in [Txns -> RequestStates] /\ reply \in [Txns -> {0, 202, 400, 503}]
        /\ \A t \in Txns : request[t] \in {"idle", "accepting"} => status[t].state = "MISSING"
    BY DEF SubmitTypeInv, SubmitTypeOK, SubmitInv, RecordBeforeJob
  <1>b. /\ Plain("ACCEPTED") \in Records
        /\ Plain("FAILED") \in Records /\ Plain("FAILED").state = "FAILED"
    BY PlainRecord DEF States
  <1>1. ASSUME NEW t \in Txns, Accept(t) PROVE RefusedInv'
    <2>1. \A u \in Txns \ {t} : status'[u] = status[u]
      BY <1>1, <1>a, <1>b, SaveStatusType DEF Accept
    <2>2. QED BY <1>1, <1>a, <2>1 DEF Accept, SaveStatus, Goto, clientVars
  <1>2. ASSUME NEW t \in Txns, AcceptFails(t) PROVE FALSE
    BY <1>2 DEF AcceptFails, StatusWriteFails, Postpone, Prompt, Fault
  <1>3. ASSUME NEW t \in Txns, Publish(t) \/ PublishRetried(t) \/ PublishRefused(t) PROVE RefusedInv'
    BY <1>3, <1>a DEF Publish, PublishRetried, PublishRefused, Answer, Goto, clientVars
  <1>4. ASSUME NEW t \in Txns, Compensate(t) PROVE RefusedInv'
    <2>1. status' = [status EXCEPT ![t] = Plain("FAILED")] /\ late' = late
      BY <1>4 DEF Compensate, SaveStatusQuietly, StatusWriteFails, Postpone, Prompt, SaveStatus, Fault
    <2>2. QED BY <1>4, <1>a, <1>b, <2>1 DEF Compensate, Answer, Goto, StatusTypeOK
  <1>5. ASSUME NEW t \in Txns, NEW kind \in InputKinds, Receive(t, kind) PROVE RefusedInv'
    BY <1>5, <1>a DEF Receive, Answer, Goto
  <1>6. CASE ApiCrash
    BY <1>6, <1>a DEF ApiCrash, clientVars
  <1>7. CASE UNCHANGED submitVars
    BY <1>7 DEF submitVars
  <1>8. ~LateStatus
    BY DEF LateStatus, LandStatus
  <1>9. QED BY <1>1, <1>2, <1>3, <1>4, <1>5, <1>6, <1>7, <1>8 DEF SubmitNext, Handle

(* What the workers write does not make a refused transaction ACCEPTED.    *)
LEMMA RefusedStep ==
    ASSUME "statusWrite" \notin FaultKinds, Prompt, PipelineInv, NothingLate, RefusedInv, [Next]_vars
    PROVE  RefusedInv'
  <1>a. StatusTypeOK /\ FaultsTypeOK /\ ServiceTypeOK /\ ServiceInv /\ SubmitTypeInv /\ SubmitInv
    BY DEF PipelineInv, TypeInv, SubmitTypeInv, SubmitTypeOK, WorkerTypeOK
  <1>1. CASE ServerStep
    BY <1>1, <1>a, RefusedServerStep DEF ServerStep, RequestNext, SubmitNext
  <1>2. CASE CallStep
    <2>1. UNCHANGED <<request, reply, late>>
      BY <1>2, PromptWork DEF CallStep, serverVars
    <2>2. \A t \in Txns : status'[t] = status[t] \/ status'[t].state # "ACCEPTED"
      BY <1>2, <1>a, WorkStatus DEF CallStep, StatusTypeOK
    <2>3. QED BY <2>1, <2>2 DEF RefusedInv
  <1>3. CASE RestStep
    BY <1>3, OtherFrame DEF RestStep, serverVars, RefusedInv
  <1>4. CASE UNCHANGED vars
    BY <1>4 DEF vars, workVars, RefusedInv
  <1>5. QED BY <1>1, <1>2, <1>3, <1>4, PromptCases

LEMMA RefusedInit == SubmitInit => RefusedInv
  BY DEF SubmitInit, StatusInit, RefusedInv

(* While status writes succeed, in time, whoever was refused does not find *)
(* the transaction ACCEPTED, be it in a topic or not: of the API server    *)
(* alone, and of the whole pipeline.                                       *)
THEOREM RefusalsLeaveNothing ==
    ASSUME "statusWrite" \notin FaultKinds, Prompt
    PROVE  SubmitSpec => []RefusedIsNotAccepted
  <1>1. SubmitInit => SubmitTypeInv /\ SubmitInv /\ RefusedInv
    BY SubmitTypeInit, SubmitInvInit, RefusedInit
  <1>2. SubmitTypeInv /\ SubmitInv /\ RefusedInv /\ [SubmitNext]_submitVars
          => (SubmitTypeInv /\ SubmitInv /\ RefusedInv)'
    BY SubmitTypeStep, SubmitInvStep, RefusedServerStep
  <1>3. RefusedInv => RefusedIsNotAccepted
    BY DEF RefusedInv, RefusedIsNotAccepted
  <1>4. QED BY <1>1, <1>2, <1>3, PTL DEF SubmitSpec

(* The workers write the same records and do not bring ACCEPTED back to a  *)
(* transaction whose client was refused.                                   *)
THEOREM RefusalsStayRefusals ==
    ASSUME "statusWrite" \notin FaultKinds, Prompt
    PROVE  Spec => []RefusedIsNotAccepted
  <1>1. Init => RefusedInv
    BY RefusedInit DEF Init
  <1>2. PipelineInv /\ NothingLate /\ RefusedInv /\ [Next]_vars => RefusedInv'
    BY RefusedStep
  <1>3. RefusedInv => RefusedIsNotAccepted
    BY DEF RefusedInv, RefusedIsNotAccepted
  <1>4. QED BY <1>1, <1>2, <1>3, Invariance, PromptInvariance, PTL DEF Spec
-----------------------------------------------------------------------------
\* Every answer given or about to be given is supported by the inputs.
SupportedInv ==
    /\ \A t \in Txns : Supported(t, status[t].result) /\ \A result \in told[t] : Supported(t, result)
    /\ \A w \in late : Supported(w.txn, w.record.result)
    /\ \A l \in Loops : call[l] # Idle => Supported(call[l].txn, call[l].result)

(* A name score above 0 is that of the name in the shortlist. *)
LEMMA NameCounts ==
    ASSUME NEW t, NEW n, NEW names, NEW floor \in Nat \ {0}, Name(t, n, names) >= floor
    PROVE  Name(t, n, names) = NameSim[t][minted[n]]
  <1>1. Name(t, n, names) # 0
    OBVIOUS
  <1>2. QED BY <1>1 DEF Name

(* What a job decides about a stored candidate is supported: a duplicate   *)
(* by the face, a match by the name of the shortlist, whose score counts   *)
(* only above 0, so the threshold has to be above it.                      *)
LEMMA VerdictSupported ==
    ASSUME NameMatchThreshold > 0, NEW t \in Txns, NEW n, n # 0, NEW names,
           JobType[t] = "enroll" => Face(t, n) >= FaceDupThreshold
    PROVE  Supported(t, [verdict |-> Verdict(t, n, names), id |-> n])
  <1> DEFINE v == Verdict(t, n, names)
             r == [verdict |-> v, id |-> n]
  <1>a. r.verdict = v /\ r.id = n
    OBVIOUS
  <1>1. CASE JobType[t] = "enroll"
    <2>1. v \in {"ALREADY_EXISTS", "POTENTIAL_FRAUD", "PARTIAL_MATCH"}
      BY <1>1 DEF Verdict, DuplicateVerdict
    <2>2. QED BY <1>1, <1>a, <2>1 DEF Supported
  <1>2. CASE JobType[t] # "enroll"
    <2>1. v = VerifyVerdict(TRUE, Live[t], Face(t, n), Name(t, n, names), Demo(t, n))
      BY <1>2 DEF Verdict
    <2>2. v \in {"NO_MATCH", "MATCHED", "PARTIAL_MATCH"}
      BY <2>1 DEF VerifyVerdict
    <2>3. ASSUME v = "MATCHED"
          PROVE  Live[t] /\ FullMatch(Face(t, n), NameSim[t][minted[n]], Demo(t, n))
      <3>1. Live[t] /\ FullMatch(Face(t, n), Name(t, n, names), Demo(t, n))
        BY <2>1, <2>3 DEF VerifyVerdict
      <3>2. Name(t, n, names) >= NameMatchThreshold
        BY <3>1 DEF FullMatch
      <3>3. NameMatchThreshold \in Nat \ {0}
        BY ThresholdsAreNumbers
      <3>4. QED BY <3>1, <3>2, <3>3, NameCounts
    <2>4. ASSUME v = "PARTIAL_MATCH"
          PROVE  Live[t] /\ PartialMatch(Face(t, n), NameSim[t][minted[n]], Demo(t, n))
      <3>1. Live[t] /\ PartialMatch(Face(t, n), Name(t, n, names), Demo(t, n))
        BY <2>1, <2>4 DEF VerifyVerdict
      <3>2. QED BY <3>1, NameCounts DEF PartialMatch
    <2>5. CASE v = "MATCHED"
      BY <1>a, <2>3, <2>5 DEF Supported
    <2>6. CASE v = "PARTIAL_MATCH"
      BY <1>2, <1>a, <2>4, <2>6 DEF Supported
    <2>7. CASE v = "NO_MATCH"
      BY <1>a, <2>7 DEF Supported
    <2>8. QED BY <2>2, <2>5, <2>6, <2>7
  <1>3. QED BY <1>1, <1>2

\* Supported, for given makers of the identities.
SupportedBy(maker, t, result) ==
    LET u == maker[result.id]
        name == NameSim[t][u]
    IN  /\ result.verdict = "MATCHED" =>
             result.id # 0 /\ Live[t] /\ FullMatch(FaceSim[t][u], name, SameDemo[t][u])
        /\ result.verdict \in {"ALREADY_EXISTS", "POTENTIAL_FRAUD"} =>
             result.id # 0 /\ FaceSim[t][u] >= FaceDupThreshold
        /\ result.verdict = "PARTIAL_MATCH" =>
             result.id # 0 /\ IF JobType[t] = "enroll" THEN FaceSim[t][u] >= FaceDupThreshold
                              ELSE Live[t] /\ PartialMatch(FaceSim[t][u], name, SameDemo[t][u])

(* What is supported stays so: identities keep their inputs. *)
LEMMA SupportedStays ==
    ASSUME identities \subseteq 1..Len(minted), \A n \in 1..Len(minted) : minted'[n] = minted[n],
           NEW t, NEW result, Durable(t, result), Supported(t, result)
    PROVE  SupportedBy(minted', t, result)
  <1>1. CASE result.id = 0
    BY <1>1 DEF Supported, SupportedBy
  <1>2. CASE result.id # 0
    <2>1. minted'[result.id] = minted[result.id]
      BY <1>2 DEF Durable
    <2>2. QED BY <2>1 DEF Supported, SupportedBy, Face, Demo
  <1>3. QED BY <1>1, <1>2

(* A step of a call that does not end it keeps its answer, or decides one  *)
(* that is supported.                                                      *)
LEMMA WorkSupported ==
    ASSUME NameMatchThreshold > 0, ServiceTypeOK, ServiceInv, NEW l \in Loops, Work(l)
    PROVE  \/ call'[l] = Idle
           \/ call'[l].txn = call[l].txn /\ call'[l].result = call[l].result
           \/ minted' = minted /\ Supported(call'[l].txn, call'[l].result)
  <1> DEFINE c == call[l]
             Keeps(d) == d = Idle \/ (d.txn = c.txn /\ d.result = c.result)
  <1>a. CallsType
    BY DEF ServiceTypeOK, CallsType
  <1>1. c \in Calls
    BY <1>a, InCall DEF Work, Start, Embed, SearchFace, SearchName, Rank, Decide, UpsertFace, UpsertName,
                  SaveIdentity, Complete, Notify, Fail, FailAgain, Steps
  <1>2. ASSUME NEW step \in Steps, Step(l, step) PROVE Keeps(call'[l])
    <2>1. call'[l] = [c EXCEPT !.step = step]  BY <1>a, <1>1, <1>2, StepType
    <2>2. QED BY <1>1, <2>1 DEF Calls
  <1>3. ASSUME NEW d, Set(l, d) PROVE call'[l] = d
    BY <1>a, <1>3 DEF Set, CallsType
  <1>5. CASE Start(l) \/ Embed(l) \/ UpsertFace(l) \/ UpsertName(l) \/ Complete(l) \/ Fail(l)
             \/ Notify(l) \/ FailAgain(l)
    BY <1>2, <1>3, <1>5
    DEF Start, Embed, UpsertFace, UpsertName, Complete, Fail, Notify, FailAgain, Steps
  <1>6. CASE SearchFace(l) \/ SearchName(l)
    <2>1. CASE Step(l, "fail")
      BY <1>2, <2>1 DEF Steps
    <2>2. CASE \E s : Set(l, [c EXCEPT !.faces = s, !.step = "searchName"])
      BY <1>1, <1>3, <2>2 DEF Calls
    <2>3. CASE \E s : Set(l, [c EXCEPT !.names = Entries(s), !.step = "rank"])
      BY <1>1, <1>3, <2>3 DEF Calls
    <2>4. QED BY <1>6, <2>1, <2>2, <2>3 DEF SearchFace, SearchName
  <1>7. CASE Rank(l)
    <2>1. call'[l] \in {[c EXCEPT !.faces = Tail(@)],
                        [[c EXCEPT !.faces = Tail(@)] EXCEPT !.best = Head(c.faces)]}
      BY <1>3, <1>7 DEF Rank
    <2>2. Keeps(call'[l])
      BY <1>1, <2>1 DEF Calls
    <2>3. QED BY <2>2
  <1>8. CASE SaveIdentity(l)
    <2>1. CASE Step(l, "fail")
      BY <1>2, <2>1 DEF Steps
    <2>2. CASE Set(l, [c EXCEPT !.result = [verdict |-> "NEW_USER", id |-> c.id], !.step = "complete"])
      <3>1. call'[l].result = [verdict |-> "NEW_USER", id |-> c.id]
        BY <1>1, <1>3, <2>2 DEF Calls
      <3>2. QED BY <1>8, <3>1 DEF SaveIdentity, Supported
    <2>3. QED BY <1>8, <2>1, <2>2 DEF SaveIdentity
  <1>9. CASE Decide(l)
    <2>1. c.txn \in Txns
      BY <1>1 DEF Calls
    <2>2. CASE \E id : Set(l, [c EXCEPT !.id = id, !.step = "upsertFace"])
      BY <1>1, <1>3, <2>2 DEF Calls
    <2>3. CASE /\ c.best = 0 /\ minted' = minted
               /\ Set(l, [c EXCEPT !.result = [verdict |-> "NO_MATCH", id |-> c.best], !.step = "complete"])
      <3>1. call'[l].result = [verdict |-> "NO_MATCH", id |-> c.best]
        BY <1>1, <1>3, <2>3 DEF Calls
      <3>2. QED BY <2>3, <3>1 DEF Supported
    <2>4. ASSUME minted' = minted, c.best # 0,
                 JobType[c.txn] = "enroll" => Face(c.txn, c.best) >= FaceDupThreshold,
                 Set(l, [c EXCEPT !.result = [verdict |-> Verdict(c.txn, c.best, c.names), id |-> c.best],
                                  !.step = "complete"])
          PROVE  minted' = minted /\ Supported(call'[l].txn, call'[l].result)
      <3>1. /\ call'[l].txn = c.txn
            /\ call'[l].result = [verdict |-> Verdict(c.txn, c.best, c.names), id |-> c.best]
        BY <1>1, <1>3, <2>4 DEF Calls
      <3>2. Supported(c.txn, [verdict |-> Verdict(c.txn, c.best, c.names), id |-> c.best])
        BY <2>1, <2>4, VerdictSupported
      <3>3. QED BY <2>4, <3>1, <3>2
    <2>5. QED BY <1>9, <2>2, <2>3, <2>4 DEF Decide, IsDuplicate
  <1>10. QED BY <1>5, <1>6, <1>7, <1>8, <1>9 DEF Work

(* What is posted and what is written is what the call had decided. *)
LEMMA SupportedCallStep ==
    ASSUME NameMatchThreshold > 0, ServiceTypeOK, StatusTypeOK, FaultsTypeOK, ServiceInv, SupportedInv,
           NEW l \in Loops, Work(l)
    PROVE  SupportedInv'
  <1> DEFINE Stays(t, result) == SupportedBy(minted', t, result)
             c == call[l]
  <1>a. /\ c \in Calls /\ c # Idle /\ c.txn \in Txns /\ CallsType
        /\ Supported(c.txn, c.result) /\ Durable(c.txn, c.result)
    BY WorkStatus DEF SupportedInv, ServiceInv, CallInv, Calls, ServiceTypeOK, CallsType
  <1>b. \A t, result : Durable(t, result) /\ Supported(t, result) => Stays(t, result)
    <2>1. identities \subseteq 1..Len(minted) /\ \A n \in 1..Len(minted) : minted'[n] = minted[n]
      BY WorkGrows DEF ServiceTypeOK
    <2>2. QED BY <2>1, SupportedStays
  <1>n. \A t : Stays(t, NoResult)
    BY DEF SupportedBy, NoResult
  <1>1. ASSUME NEW t \in Txns PROVE Stays(t, status'[t].result)
    <2>1. Stays(t, status[t].result)
      BY <1>b DEF SupportedInv, ServiceInv, AnswersInv
    <2>2. Written(l).result \in {NoResult, c.result}
      BY DEF Written, Plain, Completed
    <2>3. Stays(c.txn, Written(l).result)
      BY <1>a, <1>b, <1>n, <2>2
    <2>4. status'[t] = status[t] \/ (t = c.txn /\ status'[t] = Written(l))
      <3>1. status' = status \/ status' = [status EXCEPT ![c.txn] = Written(l)]
        BY WorkWrites
      <3>2. QED BY <3>1 DEF StatusTypeOK
    <2>5. QED BY <2>1, <2>3, <2>4
  <1>2. ASSUME NEW t \in Txns, NEW result \in told'[t] PROVE Stays(t, result)
    <2>1. told'[t] = told[t] \/ (t = c.txn /\ told'[t] = told[t] \cup {c.result})
      BY DEF Work, Start, Embed, SearchFace, SearchName, Rank, Decide, UpsertFace, UpsertName,
             SaveIdentity, Complete, Notify, Fail, FailAgain, Txn, ServiceTypeOK
    <2>2. \A r \in told[t] : Stays(t, r)
      BY <1>b DEF SupportedInv, ServiceInv, AnswersInv
    <2>3. QED BY <1>2, <1>a, <1>b, <2>1, <2>2
  <1>3. ASSUME NEW m \in Loops, call'[m] # Idle PROVE Stays(call'[m].txn, call'[m].result)
    <2>1. CASE m # l
      <3>1. call'[m] = call[m]
        BY <2>1, WorkGrows
      <3>2. QED BY <1>3, <1>b, <3>1 DEF SupportedInv, ServiceInv, CallInv
    <2>2. CASE m = l
      <3>1. CASE call'[l].txn = c.txn /\ call'[l].result = c.result
        BY <1>a, <1>b, <2>2, <3>1
      <3>2. CASE minted' = minted /\ Supported(call'[l].txn, call'[l].result)
        BY <2>2, <3>2 DEF Supported, SupportedBy, Face, Demo
      <3>3. QED BY <1>3, <2>2, <3>1, <3>2, WorkSupported
    <2>3. QED BY <2>1, <2>2
  <1>4. ASSUME NEW w \in late' PROVE Stays(w.txn, w.record.result)
    <2>1. CASE w \in late
      BY <1>b, <2>1 DEF SupportedInv, ServiceInv, LateInv
    <2>2. CASE w.txn = c.txn /\ w.record = Written(l)
      <3>1. Written(l).result \in {NoResult, c.result}
        BY DEF Written, Plain, Completed
      <3>2. QED BY <1>a, <1>b, <1>n, <2>2, <3>1
    <2>3. QED BY <2>1, <2>2, WorkWrites
  <1>5. QED BY <1>1, <1>2, <1>3, <1>4 DEF SupportedInv, Supported, SupportedBy, Face, Demo

LEMMA SupportedStep ==
    ASSUME NameMatchThreshold > 0, PipelineInv, SupportedInv, [Next]_vars
    PROVE  SupportedInv'
  <1>a. /\ StatusTypeOK /\ FaultsTypeOK /\ ServiceTypeOK /\ ServiceInv /\ SubmitTypeInv /\ SubmitInv
        /\ TypeInv
    BY DEF PipelineInv, TypeInv, SubmitTypeInv, SubmitTypeOK, WorkerTypeOK
  <1>n. \A t : Supported(t, NoResult)
    BY DEF Supported, NoResult
  <1>u. ASSUME UNCHANGED <<minted, told>>,
               \A t \in Txns : Supported(t, status'[t].result),
               \A w \in late' : w \in late \/ w.record.result = NoResult,
               \A m \in Loops : call'[m] \in {call[m], Idle} \/ call'[m].result = NoResult
        PROVE  SupportedInv'
    <2>1. \A w \in late' : Supported(w.txn, w.record.result)
      BY <1>u, <1>n DEF SupportedInv
    <2>2. \A m \in Loops : call'[m] # Idle => Supported(call'[m].txn, call'[m].result)
      BY <1>u, <1>n DEF SupportedInv
    <2>3. \A t \in Txns : \A result \in told'[t] : Supported(t, result)
      BY <1>u DEF SupportedInv
    <2>4. \A t, result : SupportedBy(minted', t, result) <=> Supported(t, result)
      BY <1>u DEF Supported, SupportedBy, Face, Demo
    <2>5. /\ \A t \in Txns : /\ SupportedBy(minted', t, status'[t].result)
                             /\ \A result \in told'[t] : SupportedBy(minted', t, result)
          /\ \A w \in late' : SupportedBy(minted', w.txn, w.record.result)
          /\ \A m \in Loops : call'[m] # Idle => SupportedBy(minted', call'[m].txn, call'[m].result)
      BY <1>u, <2>1, <2>2, <2>3, <2>4
    <2>6. QED BY <2>5 DEF SupportedInv, Supported, SupportedBy, Face, Demo
  <1>1. CASE CallStep
    BY <1>1, <1>a, SupportedCallStep DEF CallStep
  <1>2. CASE RestStep
    <2>1. UNCHANGED <<status, late, minted, told>>
      BY <1>2, OtherFrame DEF RestStep, stores
    <2>2. ASSUME NEW m \in Loops PROVE call'[m] \in {call[m], Idle} \/ call'[m].result = NoResult
      <3>1. \A t, step : NewCall(t, step).result = NoResult
        BY DEF NewCall
      <3>2. QED BY <1>2, <1>a, <3>1, OtherCall DEF RestStep
    <2>3. \A t \in Txns : Supported(t, status'[t].result)
      BY <2>1 DEF SupportedInv
    <2>4. QED BY <1>u, <2>1, <2>2, <2>3
  <1>3. CASE ServerStep
    <2>1. UNCHANGED <<minted, told, call>>
      BY <1>3 DEF ServerStep, workerVars, stores
    <2>2. \A t \in Txns : status'[t].result \in {status[t].result, NoResult}
      BY <1>3, <1>a, ServerStatus DEF ServerStep, StatusTypeOK, Plain
    <2>3. \A t \in Txns : Supported(t, status'[t].result)
      BY <1>n, <2>2 DEF SupportedInv
    <2>4. \A w \in late' : w \in late \/ w.record.result = NoResult
      BY <1>3, <1>a, ServerStatus DEF ServerStep
    <2>5. QED BY <1>u, <2>1, <2>3, <2>4
  <1>4. CASE RecordLands
    <2>1. UNCHANGED <<minted, told, call>>
      BY <1>4 DEF RecordLands, workerVars, stores
    <2>2. PICK w \in late : status' = [status EXCEPT ![w.txn] = w.record] /\ late' \subseteq late
      BY <1>4, <1>a, LateRecord
    <2>3. ASSUME NEW t \in Txns PROVE Supported(t, status'[t].result)
      <3>1. status'[t] = status[t] \/ (t = w.txn /\ status'[t] = w.record)
        BY <1>a, <2>2 DEF StatusTypeOK
      <3>2. QED BY <3>1 DEF SupportedInv
    <2>4. QED BY <1>u, <2>1, <2>2, <2>3
  <1>5. CASE StoreLands \/ UNCHANGED vars
    <2>1. UNCHANGED <<status, late, minted, told, call>>
      BY <1>5, LandGrows DEF StoreLands, vars, workVars
    <2>2. \A t \in Txns : Supported(t, status'[t].result)
      BY <2>1 DEF SupportedInv
    <2>3. QED BY <1>u, <2>1, <2>2
  <1>6. QED BY <1>1, <1>2, <1>3, <1>4, <1>5, StepCases

LEMMA SupportedInit == Init => SupportedInv
  <1> SUFFICES ASSUME Init PROVE SupportedInv
    OBVIOUS
  <1>1. \A t \in Txns : status[t].result = NoResult /\ told[t] = {}
    BY DEF Init, SubmitInit, StatusInit, WorkerInit, ServiceInit, Plain
  <1>2. \A l \in Loops : call[l] = Idle
    BY DEF Init, WorkerInit, ServiceInit
  <1>3. late = {}
    BY DEF Init, SubmitInit, StatusInit
  <1>4. QED BY <1>1, <1>2, <1>3 DEF SupportedInv, Supported, NoResult

(* Whatever fails and however many workers race, a record that names an    *)
(* existing person as a match or a duplicate names one whose own inputs    *)
(* justify it.                                                             *)
THEOREM VerdictsAreSupported ==
    ASSUME NameMatchThreshold > 0
    PROVE  Spec => []AnswersAreSupported
  <1>1. Init => SupportedInv
    BY SupportedInit
  <1>2. PipelineInv /\ SupportedInv /\ [Next]_vars => SupportedInv'
    BY SupportedStep
  <1>3. SupportedInv => AnswersAreSupported
    BY DEF SupportedInv, AnswersAreSupported
  <1>4. QED BY <1>1, <1>2, <1>3, Invariance, PTL DEF Spec
-----------------------------------------------------------------------------
\* The records of p that were not handed out since its last assignment.
Ahead(p) == {topic[p][k] : k \in (position[p] + 1)..Len(topic[p])}

(* Polling moves the positions of the loop's own partitions ahead. *)
LEMMA FetchMoves ==
    ASSUME TypeInv, NEW l \in Loops, Fetch(l), NEW p \in Partitions
    PROVE  /\ position[p] \in Nat /\ position'[p] \in Nat /\ topic[p] \in Seq(Txns) /\ Len(topic[p]) \in Nat
           /\ \/ position'[p] = position[p]
              \/ owner[p] = l /\ position[p] <= position'[p] /\ position'[p] <= Len(topic[p])
  <1>1. position[p] \in Nat /\ topic[p] \in Seq(Txns) /\ Len(topic[p]) \in Nat
    BY DEF TypeInv, WorkerTypeOK, SubmitTypeInv, SubmitTypeOK, TopicTypeOK, Groups!GroupTypeOK
  <1>2. CASE owner[p] = l
    <2>1. position'[p] \in position[p]..Len(topic[p])
      BY <1>2 DEF Fetch, Groups!Owned
    <2>2. QED BY <1>1, <1>2, <2>1
  <1>3. CASE owner[p] # l
    BY <1>1, <1>3 DEF Fetch, Groups!Owned
  <1>4. QED BY <1>2, <1>3

(* A batch is the part of the topic the position moved over. *)
LEMMA PollBatch ==
    ASSUME TypeInv, NEW l \in Loops, Poll(l), NEW p \in Partitions
    PROVE  /\ DOMAIN batch'[l][p] = 1..(position'[p] - position[p])
           /\ \A i \in 1..(position'[p] - position[p]) : batch'[l][p][i] = topic[p][position[p] + i]
  <1> DEFINE a == position[p]
             b == position'[p]
             s == SubSeq(topic[p], a + 1, b)
  <1>1. batch'[l][p] = s
    BY DEF Poll, TypeInv, WorkerTypeOK
  <1>2. /\ a \in Nat /\ b \in Nat /\ topic[p] \in Seq(Txns) /\ Len(topic[p]) \in Nat
        /\ a = b \/ (a <= b /\ b <= Len(topic[p]))
    BY FetchMoves DEF Poll
  <1> HIDE DEF a, b
  <1>3. \A i \in (a + 1)..b : i \in 1..Len(topic[p]) /\ topic[p][i] \in Txns
    BY <1>2
  <1>4. /\ s \in Seq(Txns)
        /\ \A i \in 1..b - (a + 1) + 1 : s[i] = topic[p][a + 1 + i - 1]
        /\ Len(s) = IF a + 1 <= b THEN b - (a + 1) + 1 ELSE 0
    BY <1>2, <1>3, SubSeqProperties
  <1>5. Len(s) = b - a /\ b - (a + 1) + 1 = b - a
    BY <1>2, <1>4
  <1>6. DOMAIN s = 1..(b - a)
    BY <1>4, <1>5, LenProperties
  <1>7. \A i \in 1..(b - a) : s[i] = topic[p][a + i]
    <2> SUFFICES ASSUME NEW i \in 1..(b - a) PROVE s[i] = topic[p][a + i]
      OBVIOUS
    <2>1. i \in 1..b - (a + 1) + 1 /\ a + 1 + i - 1 = a + i
      BY <1>2, <1>5
    <2>2. s[i] = topic[p][a + 1 + i - 1]
      BY <1>4, <2>1
    <2>3. QED BY <2>1, <2>2
  <1>8. QED BY <1>1, <1>6, <1>7 DEF a, b

(* What was ahead is in the batch now, or still ahead. *)
LEMMA PollEntries ==
    ASSUME TypeInv, NEW l \in Loops, Poll(l), NEW p \in Partitions
    PROVE  /\ Entries(batch'[l][p]) = {topic[p][k] : k \in (position[p] + 1)..position'[p]}
           /\ Ahead(p) = Entries(batch'[l][p]) \cup Ahead(p)'
  <1> DEFINE a == position[p]
             b == position'[p]
             n == Len(topic[p])
             s == batch'[l][p]
  <1>1. /\ a \in Nat /\ b \in Nat /\ n \in Nat
        /\ a = b \/ (a <= b /\ b <= n)
    BY FetchMoves DEF Poll
  <1>2. DOMAIN s = 1..(b - a) /\ \A i \in 1..(b - a) : s[i] = topic[p][a + i]
    BY PollBatch
  <1> HIDE DEF a, b, n, s
  <1>3. ASSUME NEW k \in (a + 1)..b PROVE \E i \in 1..(b - a) : s[i] = topic[p][k]
    <2>1. k - a \in 1..(b - a) /\ a + (k - a) = k
      BY <1>1, <1>3
    <2>2. s[k - a] = topic[p][a + (k - a)]
      BY <1>2, <2>1
    <2>3. QED BY <2>1, <2>2
  <1>4. ASSUME NEW i \in 1..(b - a) PROVE \E k \in (a + 1)..b : s[i] = topic[p][k]
    <2>1. a + i \in (a + 1)..b
      BY <1>1, <1>4
    <2>2. QED BY <1>2, <2>1
  <1>5. Entries(s) = {topic[p][k] : k \in (a + 1)..b}
    <2>1. Entries(s) = {s[i] : i \in 1..(b - a)}
      BY <1>2 DEF Entries
    <2>2. \A x : (\E i \in 1..(b - a) : s[i] = x) <=> \E k \in (a + 1)..b : topic[p][k] = x
      BY <1>3, <1>4
    <2>3. QED BY <2>1, <2>2
  <1>6. (a + 1)..n = ((a + 1)..b) \cup ((b + 1)..n)
    BY <1>1
  <1>7. {topic[p][k] : k \in (a + 1)..n}
          = {topic[p][k] : k \in (a + 1)..b} \cup {topic[p][k] : k \in (b + 1)..n}
    BY <1>6
  <1>8. topic' = topic
    BY DEF Poll
  <1>9. QED BY <1>5, <1>7, <1>8 DEF a, b, n, s, Ahead

(* Taking the next event leaves the rest of the batch. *)
LEMMA TakeEntries ==
    ASSUME TypeInv, NEW l \in Loops, NEW p \in Partitions, Take(l, p)
    PROVE  /\ batch[l][p] \in Seq(Txns) /\ batch[l][p] # <<>> /\ Head(batch[l][p]) \in Txns
           /\ batch'[l][p] = Tail(batch[l][p])
           /\ \A t : t \in Entries(batch[l][p]) <=> t = Head(batch[l][p]) \/ t \in Entries(batch'[l][p])
           /\ \A m \in Loops, q \in Partitions : m # l \/ q # p => batch'[m][q] = batch[m][q]
           /\ \E step \in {"start", "failAgain"} : call'[l] = NewCall(Head(batch[l][p]), step)
           /\ \A m \in Loops \ {l} : call'[m] = call[m]
  <1> DEFINE s == batch[l][p]
             rest == Tail(s)
  <1>1. s \in Seq(Txns) /\ s # <<>>
    BY DEF Take, TypeInv, WorkerTypeOK
  <1>2. /\ Head(s) \in Txns /\ rest \in Seq(Txns) /\ Len(rest) = Len(s) - 1 /\ Len(s) \in Nat \ {0}
        /\ Head(s) = s[1] /\ \A i \in 1..Len(rest) : rest[i] = s[i + 1]
    BY <1>1, HeadTailProperties
  <1>3. batch' = [batch EXCEPT ![l][p] = rest] /\ batch \in [Loops -> [Partitions -> Seq(Txns)]]
    BY DEF Take, TypeInv, WorkerTypeOK
  <1>4. /\ call \in [Loops -> Calls \cup {Idle}]
        /\ \E step \in {"start", "failAgain"} : Set(l, NewCall(Head(s), step))
    BY DEF Take, TypeInv, WorkerTypeOK, ServiceTypeOK
  <1>5. Entries(s) = {Head(s)} \cup Entries(rest)
    <2>1. DOMAIN s = 1..Len(s) /\ DOMAIN rest = 1..(Len(s) - 1)
      BY <1>1, <1>2
    <2>2. PICK n \in Nat : n = Len(s)
      BY <1>2
    <2>3. \A k \in 1..n : k = 1 \/ (k - 1 \in 1..(n - 1) /\ (k - 1) + 1 = k)
      OBVIOUS
    <2>4. \A k \in 1..(n - 1) : k + 1 \in 1..n
      OBVIOUS
    <2>5. 1 \in 1..n
      BY <1>2, <2>2
    <2>6. Entries(s) = {s[k] : k \in 1..n} /\ Entries(rest) = {rest[k] : k \in 1..(n - 1)}
      BY <2>1, <2>2 DEF Entries
    <2>7. \A k \in 1..(n - 1) : rest[k] = s[k + 1]
      BY <1>2, <2>2
    <2>8. ASSUME NEW k \in 1..n PROVE s[k] = Head(s) \/ \E i \in 1..(n - 1) : s[k] = rest[i]
      <3>1. CASE k = 1
        BY <1>2, <3>1
      <3>2. CASE k - 1 \in 1..(n - 1) /\ (k - 1) + 1 = k
        BY <2>7, <3>2
      <3>3. QED BY <2>3, <3>1, <3>2
    <2>9. Head(s) \in Entries(s) /\ Entries(rest) \subseteq Entries(s)
      BY <1>2, <2>4, <2>5, <2>6, <2>7
    <2>10. QED BY <2>6, <2>8, <2>9
  <1> HIDE DEF rest
  <1>6. /\ batch'[l][p] = rest
        /\ \A m \in Loops, q \in Partitions : m # l \/ q # p => batch'[m][q] = batch[m][q]
    BY <1>3
  <1>7. QED BY <1>1, <1>2, <1>4, <1>5, <1>6 DEF rest, Set
-----------------------------------------------------------------------------
\* Loops own partitions of their type, and hold jobs of their type.
ByType ==
    /\ \A p \in Partitions : owner[p] \in Loops => owner[p][2] = PartitionType[p]
    /\ \A l \in Loops, p \in Partitions : \A t \in Entries(batch[l][p]) : JobType[t] = l[2]
    /\ \A l \in Loops : call[l] # Idle => JobType[call[l].txn] = l[2]

\* A call that will write the record again, or a job that is still to come:
\* what Pending promises, but for calls at notify, whose record is COMPLETED.
Held(t) ==
    \/ \E l \in Loops : call[l] # Idle /\ call[l].txn = t /\ call[l].step # "notify"
    \/ \E l \in Loops, p \in Partitions : t \in Entries(batch[l][p])
    \/ t \in Ahead(PartitionOf[t])
    \/ Published(t) /\ JobType[t] \in unsettled

HeldInv == \A t \in Txns : status[t].state = "PROCESSING" => Held(t)

LEMMA NobodyIsNoLoop == Groups!Nobody \notin Loops
  BY DEF Loops, Groups!Nobody

(* Group changes: a loop that leaves gives up its partitions and unsettles *)
(* its type, a rebalance starts over the partitions of a type.             *)
LEMMA LeaveGroup ==
    ASSUME TypeInv, NEW ls \in SUBSET Loops, Groups!Leave(ls)
    PROVE  /\ \A p \in Partitions : owner'[p] \in {owner[p], Groups!Nobody}
           /\ position' = position /\ unsettled \subseteq unsettled'
           /\ \A l \in ls : l[2] \in unsettled'
  BY DEF Groups!Leave, TypeInv, WorkerTypeOK, Groups!GroupTypeOK

LEMMA RebalanceGroup ==
    ASSUME TypeInv, NEW type \in Types, Groups!Rebalance(type)
    PROVE  /\ \A p \in Partitions :
                IF PartitionType[p] = type
                THEN position'[p] = 0 /\ owner'[p] \in Loops /\ owner'[p][2] = type
                ELSE position'[p] = position[p] /\ owner'[p] = owner[p]
           /\ type \in unsettled /\ unsettled' = unsettled \ {type}
  <1>1. PICK assignment \in [{p \in Partitions : PartitionType[p] = type} -> Groups!Members(type)] :
          owner' = [p \in Partitions |-> IF PartitionType[p] = type THEN assignment[p] ELSE owner[p]]
    BY DEF Groups!Rebalance
  <1>2. \A l \in Groups!Members(type) : l \in Loops /\ l[2] = type
    BY DEF Groups!Members, TypeInv, WorkerTypeOK, Groups!GroupTypeOK
  <1>3. QED BY <1>1, <1>2 DEF Groups!Rebalance

(* The jobs a loop holds stay of its type. *)
LEMMA ByTypeRest ==
    ASSUME TypeInv, Delivered, ByType, RestStep
    PROVE  ByType'
  <1> USE DEF ByType
  <1>a. /\ OtherStep /\ topic' = topic
        /\ \A p \in Partitions : \A t \in Entries(topic[p]) : t \in Txns /\ JobType[t] = PartitionType[p]
    <2>1. \A p \in Partitions : \A t \in Entries(topic[p]) : t \in Txns
      BY DEF TypeInv, SubmitTypeInv, SubmitTypeOK, TopicTypeOK, Entries
    <2>2. QED BY <2>1, TopicAssumption, OtherFrame DEF RestStep, Delivered
  <1>b. batch \in [Loops -> [Partitions -> Seq(Txns)]] /\ call \in [Loops -> Calls \cup {Idle}]
    BY DEF TypeInv, WorkerTypeOK, ServiceTypeOK
  <1>1. \A p \in Partitions : owner'[p] \in Loops => owner'[p][2] = PartitionType[p]
    <2>1. CASE \E l \in Loops : Groups!Leave({l})
      BY <2>1, LeaveGroup, NobodyIsNoLoop
    <2>2. CASE \E w \in Workers : Groups!Leave(LoopsOf(w))
      BY <2>2, LeaveGroup, NobodyIsNoLoop DEF LoopsOf
    <2>3. CASE \E type \in Types : Groups!Rebalance(type)
      BY <2>3, RebalanceGroup
    <2>4. CASE owner' = owner
      BY <2>4
    <2>5. QED
      BY <1>a, <2>1, <2>2, <2>3, <2>4
      DEF OtherStep, Poll, PollFails, Fetch, InstanceLost, Take, Sigterm, Crash, Exit, Restart, Groups!Join,
          Rebalance, groupVars
  <1>2. CASE \E l \in Loops : Poll(l)
    <2>1. PICK l \in Loops : Poll(l)
      BY <1>2
    <2>2. ASSUME NEW p \in Partitions, NEW t \in Entries(batch'[l][p]) PROVE JobType[t] = l[2]
      <3>1. \A i \in DOMAIN batch'[l][p] : owner[p] = l
        <4>1. DOMAIN batch'[l][p] = 1..(position'[p] - position[p])
          BY <2>1, PollBatch
        <4>2. /\ position[p] \in Nat /\ position'[p] \in Nat
              /\ position'[p] = position[p] \/ owner[p] = l
          BY <2>1, FetchMoves DEF Poll
        <4>3. QED BY <4>1, <4>2
      <3>2. owner[p] = l
        BY <2>2, <3>1 DEF Entries
      <3>3. t \in Ahead(p)
        BY <2>1, <2>2, PollEntries
      <3>4. t \in Entries(topic[p])
        <4>1. position[p] \in Nat /\ topic[p] \in Seq(Txns)
          BY DEF TypeInv, WorkerTypeOK, SubmitTypeInv, SubmitTypeOK, TopicTypeOK, Groups!GroupTypeOK
        <4>2. \A k \in (position[p] + 1)..Len(topic[p]) : k \in DOMAIN topic[p]
          BY <4>1
        <4>3. QED BY <3>3, <4>2 DEF Ahead, Entries
      <3>5. QED BY <1>a, <3>2, <3>4
    <2>3. \A m \in Loops \ {l} : batch'[m] = batch[m]
      BY <1>b, <2>1 DEF Poll
    <2>4. \A m \in Loops, p \in Partitions : \A t \in Entries(batch'[m][p]) : JobType[t] = m[2]
      BY <2>2, <2>3
    <2>5. call' = call
      BY <2>1 DEF Poll
    <2>6. QED BY <1>1, <2>4, <2>5
  <1>3. CASE \E l \in Loops, p \in Partitions : Take(l, p)
    <2>1. PICK l \in Loops, p \in Partitions : Take(l, p)
      BY <1>3
    <2>2. ASSUME NEW m \in Loops, NEW q \in Partitions PROVE Entries(batch'[m][q]) \subseteq Entries(batch[m][q])
      <3>1. Entries(batch'[l][p]) \subseteq Entries(batch[l][p])
        BY <2>1, TakeEntries
      <3>2. m # l \/ q # p => batch'[m][q] = batch[m][q]
        BY <2>1, TakeEntries
      <3>3. QED BY <3>1, <3>2
    <2>3. JobType[Head(batch[l][p])] = l[2]
      <3>1. Head(batch[l][p]) \in Entries(batch[l][p])
        BY <2>1, TakeEntries
      <3>2. QED BY <3>1
    <2>4. \A t, step : NewCall(t, step).txn = t
      BY DEF NewCall
    <2>5. call'[l].txn = Head(batch[l][p])
      BY <2>1, <2>4, TakeEntries
    <2>6. \A m \in Loops : call'[m] # Idle => JobType[call'[m].txn] = m[2]
      BY <2>1, <2>3, <2>5, TakeEntries
    <2>7. \A m \in Loops, q \in Partitions : \A t \in Entries(batch'[m][q]) : JobType[t] = m[2]
      BY <2>2
    <2>8. QED BY <1>1, <2>6, <2>7
  <1>4. CASE \E w \in Workers : Crash(w)
    <2>1. \A p \in Partitions : Entries(NoEvents[p]) = {}
      BY DEF NoEvents, Entries
    <2>2. \A l \in Loops : batch'[l] \in {batch[l], NoEvents} /\ call'[l] \in {call[l], Idle}
      BY <1>4 DEF Crash
    <2>3. \A l \in Loops, p \in Partitions : Entries(batch'[l][p]) \subseteq Entries(batch[l][p])
      BY <2>1, <2>2
    <2>4. QED BY <1>1, <2>2, <2>3
  <1>5. CASE UNCHANGED <<batch, call>>
    BY <1>1, <1>5
  <1>6. QED
    BY <1>a, <1>2, <1>3, <1>4, <1>5
    DEF OtherStep, PollFails, InstanceLost, Sigterm, Exit, Restart, Rebalance

LEMMA ByTypeCall ==
    ASSUME TypeInv, ByType, CallStep
    PROVE  ByType'
  <1>1. PICK l \in Loops : Work(l) /\ UNCHANGED <<groupVars, batch>>
    BY DEF CallStep
  <1>2. CallsType /\ ServiceTypeOK
    BY DEF TypeInv, WorkerTypeOK, ServiceTypeOK, CallsType
  <1>3. \A m \in Loops \ {l} : call'[m] = call[m]
    BY <1>1, <1>2, WorkGrows
  <1>4. call'[l] = Idle \/ call'[l].txn = call[l].txn
    BY <1>1, <1>2, WorkTxn
  <1>5. call[l] # Idle
    BY <1>1, <1>2, IdleFact, InCall
    DEF Work, Start, Embed, SearchFace, SearchName, Rank, Decide, UpsertFace, UpsertName, SaveIdentity,
        Complete, Notify, Fail, FailAgain, Steps
  <1>6. \A m \in Loops : call'[m] # Idle => JobType[call'[m].txn] = m[2]
    BY <1>3, <1>4, <1>5 DEF ByType
  <1>7. QED BY <1>1, <1>6 DEF ByType, groupVars

(* With status writes that succeed, a step of a call leaves the record of  *)
(* its transaction PROCESSING only if the call goes on to write it again.  *)
LEMMA HeldCall ==
    ASSUME "statusWrite" \notin FaultKinds, Prompt, TypeInv, ServiceInv, HeldInv, CallStep
    PROVE  HeldInv'
  <1>1. PICK l \in Loops : Work(l) /\ UNCHANGED <<topic, groupVars, batch>>
    BY DEF CallStep
  <1>2. CallsType /\ ServiceTypeOK /\ StatusTypeOK /\ FaultsTypeOK
    BY DEF TypeInv, SubmitTypeInv, SubmitTypeOK, WorkerTypeOK, ServiceTypeOK, CallsType
  <1> DEFINE c == call[l]
  <1>3. PICK t \in Txns : t = c.txn /\ c # Idle
    BY <1>1, <1>2, WorkStatus DEF Calls
  <1>4. \A m \in Loops \ {l} : call'[m] = call[m]
    BY <1>1, <1>2, WorkGrows
  <1>5. \/ c.step \in Writers /\ status' = [status EXCEPT ![t] = Written(l)]
        \/ c.step \notin Writers /\ status' = status
    BY <1>1, <1>3, WorkWrites
  <1>6. \/ call'[l] = Idle /\ c.step \in {"notify", "failAgain"}
        \/ call'[l].txn = t /\ (call'[l].step = "notify" <=> c.step = "complete")
    BY <1>1, <1>2, <1>3, WorkMoves
  <1>7. CallsType'
    BY <1>1, <1>2, WorkType DEF TypeInv, SubmitTypeInv, SubmitTypeOK, ServiceTypeOK, CallsType
  <1>8. ASSUME NEW u \in Txns, u # t, status'[u].state = "PROCESSING" PROVE Held(u)'
    <2>1. status[u].state = "PROCESSING"
      BY <1>2, <1>5, <1>8 DEF StatusTypeOK
    <2>2. Held(u)
      BY <1>8, <2>1 DEF HeldInv
    <2>3. CASE \E m \in Loops : call[m] # Idle /\ call[m].txn = u /\ call[m].step # "notify"
      BY <1>3, <1>4, <1>8, <2>3 DEF Held
    <2>4. QED BY <1>1, <2>2, <2>3 DEF Held, Ahead, Published, groupVars
  <1>9. ASSUME status'[t].state = "PROCESSING" PROVE Held(t)'
    <2>1. CASE c.step \in {"complete", "fail", "failAgain"}
      <3>1. status'[t] = Written(l)
        BY <1>2, <1>3, <1>5, <2>1 DEF StatusTypeOK, Writers
      <3>2. Written(l).state \in {"COMPLETED", "FAILED"}
        BY <2>1 DEF Written, Completed, Plain
      <3>3. QED BY <1>9, <3>1, <3>2
    <2>2. CASE c.step = "notify"
      <3>1. status' = status
        BY <1>5, <2>2 DEF Writers
      <3>2. Held(t)
        BY <1>3, <1>9, <3>1 DEF HeldInv
      <3>3. CASE \E m \in Loops : call[m] # Idle /\ call[m].txn = t /\ call[m].step # "notify"
        BY <1>3, <1>4, <2>2, <3>3 DEF Held
      <3>4. QED BY <1>1, <3>2, <3>3 DEF Held, Ahead, Published, groupVars
    <2>3. CASE c.step \notin {"complete", "fail", "failAgain", "notify"}
      <3>1. call'[l].txn = t /\ call'[l].step # "notify"
        BY <1>6, <2>3
      <3>2. call'[l] # Idle
        BY <1>1, <1>2, <2>3, WorkMoves, IdleFact
      <3>3. QED BY <3>1, <3>2 DEF Held
    <2>4. QED BY <2>1, <2>2, <2>3
  <1>10. QED BY <1>8, <1>9 DEF HeldInv

(* Polling, taking, crashing and rebalancing leave every job that a        *)
(* PROCESSING record waits for in a batch, in a call, or to be delivered.  *)
LEMMA HeldRest ==
    ASSUME "pollReply" \notin FaultKinds, TypeInv, Delivered, ByType, HeldInv, RestStep
    PROVE  HeldInv'
  <1>a. OtherStep /\ status' = status /\ topic' = topic
    BY OtherFrame DEF RestStep
  <1>b. /\ batch \in [Loops -> [Partitions -> Seq(Txns)]] /\ call \in [Loops -> Calls \cup {Idle}]
        /\ position \in [Partitions -> Nat] /\ topic \in [Partitions -> Seq(Txns)]
        /\ PartitionOf \in [Txns -> Partitions]
    BY TopicAssumption
    DEF TypeInv, WorkerTypeOK, ServiceTypeOK, SubmitTypeInv, SubmitTypeOK, TopicTypeOK, Groups!GroupTypeOK
  <1>c. \A t : Published(t)' <=> Published(t)
    BY <1>a DEF Published
  <1> SUFFICES ASSUME NEW t \in Txns, Held(t) PROVE Held(t)'
    BY <1>a DEF HeldInv
  <1> DEFINE InCalls == \E l \in Loops : call[l] # Idle /\ call[l].txn = t /\ call[l].step # "notify"
             InBatches == \E l \in Loops, p \in Partitions : t \in Entries(batch[l][p])
             Again == Published(t) /\ JobType[t] \in unsettled
  <1>d. InCalls \/ InBatches \/ t \in Ahead(PartitionOf[t]) \/ Again
    BY DEF Held
  <1>1. CASE \E l \in Loops : Poll(l)
    <2>1. PICK l \in Loops : Poll(l)
      BY <1>1
    <2>2. /\ call' = call /\ unsettled' = unsettled /\ batch[l] = NoEvents
          /\ \A m \in Loops \ {l} : batch'[m] = batch[m]
      BY <1>b, <2>1 DEF Poll, Fetch, Drained
    <2>3. \A p \in Partitions : Entries(NoEvents[p]) = {}
      BY DEF NoEvents, Entries
    <2>4. CASE InCalls  BY <2>2, <2>4 DEF Held
    <2>5. CASE InBatches
      BY <2>2, <2>3, <2>5 DEF Held
    <2>6. CASE t \in Ahead(PartitionOf[t])
      <3>1. PartitionOf[t] \in Partitions
        BY <1>b
      <3>2. t \in Entries(batch'[l][PartitionOf[t]]) \/ t \in Ahead(PartitionOf[t])'
        BY <2>1, <2>6, <3>1, PollEntries
      <3>3. QED BY <3>1, <3>2 DEF Held
    <2>7. CASE Again  BY <1>c, <2>2, <2>7 DEF Held
    <2>8. QED BY <1>d, <2>4, <2>5, <2>6, <2>7
  <1>2. CASE \E l \in Loops, p \in Partitions : Take(l, p)
    <2>1. PICK l \in Loops, p \in Partitions : Take(l, p)
      BY <1>2
    <2>2. UNCHANGED <<position, unsettled>> /\ call[l] = Idle
      BY <2>1 DEF Take, groupVars
    <2>3. CASE InCalls
      BY <2>1, <2>2, <2>3, TakeEntries DEF Held
    <2>4. CASE InBatches
      <3>1. PICK m \in Loops, q \in Partitions : t \in Entries(batch[m][q])
        BY <2>4
      <3>2. CASE t \in Entries(batch'[m][q])  BY <3>2 DEF Held
      <3>3. CASE m = l /\ q = p /\ t = Head(batch[l][p])
        <4>1. PICK step \in {"start", "failAgain"} : call'[l] = NewCall(t, step)
          BY <2>1, <3>3, TakeEntries
        <4>2. call'[l].txn = t /\ call'[l].step = step
          BY <4>1 DEF NewCall
        <4>3. call'[l] # Idle /\ call'[l].step # "notify"
          BY <4>2, IdleFact
        <4>4. QED BY <4>2, <4>3 DEF Held
      <3>4. QED
        <4>1. CASE m = l /\ q = p
          BY <2>1, <3>1, <3>2, <3>3, <4>1, TakeEntries
        <4>2. CASE m # l \/ q # p
          BY <2>1, <3>1, <3>2, <4>2, TakeEntries
        <4>3. QED BY <4>1, <4>2
    <2>5. CASE t \in Ahead(PartitionOf[t])  BY <1>a, <2>2, <2>5 DEF Held, Ahead
    <2>6. CASE Again  BY <1>c, <2>2, <2>6 DEF Held
    <2>7. QED BY <1>d, <2>3, <2>4, <2>5, <2>6
  <1>3. ASSUME NEW ls \in SUBSET Loops, Groups!Leave(ls),
               \A l \in Loops \ ls : call'[l] = call[l] /\ batch'[l] = batch[l]
        PROVE  Held(t)'
    <2>1. position' = position /\ unsettled \subseteq unsettled' /\ \A l \in ls : l[2] \in unsettled'
      BY <1>3, LeaveGroup
    <2>2. CASE InCalls
      <3>1. PICK l \in Loops : call[l] # Idle /\ call[l].txn = t /\ call[l].step # "notify"
        BY <2>2
      <3>2. JobType[t] = l[2] /\ Published(t)
        BY <3>1 DEF ByType, Delivered
      <3>3. CASE l \in ls  BY <1>c, <2>1, <3>2, <3>3 DEF Held
      <3>4. CASE l \notin ls  BY <1>3, <3>1, <3>4 DEF Held
      <3>5. QED BY <3>3, <3>4
    <2>3. CASE InBatches
      <3>1. PICK l \in Loops, p \in Partitions : t \in Entries(batch[l][p])
        BY <2>3
      <3>2. JobType[t] = l[2] /\ Published(t)
        BY <3>1 DEF ByType, Delivered
      <3>3. CASE l \in ls  BY <1>c, <2>1, <3>2, <3>3 DEF Held
      <3>4. CASE l \notin ls
        <4>1. batch'[l] = batch[l]  BY <1>3, <3>4
        <4>2. QED BY <3>1, <4>1 DEF Held
      <3>5. QED BY <3>3, <3>4
    <2>4. CASE t \in Ahead(PartitionOf[t])  BY <1>a, <2>1, <2>4 DEF Held, Ahead
    <2>5. CASE Again  BY <1>c, <2>1, <2>5 DEF Held
    <2>6. QED BY <1>d, <2>2, <2>3, <2>4, <2>5
  <1>4. CASE \E w \in Workers : Crash(w) \/ Exit(w)
    <2>1. PICK w \in Workers : Crash(w) \/ Exit(w)
      BY <1>4
    <2>2. LoopsOf(w) \in SUBSET Loops /\ Groups!Leave(LoopsOf(w))
      BY <2>1 DEF LoopsOf, Crash, Exit
    <2>3. \A l \in Loops \ LoopsOf(w) : call'[l] = call[l] /\ batch'[l] = batch[l]
      BY <2>1 DEF LoopsOf, Crash, Exit
    <2>4. QED BY <1>3, <2>2, <2>3
  <1>5. CASE \E l \in Loops : InstanceLost(l)
    <2>1. PICK l \in Loops : InstanceLost(l)
      BY <1>5
    <2>2. Groups!Leave({l}) /\ UNCHANGED <<call, batch>>
      BY <2>1 DEF InstanceLost
    <2>3. QED BY <1>3, <2>2
  <1>6. CASE \E type \in Types : Rebalance(type)
    <2>1. PICK type \in Types : Groups!Rebalance(type) /\ UNCHANGED <<call, batch>>
      BY <1>6 DEF Rebalance
    <2> DEFINE p == PartitionOf[t]
    <2>2. p \in Partitions /\ PartitionType[p] = JobType[t]
      BY <1>b, TopicAssumption
    <2>3. /\ IF JobType[t] = type THEN position'[p] = 0 ELSE position'[p] = position[p]
          /\ unsettled' = unsettled \ {type}
      BY <2>1, <2>2, RebalanceGroup
    <2>4. position[p] \in Nat /\ topic[p] \in Seq(Txns) /\ Len(topic[p]) \in Nat
      BY <1>b, <2>2
    <2>5. CASE InCalls \/ InBatches  BY <2>1, <2>5 DEF Held
    <2>6. CASE t \in Ahead(p)
      <3>1. (position[p] + 1)..Len(topic[p]) \subseteq (position'[p] + 1)..Len(topic[p])
        BY <2>3, <2>4
      <3>2. t \in Ahead(p)'
        BY <1>a, <2>6, <3>1 DEF Ahead
      <3>3. QED BY <3>2 DEF Held
    <2>7. CASE Again
      <3>1. CASE JobType[t] = type
        <4>1. PICK k \in DOMAIN topic[p] : topic[p][k] = t
          BY <2>7 DEF Published
        <4>2. k \in (position'[p] + 1)..Len(topic[p])
          BY <2>3, <2>4, <3>1, <4>1
        <4>3. t \in Ahead(p)'
          BY <1>a, <4>1, <4>2 DEF Ahead
        <4>4. QED BY <4>3 DEF Held
      <3>2. CASE JobType[t] # type  BY <1>c, <2>3, <2>7, <3>2 DEF Held
      <3>3. QED BY <3>1, <3>2
    <2>8. QED BY <1>d, <2>5, <2>6, <2>7
  <1>7. CASE \E w \in Workers : Sigterm(w) \/ Restart(w)
    <2>1. UNCHANGED <<call, batch, position>> /\ unsettled \subseteq unsettled'
      BY <1>7 DEF Sigterm, Restart, groupVars, Groups!Join
    <2>2. QED BY <1>a, <1>c, <1>d, <2>1 DEF Held, Ahead
  <1>8. ASSUME NEW l \in Loops PROVE ~PollFails(l)
    BY DEF PollFails, Fault
  <1>9. QED BY <1>a, <1>1, <1>2, <1>4, <1>5, <1>6, <1>7, <1>8 DEF OtherStep

(* What the API server does to the topics: nothing, or one more record.    *)
LEMMA ServerTopic ==
    ASSUME RequestNext
    PROVE  topic' = topic \/ \E t \in Txns : request[t] = "publishing" /\ Produce(t)
  BY DEF RequestNext, Handle, Receive, ApiCrash, Accept, AcceptFails, Publish, PublishRetried, ProduceFails,
         PublishRefused, Compensate

(* A record that is produced is ahead of every reader. *)
LEMMA ProduceAhead ==
    ASSUME TypeInv, NEW t \in Txns, Produce(t), position' = position, NEW p \in Partitions
    PROVE  /\ p # PartitionOf[t] => topic'[p] = topic[p]
           /\ Ahead(p) \subseteq Ahead(p)'
           /\ Ahead(p)' \subseteq Ahead(p) \cup {t}
  <1>1. topic \in [Partitions -> Seq(Txns)] /\ position[p] \in Nat /\ topic[p] \in Seq(Txns)
    BY DEF TypeInv, SubmitTypeInv, SubmitTypeOK, TopicTypeOK, WorkerTypeOK, Groups!GroupTypeOK
  <1>2. CASE p # PartitionOf[t]
    BY <1>1, <1>2 DEF Produce, Ahead
  <1>3. CASE p = PartitionOf[t]
    <2>1. topic'[p] = Append(topic[p], t)
      BY <1>1, <1>3 DEF Produce
    <2>2. PICK n \in Nat : n = Len(topic[p])
      BY <1>1
    <2>3. /\ Len(topic'[p]) = n + 1 /\ topic'[p][n + 1] = t
          /\ \A k \in 1..n : topic'[p][k] = topic[p][k]
      BY <1>1, <2>1, <2>2
    <2>4. \A k \in (position[p] + 1)..n : k \in 1..n /\ k \in (position[p] + 1)..(n + 1)
      BY <1>1
    <2>5. \A k \in (position[p] + 1)..(n + 1) : k = n + 1 \/ (k \in 1..n /\ k \in (position[p] + 1)..n)
      BY <1>1
    <2>6. Ahead(p) = {topic[p][k] : k \in (position[p] + 1)..n}
      BY <2>2 DEF Ahead
    <2>7. Ahead(p)' = {topic'[p][k] : k \in (position[p] + 1)..(n + 1)}
      BY <2>3 DEF Ahead
    <2>8. Ahead(p) \subseteq Ahead(p)'
      BY <2>3, <2>4, <2>6, <2>7
    <2>9. Ahead(p)' \subseteq Ahead(p) \cup {t}
      BY <2>3, <2>5, <2>6, <2>7
    <2>10. QED BY <1>3, <2>8, <2>9
  <1>4. QED BY <1>2, <1>3

LEMMA HeldServer ==
    ASSUME TypeInv, SubmitInv, HeldInv, ServerStep
    PROVE  (ByType' <=> ByType) /\ HeldInv'
  <1>a. /\ RequestNext /\ UNCHANGED <<call, batch, unsettled, position, owner>>
        /\ SubmitTypeInv /\ TopicTypeOK /\ StatusTypeOK
    BY DEF ServerStep, workerVars, TypeInv, SubmitTypeInv, SubmitTypeOK
  <1>1. ASSUME NEW t \in Txns, status'[t].state = "PROCESSING" PROVE status[t].state = "PROCESSING"
    BY <1>1, <1>a, ServerStatus DEF StatusTypeOK, Plain
  <1>2. ASSUME NEW t \in Txns, Held(t) PROVE Held(t)'
    <2>1. PartitionOf[t] \in Partitions
      BY TopicAssumption
    <2>2. Published(t) => Published(t)'
      <3>1. CASE topic' = topic  BY <3>1 DEF Published
      <3>2. CASE \E u \in Txns : Produce(u)  BY <1>a, <3>2, ProduceType
      <3>3. QED BY <1>a, <3>1, <3>2, ServerTopic
    <2>3. Ahead(PartitionOf[t]) \subseteq Ahead(PartitionOf[t])'
      <3>1. CASE topic' = topic  BY <1>a, <3>1 DEF Ahead
      <3>2. CASE \E u \in Txns : Produce(u)  BY <1>a, <2>1, <3>2, ProduceAhead
      <3>3. QED BY <1>a, <3>1, <3>2, ServerTopic
    <2>4. QED BY <1>a, <1>2, <2>2, <2>3 DEF Held
  <1>3. HeldInv'
    BY <1>1, <1>2 DEF HeldInv
  <1>4. ByType' <=> ByType
    BY <1>a DEF ByType
  <1>5. QED BY <1>3, <1>4

LEMMA PendingStep ==
    ASSUME FaultKinds \cap {"statusWrite", "lateWrite", "pollReply"} = {},
           PipelineInv, NothingLate, ByType, HeldInv, [Next]_vars
    PROVE  ByType' /\ HeldInv'
  <1>a. TypeInv /\ ServiceInv /\ SubmitInv /\ Delivered
    BY DEF PipelineInv
  <1>1. CASE CallStep
    BY <1>a, <1>1, ByTypeCall, HeldCall DEF Prompt
  <1>2. CASE RestStep
    BY <1>a, <1>2, ByTypeRest, HeldRest
  <1>3. CASE ServerStep
    BY <1>a, <1>3, HeldServer
  <1>4. CASE UNCHANGED vars
    <2>1. UNCHANGED <<status, late, topic, call, batch, owner, position, unsettled>>
      BY <1>4 DEF vars, workVars
    <2>2. \A t : Published(t)' <=> Published(t)
      BY <2>1 DEF Published
    <2>3. \A t : Held(t)' <=> Held(t)
      BY <2>1, <2>2 DEF Held, Ahead
    <2>4. QED BY <2>1, <2>3 DEF ByType, HeldInv
  <1>5. QED BY <1>1, <1>2, <1>3, <1>4, PromptCases

LEMMA ByTypeInit == Init => ByType
  <1> SUFFICES ASSUME Init PROVE ByType
    OBVIOUS
  <1>1. /\ \A p \in Partitions : owner[p] = Groups!Nobody
        /\ \A l \in Loops : call[l] = Idle
        /\ \A l \in Loops, p \in Partitions : Entries(batch[l][p]) = {}
    BY DEF Init, WorkerInit, ServiceInit, Groups!GroupInit, NoEvents, Entries
  <1>2. QED BY <1>1, NobodyIsNoLoop DEF ByType

LEMMA ByTypeStep == ASSUME PipelineInv, ByType, [Next]_vars PROVE ByType'
  <1>a. TypeInv /\ Delivered
    BY DEF PipelineInv
  <1>1. CASE CallStep
    BY <1>a, <1>1, ByTypeCall
  <1>2. CASE RestStep
    BY <1>a, <1>2, ByTypeRest
  <1>3. CASE ServerStep \/ RecordLands \/ StoreLands \/ UNCHANGED vars
    <2>1. UNCHANGED <<call, batch, owner>>
      BY <1>3, LandGrows DEF ServerStep, RecordLands, StoreLands, groupVars, workerVars, vars, workVars
    <2>2. QED BY <2>1 DEF ByType
  <1>4. QED BY <1>1, <1>2, <1>3, StepCases

(* However often workers stop, crash and are replaced, no transaction is   *)
(* left PROCESSING with nobody at it, while status writes succeed, in      *)
(* time, and the answers of polls arrive.                                  *)
THEOREM NothingIsLeftProcessing ==
    ASSUME FaultKinds \cap {"statusWrite", "lateWrite", "pollReply"} = {}
    PROVE  Spec => []ProcessingIsPending
  <1>1. Init => ByType /\ HeldInv
    <2> SUFFICES ASSUME Init PROVE ByType /\ HeldInv
      OBVIOUS
    <2>1. /\ \A p \in Partitions : owner[p] = Groups!Nobody
          /\ \A l \in Loops : call[l] = Idle
          /\ \A l \in Loops, p \in Partitions : Entries(batch[l][p]) = {}
          /\ \A t \in Txns : status[t].state = "MISSING"
      BY DEF Init, WorkerInit, ServiceInit, Groups!GroupInit, NoEvents, Entries, SubmitInit, StatusInit, Plain
    <2>2. QED BY <2>1, NobodyIsNoLoop DEF ByType, HeldInv
  <1>2. PipelineInv /\ NothingLate /\ ByType /\ HeldInv /\ [Next]_vars => ByType' /\ HeldInv'
    BY PendingStep
  <1>3. PipelineInv /\ HeldInv => ProcessingIsPending
    <2> SUFFICES ASSUME PipelineInv, NEW t \in Txns, Held(t) PROVE Pending(t)
      BY DEF HeldInv, ProcessingIsPending
    <2> DEFINE p == PartitionOf[t]
    <2>1. p \in Partitions /\ position[p] \in Nat /\ topic[p] \in Seq(Txns) /\ Len(topic[p]) \in Nat
      BY TopicAssumption
      DEF PipelineInv, TypeInv, SubmitTypeInv, SubmitTypeOK, TopicTypeOK, WorkerTypeOK, Groups!GroupTypeOK
    <2>2. CASE \E l \in Loops : call[l] # Idle /\ call[l].txn = t
      BY <2>2 DEF Pending
    <2>3. CASE \E l \in Loops, q \in Partitions : t \in Entries(batch[l][q])
      BY <2>3 DEF Pending, Entries
    <2>4. CASE t \in Ahead(p)
      <3>1. PICK k \in (position[p] + 1)..Len(topic[p]) : topic[p][k] = t
        BY <2>4 DEF Ahead
      <3>2. k \in DOMAIN topic[p] /\ k > position[p]
        BY <2>1, <3>1
      <3>3. QED BY <3>1, <3>2 DEF Pending
    <2>5. CASE Published(t) /\ JobType[t] \in unsettled
      BY <2>5 DEF Pending, Published
    <2>6. QED BY <2>2, <2>3, <2>4, <2>5 DEF Held
  <1>4. Spec => []NothingLate
    BY PromptInvariance DEF Prompt
  <1>5. QED BY <1>1, <1>2, <1>3, <1>4, Invariance, PTL DEF Spec
-----------------------------------------------------------------------------
\* While no produce request fails and neither workers nor their instances go
\* away, every job is handed out exactly once.  Nor is any write late, so that
\* a record stays as the last job to write it wrote it.
Steady == FaultKinds \cap {"publish", "sigterm", "workerCrash", "instanceLost", "lateWrite"} = {}

Distinct(s) == \A j, k \in DOMAIN s : s[j] = s[k] => j = k

\* The job of t is done, but for the end of the call: nobody may get it again.
Finished(t) == status[t].state = "COMPLETED" \/ told[t] # {}

NeverDown == \A w \in Workers : worker[w] = "running"

FirstAssignment ==
    \A p \in Partitions : PartitionType[p] \in unsettled => position[p] = 0 /\ owner[p] = Groups!Nobody

ProducedOnce ==
    /\ \A p \in Partitions : Distinct(topic[p])
    /\ \A t \in Txns : request[t] # "compensating" /\ (request[t] = "publishing" => ~Published(t))

BatchOnce ==
    \A l \in Loops, p \in Partitions :
        /\ Distinct(batch[l][p])
        /\ batch[l][p] # <<>> => owner[p] = l
        /\ Entries(batch[l][p]) \subseteq Entries(topic[p]) \ Ahead(p)

\* Neither ahead nor in a batch.
HandedOut(t) ==
    /\ t \notin Ahead(PartitionOf[t])
    /\ \A m \in Loops, p \in Partitions : t \notin Entries(batch[m][p])

CallOnce ==
    \A l \in Loops : call[l] # Idle =>
        /\ owner[PartitionOf[call[l].txn]] = l
        /\ HandedOut(call[l].txn)
        /\ Finished(call[l].txn) => call[l].step = "notify" /\ told[call[l].txn] = {}

FinishedOnce == \A t \in Txns : Finished(t) => Published(t) /\ HandedOut(t)

OnceInv == NeverDown /\ FirstAssignment /\ ProducedOnce /\ BatchOnce /\ CallOnce /\ FinishedOnce

(* Sequences without repetition. *)
LEMMA DistinctTail ==
    ASSUME NEW S, NEW s \in Seq(S), s # <<>>, Distinct(s)
    PROVE  Distinct(Tail(s)) /\ Head(s) \notin Entries(Tail(s))
  <1>1. /\ Tail(s) \in Seq(S) /\ Len(Tail(s)) = Len(s) - 1 /\ Len(s) \in Nat \ {0}
        /\ Head(s) = s[1] /\ \A i \in 1..Len(Tail(s)) : Tail(s)[i] = s[i + 1]
    BY HeadTailProperties
  <1>2. PICK n \in Nat \ {0} : n = Len(s)
    BY <1>1
  <1>3. DOMAIN s = 1..n /\ DOMAIN Tail(s) = 1..(n - 1) /\ \A i \in 1..(n - 1) : Tail(s)[i] = s[i + 1]
    BY <1>1, <1>2
  <1>4. \A i \in 1..(n - 1) : i + 1 \in 1..n /\ i + 1 # 1
    BY <1>2
  <1>5. 1 \in 1..n
    BY <1>2
  <1>6. ASSUME NEW i \in 1..(n - 1), NEW j \in 1..(n - 1), Tail(s)[i] = Tail(s)[j] PROVE i = j
    <2>1. i + 1 = j + 1
      BY <1>3, <1>4, <1>6 DEF Distinct
    <2>2. QED BY <2>1
  <1>7. ASSUME NEW i \in 1..(n - 1) PROVE Tail(s)[i] # Head(s)
    BY <1>1, <1>3, <1>4, <1>5 DEF Distinct
  <1>8. QED BY <1>3, <1>6, <1>7 DEF Distinct, Entries

LEMMA DistinctAppend ==
    ASSUME NEW S, NEW s \in Seq(S), NEW e \in S, Distinct(s), e \notin Entries(s)
    PROVE  Distinct(Append(s, e)) /\ Entries(Append(s, e)) = Entries(s) \cup {e}
  <1>1. PICK n \in Nat : n = Len(s)
    OBVIOUS
  <1>2. /\ DOMAIN s = 1..n /\ DOMAIN Append(s, e) = 1..(n + 1) /\ Append(s, e)[n + 1] = e
        /\ \A i \in 1..n : Append(s, e)[i] = s[i]
    BY <1>1
  <1>3. \A i \in 1..(n + 1) : i \in 1..n \/ i = n + 1
    OBVIOUS
  <1>4. n + 1 \in 1..(n + 1) /\ \A i \in 1..n : i \in 1..(n + 1)
    OBVIOUS
  <1>5. Entries(Append(s, e)) = Entries(s) \cup {e}
    BY <1>2, <1>3, <1>4 DEF Entries
  <1>6. \A i \in 1..n : s[i] # e
    BY <1>2 DEF Entries
  <1>7. QED BY <1>2, <1>3, <1>5, <1>6 DEF Distinct

(* What is ahead is in the topic, and polling only takes from it. *)
LEMMA AheadInTopic ==
    ASSUME TypeInv, NEW p \in Partitions
    PROVE  Ahead(p) \subseteq Entries(topic[p])
  <1>1. position[p] \in Nat /\ topic[p] \in Seq(Txns)
    BY DEF TypeInv, WorkerTypeOK, SubmitTypeInv, SubmitTypeOK, TopicTypeOK, Groups!GroupTypeOK
  <1>2. \A k \in (position[p] + 1)..Len(topic[p]) : k \in DOMAIN topic[p]
    BY <1>1
  <1>3. QED BY <1>2 DEF Ahead, Entries

LEMMA FetchAhead ==
    ASSUME TypeInv, NEW l \in Loops, Fetch(l), topic' = topic, NEW p \in Partitions
    PROVE  Ahead(p)' \subseteq Ahead(p)
  <1>1. /\ position[p] \in Nat /\ position'[p] \in Nat /\ Len(topic[p]) \in Nat
        /\ position[p] <= position'[p]
    BY FetchMoves
  <1>2. \A k \in (position'[p] + 1)..Len(topic[p]) : k \in (position[p] + 1)..Len(topic[p])
    BY <1>1
  <1>3. QED BY <1>2 DEF Ahead

(* A batch that is polled from a topic without repetition has none, and    *)
(* shares nothing with what is still ahead.                                *)
LEMMA PollOnce ==
    ASSUME TypeInv, NEW l \in Loops, Poll(l), NEW p \in Partitions, Distinct(topic[p])
    PROVE  /\ Distinct(batch'[l][p])
           /\ batch'[l][p] # <<>> => owner[p] = l
           /\ Entries(batch'[l][p]) \cap Ahead(p)' = {}
  <1> DEFINE a == position[p]
             b == position'[p]
             s == batch'[l][p]
  <1>1. /\ a \in Nat /\ b \in Nat /\ topic[p] \in Seq(Txns) /\ Len(topic[p]) \in Nat
        /\ a = b \/ (owner[p] = l /\ a <= b /\ b <= Len(topic[p]))
    BY FetchMoves DEF Poll
  <1>2. DOMAIN s = 1..(b - a) /\ \A i \in 1..(b - a) : s[i] = topic[p][a + i]
    BY PollBatch
  <1>3. Entries(s) = {topic[p][k] : k \in (a + 1)..b}
    BY PollEntries
  <1>4. Ahead(p)' = {topic[p][k] : k \in (b + 1)..Len(topic[p])}
    BY DEF Poll, Ahead
  <1>5. s \in Seq(Txns)
    <2>1. batch' \in [Loops -> [Partitions -> Seq(Txns)]]
      BY OtherBatch DEF OtherStep
    <2>2. QED BY <2>1
  <1> HIDE DEF a, b, s
  <1>6. PICK n \in Nat : n = Len(topic[p]) /\ DOMAIN topic[p] = 1..n
    BY <1>1
  <1>7. ASSUME NEW i \in 1..(b - a), NEW j \in 1..(b - a), s[i] = s[j] PROVE i = j
    <2>1. a + i \in 1..n /\ a + j \in 1..n
      BY <1>1, <1>6
    <2>2. a + i = a + j
      BY <1>2, <1>6, <1>7, <2>1 DEF Distinct
    <2>3. QED BY <1>1, <2>2
  <1>8. ASSUME NEW j \in (a + 1)..b, NEW k \in (b + 1)..n PROVE topic[p][j] # topic[p][k]
    <2>1. j \in 1..n /\ k \in 1..n /\ j # k
      BY <1>1, <1>6
    <2>2. QED BY <1>6, <2>1 DEF Distinct
  <1>9. s # <<>> => a # b
    <2>1. a = b => DOMAIN s = {}
      BY <1>1, <1>2
    <2>2. QED BY <1>5, <2>1
  <1>10. QED BY <1>1, <1>2, <1>3, <1>4, <1>6, <1>7, <1>8, <1>9 DEF Distinct, a, b, s
-----------------------------------------------------------------------------
(* A step of a call leaves its transaction handed out, and finishes it     *)
(* only on the way to, or at, the end of the call.                         *)
LEMMA OnceCall ==
    ASSUME TypeInv, ServiceInv, Delivered, OnceInv, CallStep
    PROVE  OnceInv'
  <1> USE DEF OnceInv
  <1>1. PICK l \in Loops : Work(l) /\ UNCHANGED <<topic, groupVars, batch, serverVars>>
    BY DEF CallStep
  <1>2. CallsType /\ ServiceTypeOK /\ StatusTypeOK /\ FaultsTypeOK
    BY DEF TypeInv, SubmitTypeInv, SubmitTypeOK, WorkerTypeOK, ServiceTypeOK, CallsType
  <1> DEFINE c == call[l]
  <1>3. PICK t \in Txns : t = c.txn /\ c # Idle
    BY <1>1, <1>2, WorkStatus DEF Calls
  <1>4. \A m \in Loops \ {l} : call'[m] = call[m]
    BY <1>1, <1>2, WorkGrows
  <1>5. \A u \in Txns \ {t} : status'[u] = status[u] /\ told'[u] = told[u]
    <2>1. told' = told \/ \E S : told' = [told EXCEPT ![c.txn] = S]
      BY <1>1 DEF Work, Start, Embed, SearchFace, SearchName, Rank, Decide, UpsertFace, UpsertName,
                  SaveIdentity, Complete, Notify, Fail, FailAgain, Txn
    <2>2. status' = status \/ status' = [status EXCEPT ![c.txn] = Written(l)]
      BY <1>1, WorkWrites
    <2>3. QED BY <1>2, <1>3, <2>1, <2>2 DEF StatusTypeOK, ServiceTypeOK
  <1>6. \A u : (Published(u)' <=> Published(u)) /\ (HandedOut(u)' <=> HandedOut(u))
    BY <1>1 DEF Published, HandedOut, Ahead, groupVars
  <1>7. Published(t) /\ HandedOut(t) /\ owner[PartitionOf[t]] = l
    BY <1>3 DEF CallOnce, Delivered
  <1>8. NeverDown' /\ FirstAssignment' /\ ProducedOnce' /\ BatchOnce'
    <2>1. worker' = worker
      BY <1>1 DEF Work, Start, Embed, SearchFace, SearchName, Rank, Decide, UpsertFace, UpsertName,
                  SaveIdentity, Complete, Notify, Fail, FailAgain
    <2>2. UNCHANGED <<topic, position, owner, unsettled, batch, request>>
      BY <1>1 DEF groupVars, serverVars
    <2>3. ProducedOnce'
      BY <1>6, <2>2 DEF ProducedOnce
    <2>4. BatchOnce'
      BY <2>2 DEF BatchOnce, Ahead
    <2>5. QED BY <2>1, <2>2, <2>3, <2>4 DEF NeverDown, FirstAssignment
  <1>9. FinishedOnce'
    <2>1. ASSUME NEW u \in Txns, u # t, Finished(u)' PROVE Finished(u)
      BY <1>5, <2>1 DEF Finished
    <2>2. QED BY <1>6, <1>7, <2>1 DEF FinishedOnce
  <1>10. ASSUME call'[l] # Idle, Finished(t)' PROVE call'[l].step = "notify" /\ told'[t] = {}
    <2>1. /\ call'[l].step = "notify" <=> c.step = "complete"
          /\ c.step \notin {"notify", "failAgain"} /\ told' = told
      BY <1>1, <1>2, <1>10, WorkMoves
    <2>2. ~Finished(t)
      BY <1>3, <2>1 DEF CallOnce
    <2>3. told'[t] = {}
      BY <2>1, <2>2 DEF Finished
    <2>4. c.step = "complete"
      <3>1. ASSUME c.step # "complete" PROVE Written(l).state # "COMPLETED"
        BY <3>1 DEF Written, Plain
      <3>2. status'[t] = status[t] \/ status'[t] = Written(l)
        BY <1>1, <1>2, <1>3, WorkWrites DEF StatusTypeOK
      <3>3. QED BY <1>10, <2>2, <2>3, <3>1, <3>2 DEF Finished
    <2>5. QED BY <2>1, <2>3, <2>4
  <1>11. CallOnce'
    <2> SUFFICES ASSUME NEW m \in Loops, call'[m] # Idle
                 PROVE  /\ owner'[PartitionOf[call'[m].txn]] = m
                        /\ HandedOut(call[m].txn)'
                        /\ Finished(call[m].txn)' => call'[m].step = "notify" /\ told'[call'[m].txn] = {}
      BY DEF CallOnce
    <2>1. CASE m = l
      <3>1. call'[l].txn = t
        BY <1>1, <1>2, <1>3, <2>1, WorkMoves
      <3>2. QED BY <1>1, <1>6, <1>7, <1>10, <2>1, <3>1 DEF groupVars
    <2>2. CASE m # l
      <3>1. PICK u \in Txns : u = call[m].txn
        BY <1>2, <1>4, <2>2 DEF CallsType, Calls
      <3>2. call'[m] = call[m] /\ owner[PartitionOf[u]] = m /\ HandedOut(u)
        BY <1>4, <2>2, <3>1 DEF CallOnce
      <3>3. u # t
        BY <1>7, <2>2, <3>2
      <3>4. (Finished(u)' <=> Finished(u)) /\ told'[u] = told[u]
        BY <1>5, <3>3 DEF Finished
      <3>5. Finished(u) => call[m].step = "notify" /\ told[u] = {}
        BY <3>1, <3>2 DEF CallOnce
      <3>6. QED BY <1>1, <1>6, <3>1, <3>2, <3>4, <3>5 DEF groupVars
    <2>3. QED BY <2>1, <2>2
  <1>12. QED BY <1>8, <1>9, <1>11

(* While nothing goes away, the other steps of the workers are polls,      *)
(* takes and first assignments.                                            *)
LEMMA SteadySteps ==
    ASSUME Steady, NeverDown, OtherStep
    PROVE  /\ worker' = worker
           /\ \/ \E l \in Loops : Poll(l) \/ (PollFails(l) /\ UNCHANGED <<call, batch>>)
              \/ \E l \in Loops, p \in Partitions : Take(l, p)
              \/ \E type \in Types : Groups!Rebalance(type) /\ UNCHANGED <<call, batch>>
  BY DEF Steady, NeverDown, OtherStep, Poll, PollFails, InstanceLost, Take, Sigterm, Crash, Exit, Restart,
         Rebalance, Fault

(* What the other steps have to keep of batches and calls. *)
LEMMA OnceFrame ==
    ASSUME TypeInv, ServiceInv, Delivered, OnceInv,
           UNCHANGED <<status, late, topic, told, request, worker>>,
           FirstAssignment',
           \A p \in Partitions : owner'[p] = owner[p] \/ owner[p] = Groups!Nobody,
           \A p \in Partitions : Ahead(p)' \subseteq Ahead(p),
           BatchOnce',
           \A l \in Loops, p \in Partitions : Entries(batch'[l][p]) \subseteq Entries(batch[l][p]) \cup Ahead(p),
           \A l \in Loops : \/ call'[l] \in {call[l], Idle}
                            \/ \E t \in Txns, step \in {"start", "failAgain"} :
                                 /\ call'[l] = NewCall(t, step)
                                 /\ owner'[PartitionOf[t]] = l /\ HandedOut(t)' /\ ~Finished(t)
    PROVE  OnceInv'
  <1> USE DEF OnceInv
  <1>1. NeverDown' /\ ProducedOnce'
    <2>1. \A t : Published(t)' <=> Published(t)
      BY DEF Published
    <2>2. QED BY <2>1 DEF NeverDown, ProducedOnce
  <1>2. \A t : Finished(t)' <=> Finished(t)
    BY DEF Finished
  <1>3. ASSUME NEW t \in Txns, HandedOut(t) PROVE HandedOut(t)'
    <2>1. PartitionOf[t] \in Partitions
      BY TopicAssumption
    <2>2. \A p \in Partitions : t \in Ahead(p) => p = PartitionOf[t]
      BY AheadInTopic DEF Delivered
    <2>3. \A l \in Loops, p \in Partitions : t \notin Entries(batch'[l][p])
      BY <1>3, <2>2 DEF HandedOut
    <2>4. QED BY <1>3, <2>1, <2>3 DEF HandedOut
  <1>4. FinishedOnce'
    <2>1. \A t : Published(t)' <=> Published(t)
      BY DEF Published
    <2>2. QED BY <1>2, <1>3, <2>1 DEF FinishedOnce
  <1>5. ASSUME NEW l \in Loops, NEW t \in Txns, call'[l] # Idle, call'[l].txn = t
        PROVE  /\ owner'[PartitionOf[t]] = l /\ HandedOut(t)'
               /\ Finished(t)' => call'[l].step = "notify" /\ told'[t] = {}
    <2>1. CASE call'[l] = call[l]
      <3>1. /\ owner[PartitionOf[t]] = l /\ HandedOut(t)
            /\ Finished(t) => call[l].step = "notify" /\ told[t] = {}
        BY <1>5, <2>1 DEF CallOnce
      <3>2. owner'[PartitionOf[t]] = l
        BY <3>1, NobodyIsNoLoop, TopicAssumption
      <3>3. QED BY <1>2, <1>3, <2>1, <3>1, <3>2
    <2>2. CASE \E u \in Txns, step \in {"start", "failAgain"} :
                 /\ call'[l] = NewCall(u, step)
                 /\ owner'[PartitionOf[u]] = l /\ HandedOut(u)' /\ ~Finished(u)
      <3>1. PICK u \in Txns, step \in {"start", "failAgain"} :
                 /\ call'[l] = NewCall(u, step)
                 /\ owner'[PartitionOf[u]] = l /\ HandedOut(u)' /\ ~Finished(u)
        BY <2>2
      <3>2. u = t
        BY <1>5, <3>1 DEF NewCall
      <3>3. QED BY <1>2, <3>1, <3>2
    <2>3. QED BY <1>5, <2>1, <2>2
  <1>6. CallOnce'
    <2>1. CallsType
      BY DEF TypeInv, WorkerTypeOK, ServiceTypeOK, CallsType
    <2>2. \A t, step : NewCall(t, step).txn = t
      BY DEF NewCall
    <2>3. \A l \in Loops : call'[l] # Idle => call'[l].txn \in Txns
      BY <2>1, <2>2 DEF CallsType, Calls
    <2>4. QED BY <1>5, <2>3 DEF CallOnce
  <1>7. QED BY <1>1, <1>4, <1>6

(* Polling moves jobs from the topic to one batch, taking moves one from   *)
(* the batch to the call, and the first assignment moves none.             *)
LEMMA OncePoll ==
    ASSUME TypeInv, ServiceInv, Delivered, OnceInv, NEW l \in Loops,
           Poll(l) \/ (PollFails(l) /\ UNCHANGED <<call, batch>>), UNCHANGED <<request, worker>>
    PROVE  OnceInv'
  <1> USE DEF OnceInv
  <1>1. /\ Fetch(l) /\ UNCHANGED <<status, late, topic, told, call, owner, unsettled>>
    BY DEF Poll, PollFails, Fetch
  <1>2. \A p \in Partitions : Ahead(p)' \subseteq Ahead(p)
    BY <1>1, FetchAhead
  <1>3. FirstAssignment'
    <2>1. \A p \in Partitions : position'[p] = position[p] \/ owner[p] = l
      BY <1>1, FetchMoves
    <2>2. QED BY <1>1, <2>1, NobodyIsNoLoop DEF FirstAssignment
  <1>4. BatchOnce' /\ \A m \in Loops, p \in Partitions :
                         Entries(batch'[m][p]) \subseteq Entries(batch[m][p]) \cup Ahead(p)
    <2>1. CASE batch' = batch
      BY <1>1, <1>2, <2>1 DEF BatchOnce
    <2>2. CASE Poll(l)
      <3>1. \A m \in Loops \ {l} : batch'[m] = batch[m]
        BY <2>2 DEF Poll, TypeInv, WorkerTypeOK
      <3>2. ASSUME NEW p \in Partitions
            PROVE  /\ Distinct(batch'[l][p])
                   /\ batch'[l][p] # <<>> => owner'[p] = l
                   /\ Entries(batch'[l][p]) \subseteq Entries(topic'[p]) \ Ahead(p)'
                   /\ Entries(batch'[l][p]) \subseteq Ahead(p)
        <4>1. Entries(batch'[l][p]) \subseteq Ahead(p) /\ Ahead(p) \subseteq Entries(topic[p])
          BY <2>2, PollEntries, AheadInTopic
        <4>2. Distinct(batch'[l][p])
          BY <2>2, PollOnce DEF ProducedOnce
        <4>3. owner'[p] = owner[p] /\ topic'[p] = topic[p]
          BY <1>1
        <4>4. Entries(batch'[l][p]) \subseteq Entries(topic'[p]) \ Ahead(p)'
          <5>1. Entries(batch'[l][p]) \cap Ahead(p)' = {}
            BY <2>2, PollOnce DEF ProducedOnce
          <5>2. QED BY <4>1, <4>3, <5>1
        <4>5. ASSUME batch'[l][p] # <<>> PROVE owner'[p] = l
          <5>1. owner[p] = l
            BY <2>2, <4>5, PollOnce DEF ProducedOnce
          <5>2. QED BY <4>3, <5>1
        <4>6. QED BY <4>1, <4>2, <4>4, <4>5
      <3>3. ASSUME NEW m \in Loops \ {l}, NEW p \in Partitions
            PROVE  /\ Distinct(batch'[m][p])
                   /\ batch'[m][p] # <<>> => owner'[p] = m
                   /\ Entries(batch'[m][p]) \subseteq Entries(topic'[p]) \ Ahead(p)'
        BY <1>1, <1>2, <3>1 DEF BatchOnce
      <3>4. BatchOnce'
        BY <3>2, <3>3 DEF BatchOnce
      <3>5. QED BY <3>1, <3>2, <3>4
    <2>3. QED BY <2>1, <2>2
  <1>5. QED BY <1>1, <1>2, <1>3, <1>4, OnceFrame

LEMMA OnceTake ==
    ASSUME TypeInv, ServiceInv, Delivered, OnceInv, NEW l \in Loops, NEW p \in Partitions, Take(l, p),
           UNCHANGED <<request, worker>>
    PROVE  OnceInv'
  <1> USE DEF OnceInv
  <1>1. UNCHANGED <<status, late, topic, told, owner, position, unsettled>>
    BY DEF Take, groupVars
  <1>2. \A q : Ahead(q)' = Ahead(q)
    BY <1>1 DEF Ahead
  <1> DEFINE s == batch[l][p]
             t == Head(s)
  <1>3. /\ s \in Seq(Txns) /\ s # <<>> /\ t \in Txns /\ t \in Entries(s)
        /\ batch'[l][p] = Tail(s)
        /\ \A m \in Loops, q \in Partitions : m # l \/ q # p => batch'[m][q] = batch[m][q]
        /\ \A m \in Loops \ {l} : call'[m] = call[m]
    BY TakeEntries
  <1>4. Entries(batch'[l][p]) \subseteq Entries(s)
    BY TakeEntries
  <1>5. Distinct(Tail(s)) /\ t \notin Entries(Tail(s))
    BY <1>3, DistinctTail DEF BatchOnce
  <1>6. \A m \in Loops, q \in Partitions : Entries(batch'[m][q]) \subseteq Entries(batch[m][q])
    BY <1>3, <1>4
  <1>7. owner[p] = l /\ t \in Entries(topic[p]) /\ t \notin Ahead(p) /\ PartitionOf[t] = p
    BY <1>3 DEF BatchOnce, Delivered
  <1>8. BatchOnce'
    <2>1. ASSUME NEW m \in Loops, NEW q \in Partitions
          PROVE  /\ Distinct(batch'[m][q])
                 /\ batch'[m][q] # <<>> => owner'[q] = m
                 /\ Entries(batch'[m][q]) \subseteq Entries(topic'[q]) \ Ahead(q)'
      <3>1. CASE m = l /\ q = p
        BY <1>1, <1>2, <1>3, <1>4, <1>5, <1>7, <3>1 DEF BatchOnce
      <3>2. CASE m # l \/ q # p
        BY <1>1, <1>2, <1>3, <3>2 DEF BatchOnce
      <3>3. QED BY <3>1, <3>2
    <2>2. QED BY <2>1 DEF BatchOnce
  <1>9. ASSUME NEW m \in Loops, NEW q \in Partitions PROVE t \notin Entries(batch'[m][q])
    <2>1. CASE m = l /\ q = p  BY <1>3, <1>5, <2>1
    <2>2. CASE (m # l \/ q # p) /\ t \in Entries(batch'[m][q])
      <3>1. t \in Entries(batch[m][q]) /\ batch[m][q] # <<>>
        BY <1>3, <2>2 DEF Entries
      <3>2. t \in Entries(topic[q]) /\ owner[q] = m
        BY <3>1 DEF BatchOnce
      <3>3. q = p
        BY <1>7, <3>2 DEF Delivered
      <3>4. QED BY <1>7, <2>2, <3>2, <3>3
    <2>3. QED BY <2>1, <2>2
  <1>10. PICK u \in Txns : u = t
    BY <1>3
  <1>11. HandedOut(u)' /\ ~Finished(u)
    <2>1. HandedOut(u)'
      BY <1>2, <1>7, <1>9, <1>10 DEF HandedOut
    <2>2. u \in Entries(batch[l][p])
      BY <1>3, <1>10
    <2>3. ~HandedOut(u)
      BY <2>2 DEF HandedOut
    <2>4. QED BY <2>1, <2>3 DEF FinishedOnce
  <1>12. ASSUME NEW m \in Loops
         PROVE  \/ call'[m] \in {call[m], Idle}
                \/ \E v \in Txns, step \in {"start", "failAgain"} :
                     /\ call'[m] = NewCall(v, step)
                     /\ owner'[PartitionOf[v]] = m /\ HandedOut(v)' /\ ~Finished(v)
    <2>1. CASE m # l  BY <1>3, <2>1
    <2>2. CASE m = l
      <3>1. PICK step \in {"start", "failAgain"} : call'[l] = NewCall(u, step)
        BY <1>10, TakeEntries
      <3>2. owner'[PartitionOf[u]] = l
        BY <1>1, <1>7, <1>10
      <3>3. QED BY <1>11, <2>2, <3>1, <3>2
    <2>3. QED BY <2>1, <2>2
  <1>13. FirstAssignment'
    BY <1>1 DEF FirstAssignment
  <1>14. \A q \in Partitions : owner'[q] = owner[q] /\ Ahead(q)' \subseteq Ahead(q)
    BY <1>1, <1>2
  <1>15. \A m \in Loops, q \in Partitions : Entries(batch'[m][q]) \subseteq Entries(batch[m][q]) \cup Ahead(q)
    BY <1>6
  <1>16. QED BY <1>1, <1>8, <1>12, <1>13, <1>14, <1>15, OnceFrame

LEMMA OnceRebalance ==
    ASSUME TypeInv, ServiceInv, Delivered, OnceInv, NEW type \in Types, Groups!Rebalance(type),
           UNCHANGED <<status, late, topic, stores, call, told, batch, request, worker>>
    PROVE  OnceInv'
  <1> USE DEF OnceInv
  <1>1. \A p \in Partitions :
           /\ position'[p] = position[p]
           /\ owner'[p] = owner[p] \/ owner[p] = Groups!Nobody
           /\ PartitionType[p] # type => owner'[p] = owner[p]
    BY RebalanceGroup DEF FirstAssignment
  <1>2. \A p \in Partitions : Ahead(p)' = Ahead(p)
    BY <1>1 DEF Ahead
  <1>3. FirstAssignment'
    BY <1>1, RebalanceGroup DEF FirstAssignment
  <1>4. BatchOnce'
    <2>1. \A l \in Loops, p \in Partitions : batch[l][p] # <<>> => owner'[p] = l
      BY <1>1, NobodyIsNoLoop DEF BatchOnce
    <2>2. QED BY <1>2, <2>1 DEF BatchOnce
  <1>5. QED BY <1>1, <1>2, <1>3, <1>4, OnceFrame

LEMMA OnceRest ==
    ASSUME Steady, TypeInv, ServiceInv, Delivered, OnceInv, RestStep
    PROVE  OnceInv'
  <1>1. OtherStep /\ UNCHANGED <<status, late, topic, stores, told, request, worker>>
    BY OtherFrame, SteadySteps DEF RestStep, serverVars, OnceInv
  <1>2. QED BY <1>1, SteadySteps, OncePoll, OnceTake, OnceRebalance DEF OnceInv

(* While no produce request fails, the API server produces a job once, and *)
(* finishes none.                                                          *)
LEMMA SteadyServer ==
    ASSUME Steady, SubmitTypeInv, SubmitInv, ProducedOnce, ServerStep
    PROVE  /\ topic' = topic \/ \E t \in Txns : Produce(t) /\ ~Published(t)
           /\ \A u \in Txns : request'[u] # "compensating" /\ (request'[u] = "publishing" => ~Published(u)')
           /\ \A u \in Txns : Finished(u)' => Finished(u)
  <1>a. RequestNext /\ told' = told /\ TopicTypeOK /\ StatusTypeOK /\ request \in [Txns -> RequestStates]
    BY DEF ServerStep, workerVars, SubmitTypeInv, SubmitTypeOK
  <1>b. \A u \in Txns : request[u] # "compensating" /\ (request[u] = "publishing" => ~Published(u))
    BY DEF ProducedOnce
  <1>c. ~Fault("publish")
    BY DEF Steady, Fault
  <1>1. ASSUME NEW u \in Txns, Finished(u)' PROVE Finished(u)
    <2>1. status'[u] = status[u] \/ status'[u].state \in {"ACCEPTED", "FAILED"}
      BY <1>a, ServerStatus DEF StatusTypeOK, Plain
    <2>2. QED BY <1>1, <1>a, <2>1 DEF Finished
  <1>2. CASE topic' = topic /\ \A u \in Txns : request'[u] = "publishing" => request[u] = "publishing" \/ request[u] = "accepting"
    <2>1. ASSUME NEW u \in Txns, request'[u] = "compensating" PROVE FALSE
      BY <1>a, <1>b, <1>c, <2>1
      DEF RequestNext, Handle, Receive, ApiCrash, Accept, AcceptFails, Publish, PublishRetried, ProduceFails,
          PublishRefused, Compensate, Goto, Answer
    <2>2. \A u \in Txns : Published(u)' <=> Published(u)
      BY <1>2 DEF Published
    <2>3. \A u \in Txns : request[u] = "accepting" => ~Published(u)
      BY DEF SubmitInv, RecordBeforeJob
    <2>4. QED BY <1>1, <1>2, <1>b, <2>1, <2>2, <2>3
  <1>3. CASE \E t \in Txns : Publish(t)
    <2>1. PICK t \in Txns : Publish(t)
      BY <1>3
    <2>2. Produce(t) /\ request[t] = "publishing" /\ request' = [request EXCEPT ![t] = "done"]
      BY <2>1 DEF Publish, Answer, Goto
    <2>3. \A u \in Txns \ {t} : Published(u)' => Published(u)
      BY <1>a, <2>2, ProduceType
    <2>4. request'[t] = "done" /\ \A u \in Txns \ {t} : request'[u] = request[u]
      BY <1>a, <2>2
    <2>5. QED BY <1>1, <1>b, <2>2, <2>3, <2>4
  <1>4. CASE \E t \in Txns : Accept(t) \/ AcceptFails(t) \/ \E kind \in InputKinds : Receive(t, kind)
    <2>1. topic' = topic
      BY <1>4 DEF Accept, AcceptFails, Receive
    <2>2. ASSUME NEW u \in Txns, request'[u] = "publishing" PROVE request[u] \in {"publishing", "accepting"}
      BY <1>4, <1>a, <2>2 DEF Accept, AcceptFails, Receive, Goto, Answer
    <2>3. QED BY <1>2, <2>1, <2>2
  <1>5. CASE ApiCrash
    <2>1. topic' = topic /\ \A u \in Txns : request'[u] # "publishing"
      BY <1>5, <1>a DEF ApiCrash
    <2>2. QED BY <1>2, <2>1
  <1>6. \A t \in Txns : ~PublishRetried(t) /\ ~PublishRefused(t) /\ ~Compensate(t)
    BY <1>b, <1>c DEF PublishRetried, ProduceFails, PublishRefused, Compensate
  <1>7. QED BY <1>a, <1>3, <1>4, <1>5, <1>6 DEF RequestNext, Handle

LEMMA OnceServer ==
    ASSUME Steady, TypeInv, SubmitInv, Delivered, OnceInv, ServerStep
    PROVE  OnceInv'
  <1> USE DEF OnceInv
  <1>a. /\ UNCHANGED <<call, batch, worker, told, owner, position, unsettled>>
        /\ SubmitTypeInv /\ topic \in [Partitions -> Seq(Txns)]
    BY DEF ServerStep, workerVars, TypeInv, SubmitTypeInv, SubmitTypeOK, TopicTypeOK
  <1>1. /\ topic' = topic \/ \E t \in Txns : Produce(t) /\ ~Published(t)
        /\ \A u \in Txns : request'[u] # "compensating" /\ (request'[u] = "publishing" => ~Published(u)')
        /\ \A u \in Txns : Finished(u)' => Finished(u)
    BY <1>a, SteadyServer
  <1>2. CASE topic' = topic
    <2>1. \A u \in Txns : (Published(u)' <=> Published(u)) /\ (HandedOut(u)' <=> HandedOut(u))
      BY <1>a, <1>2 DEF Published, HandedOut, Ahead
    <2>2. NeverDown' /\ FirstAssignment' /\ ProducedOnce'
      BY <1>a, <1>1, <1>2 DEF NeverDown, FirstAssignment, ProducedOnce
    <2>3. BatchOnce'
      <3>1. \A q : Ahead(q)' = Ahead(q)
        BY <1>a, <1>2 DEF Ahead
      <3>2. QED BY <1>a, <1>2, <3>1 DEF BatchOnce
    <2>4. FinishedOnce'
      BY <1>1, <2>1 DEF FinishedOnce
    <2>5. CallsType
      BY DEF TypeInv, WorkerTypeOK, ServiceTypeOK, CallsType
    <2>6. \A l \in Loops : call[l] # Idle => call[l].txn \in Txns
      BY <2>5 DEF CallsType, Calls
    <2>7. CallOnce'
      BY <1>a, <1>1, <2>1, <2>6 DEF CallOnce
    <2>8. QED BY <2>2, <2>3, <2>4, <2>7
  <1>3. CASE \E t \in Txns : Produce(t) /\ ~Published(t)
    <2>1. PICK t \in Txns : Produce(t) /\ ~Published(t)
      BY <1>3
    <2> DEFINE p == PartitionOf[t]
    <2>2. /\ p \in Partitions /\ topic[p] \in Seq(Txns)
          /\ topic'[p] = Append(topic[p], t) /\ \A q \in Partitions \ {p} : topic'[q] = topic[q]
      BY <1>a, <2>1, TopicAssumption DEF Produce
    <2>3. t \notin Entries(topic[p])
      BY <2>1, PublishedIsEntry
    <2>4. Distinct(topic[p])
      BY <2>2 DEF ProducedOnce
    <2>5. Distinct(topic'[p]) /\ Entries(topic'[p]) = Entries(topic[p]) \cup {t}
      BY <2>2, <2>3, <2>4, DistinctAppend
    <2>6. \A q \in Partitions : Ahead(q)' \subseteq Ahead(q) \cup {t}
      BY <1>a, <2>1, ProduceAhead
    <2>7. \A q \in Partitions : Entries(topic[q]) \subseteq Entries(topic'[q])
      BY <2>2, <2>5
    <2>8. \A u \in Txns : Published(u) => Published(u)'
      BY <1>a, <2>1, ProduceType DEF SubmitTypeInv, SubmitTypeOK
    <2>9. \A l \in Loops, q \in Partitions : t \notin Entries(batch[l][q])
      BY <2>1 DEF Delivered
    <2>10. ASSUME NEW u \in Txns, Published(u), HandedOut(u) PROVE HandedOut(u)'
      <3>1. PartitionOf[u] \in Partitions /\ u # t
        BY <2>1, <2>10, TopicAssumption
      <3>2. u \notin Ahead(PartitionOf[u])'
        BY <2>6, <2>10, <3>1 DEF HandedOut
      <3>3. QED BY <1>a, <2>10, <3>2 DEF HandedOut
    <2>11. NeverDown' /\ FirstAssignment'
      BY <1>a DEF NeverDown, FirstAssignment
    <2>12. ProducedOnce'
      <3>1. \A q \in Partitions : Distinct(topic'[q])
        BY <2>2, <2>5 DEF ProducedOnce
      <3>2. QED BY <1>1, <3>1 DEF ProducedOnce
    <2>13. BatchOnce'
      <3>1. ASSUME NEW l \in Loops, NEW q \in Partitions
            PROVE  Entries(batch[l][q]) \subseteq Entries(topic'[q]) \ Ahead(q)'
        <4>1. Entries(batch[l][q]) \subseteq Entries(topic[q]) \ Ahead(q)
          BY DEF BatchOnce
        <4>2. QED BY <2>6, <2>7, <2>9, <4>1
      <3>2. QED BY <1>a, <3>1 DEF BatchOnce
    <2>14. FinishedOnce'
      BY <1>1, <2>8, <2>10 DEF FinishedOnce
    <2>15. CallOnce'
      <3>1. CallsType
        BY DEF TypeInv, WorkerTypeOK, ServiceTypeOK, CallsType
      <3>2. ASSUME NEW l \in Loops, NEW u \in Txns, call[l] # Idle, call[l].txn = u
            PROVE  /\ owner[PartitionOf[u]] = l /\ HandedOut(u)'
                   /\ Finished(u)' => call[l].step = "notify" /\ told[u] = {}
        <4>1. Published(u)
          BY <3>2 DEF Delivered
        <4>2. /\ owner[PartitionOf[u]] = l /\ HandedOut(u)
              /\ Finished(u) => call[l].step = "notify" /\ told[u] = {}
          BY <3>2 DEF CallOnce
        <4>3. QED BY <1>1, <2>10, <4>1, <4>2
      <3>3. \A l \in Loops : call[l] # Idle => call[l].txn \in Txns
        BY <3>1 DEF CallsType, Calls
      <3>4. QED BY <1>a, <3>2, <3>3 DEF CallOnce
    <2>16. QED BY <2>11, <2>12, <2>13, <2>14, <2>15
  <1>4. QED BY <1>1, <1>2, <1>3

LEMMA OnceStep ==
    ASSUME Steady, PipelineInv, NothingLate, OnceInv, [Next]_vars
    PROVE  OnceInv'
  <1>a. TypeInv /\ ServiceInv /\ SubmitInv /\ Delivered
    BY DEF PipelineInv
  <1>1. CASE CallStep     BY <1>a, <1>1, OnceCall
  <1>2. CASE RestStep     BY <1>a, <1>2, OnceRest
  <1>3. CASE ServerStep   BY <1>a, <1>3, OnceServer
  <1>4. CASE UNCHANGED vars
    <2>1. UNCHANGED <<status, late, topic, request, worker, told, call, batch, owner, position, unsettled>>
      BY <1>4 DEF vars, workVars
    <2>2. /\ \A p : Ahead(p)' = Ahead(p)
          /\ \A t : (Published(t)' <=> Published(t)) /\ (Finished(t)' <=> Finished(t))
      BY <2>1 DEF Ahead, Published, Finished
    <2>3. \A t : HandedOut(t)' <=> HandedOut(t)
      BY <2>1, <2>2 DEF HandedOut
    <2>4. NeverDown' /\ FirstAssignment' /\ ProducedOnce'
      BY <2>1, <2>2 DEF OnceInv, NeverDown, FirstAssignment, ProducedOnce
    <2>5. BatchOnce' /\ FinishedOnce'
      BY <2>1, <2>2, <2>3 DEF OnceInv, BatchOnce, FinishedOnce
    <2>6. CallOnce'
      BY <2>1, <2>2, <2>3 DEF OnceInv, CallOnce
    <2>7. QED BY <2>4, <2>5, <2>6 DEF OnceInv
  <1>5. QED BY <1>1, <1>2, <1>3, <1>4, PromptCases

LEMMA OnceInit == Init => OnceInv
  <1> SUFFICES ASSUME Init PROVE OnceInv
    OBVIOUS
  <1>1. /\ \A p \in Partitions : topic[p] = <<>> /\ position[p] = 0 /\ owner[p] = Groups!Nobody
        /\ \A l \in Loops : call[l] = Idle
        /\ \A l \in Loops, p \in Partitions : batch[l][p] = <<>>
        /\ \A t \in Txns : status[t].state = "MISSING" /\ told[t] = {} /\ request[t] = "idle"
        /\ \A w \in Workers : worker[w] = "running"
    BY DEF Init, WorkerInit, ServiceInit, Groups!GroupInit, NoEvents, SubmitInit, TopicInit, StatusInit, Plain
  <1>2. Distinct(<<>>) /\ Entries(<<>>) = {}
    BY DEF Distinct, Entries
  <1>3. QED
    BY <1>1, <1>2
    DEF OnceInv, NeverDown, FirstAssignment, ProducedOnce, BatchOnce, CallOnce, FinishedOnce, Finished
-----------------------------------------------------------------------------
(* Once COMPLETED, the record of a transaction stays as it is: the API has *)
(* written its own before, and no other delivery of the job is there to    *)
(* start over.                                                             *)
LEMMA FinalStep ==
    ASSUME PipelineInv, NothingLate, OnceInv, [Next]_vars, NEW t \in Txns, status[t].state = "COMPLETED"
    PROVE  status'[t] = status[t]
  <1>a. /\ StatusTypeOK /\ FaultsTypeOK /\ ServiceTypeOK /\ ServiceInv /\ CallsType /\ Finished(t)
    BY DEF PipelineInv, TypeInv, SubmitTypeInv, SubmitTypeOK, WorkerTypeOK, ServiceTypeOK, CallsType, Finished
  <1>1. CASE CallStep
    <2>1. PICK l \in Loops : Work(l)
      BY <1>1 DEF CallStep
    <2>2. PICK u \in Txns : u = call[l].txn /\ call[l] # Idle
      BY <1>a, <2>1, WorkStatus DEF Calls
    <2>3. CASE u # t
      <3>1. status' = status \/ status' = [status EXCEPT ![u] = Written(l)]
        BY <2>1, <2>2, WorkWrites
      <3>2. QED BY <1>a, <2>3, <3>1 DEF StatusTypeOK
    <2>4. CASE u = t
      <3>1. call[l].step = "notify"
        <4>1. /\ l \in Loops /\ call[l] # Idle /\ Finished(call[l].txn)
          BY <1>a, <2>2, <2>4
        <4>2. QED BY <4>1 DEF OnceInv, CallOnce
      <3>2. QED BY <2>1, <3>1, WorkWrites DEF Writers
    <2>5. QED BY <2>3, <2>4
  <1>2. CASE RestStep
    BY <1>2, OtherFrame DEF RestStep
  <1>3. CASE ServerStep
    <2>1. status[t].state # "MISSING"
      OBVIOUS
    <2>2. \A u \in Txns : request[u] # "compensating"
      BY DEF OnceInv, ProducedOnce
    <2>3. RequestNext /\ SubmitInv
      BY <1>3 DEF ServerStep, PipelineInv
    <2>4. status' = status \/ \E u \in Txns : status[u].state = "MISSING" /\ status' = [status EXCEPT ![u] = Plain("ACCEPTED")]
      <3>1. ASSUME NEW u \in Txns, Accept(u) \/ AcceptFails(u)
            PROVE  status[u].state = "MISSING" /\ status' \in {status, [status EXCEPT ![u] = Plain("ACCEPTED")]}
        BY <2>3, <3>1 DEF Accept, AcceptFails, StatusWriteFails, Postpone, SaveStatus, SubmitInv, RecordBeforeJob
      <3>2. ASSUME NEW u \in Txns, Publish(u) \/ PublishRetried(u) \/ PublishRefused(u)
                                     \/ \E kind \in InputKinds : Receive(u, kind)
            PROVE  status' = status
        BY <3>2 DEF Publish, PublishRetried, PublishRefused, Receive
      <3>3. ApiCrash => status' = status
        BY DEF ApiCrash
      <3>4. \A u \in Txns : ~Compensate(u)
        BY <2>2 DEF Compensate
      <3>5. QED BY <2>3, <3>1, <3>2, <3>3, <3>4 DEF RequestNext, Handle
    <2>5. QED BY <2>1, <2>4, <1>a DEF StatusTypeOK
  <1>4. CASE UNCHANGED vars
    BY <1>4 DEF vars, workVars
  <1>5. QED BY <1>1, <1>2, <1>3, <1>4, PromptCases

(* A COMPLETED record is final as long as no produce request fails, no     *)
(* worker stops, no consumer instance is lost and no write is executed     *)
(* late: status writes, searches, callbacks, polls and the API server may  *)
(* fail.                                                                   *)
THEOREM RecordsAreFinal == ASSUME Steady PROVE Spec => CompletedIsFinal
  <1>1. PipelineInv /\ NothingLate /\ OnceInv /\ [Next]_vars => OnceInv'
    BY OnceStep
  <1>2. PipelineInv /\ NothingLate /\ OnceInv /\ [Next]_vars =>
          [\A t \in Txns : status[t].state = "COMPLETED" => status'[t] = status[t]]_vars
    BY FinalStep
  <1>3. Spec => []NothingLate
    BY PromptInvariance DEF Steady, Prompt
  <1>4. QED BY <1>1, <1>2, <1>3, OnceInit, Invariance, PTL DEF Spec, CompletedIsFinal
-----------------------------------------------------------------------------
\* What was posted, and what is about to be, is what the record answers.
NotifyInv ==
    \A l \in Loops : call[l].step = "notify" => status[call[l].txn] = Completed(call[l].result)

(* A step posts nothing but the result of a call at notify. *)
LEMMA Posts ==
    ASSUME PipelineInv, [Next]_vars, NEW t \in Txns, NEW r \in told'[t]
    PROVE  r \in told[t] \/ \E l \in Loops : call[l].step = "notify" /\ call[l].txn = t /\ call[l].result = r
  <1>a. told \in [Txns -> SUBSET Results]
    BY DEF PipelineInv, TypeInv, WorkerTypeOK, ServiceTypeOK
  <1>1. CASE CallStep
    <2>1. PICK l \in Loops : Work(l)
      BY <1>1 DEF CallStep
    <2>2. \/ told' = told
          \/ call[l].step = "notify" /\ told' = [told EXCEPT ![call[l].txn] = @ \cup {call[l].result}]
      BY <2>1 DEF Work, Start, Embed, SearchFace, SearchName, Rank, Decide, UpsertFace, UpsertName,
                  SaveIdentity, Complete, Notify, Fail, FailAgain, Txn, At
    <2>3. QED BY <1>a, <2>2
  <1>2. CASE RestStep \/ ServerStep \/ RecordLands \/ StoreLands \/ UNCHANGED vars
    BY <1>2, OtherFrame, LandGrows DEF RestStep, ServerStep, RecordLands, StoreLands, workerVars, vars, workVars
  <1>3. QED BY <1>1, <1>2, StepCases

LEMMA NotifyStep ==
    ASSUME Steady, "statusWrite" \notin FaultKinds, PipelineInv, NothingLate, OnceInv, NotifyInv, [Next]_vars
    PROVE  NotifyInv'
  <1>a. /\ StatusTypeOK /\ FaultsTypeOK /\ ServiceTypeOK /\ ServiceInv /\ TypeInv /\ CallsType
    BY DEF PipelineInv, TypeInv, SubmitTypeInv, SubmitTypeOK, WorkerTypeOK, ServiceTypeOK, CallsType
  <1>b. ASSUME NEW l \in Loops, call'[l] = call[l], call[l].step = "notify"
        PROVE  status'[call[l].txn] = Completed(call[l].result)
    <2>1. PICK t \in Txns : t = call[l].txn
      BY <1>a, <1>b DEF CallsType, Calls, Idle
    <2>2. status[t] = Completed(call[l].result)
      BY <1>b, <2>1 DEF NotifyInv
    <2>3. status[t].state = "COMPLETED"
      BY <2>2 DEF Completed
    <2>4. QED BY <2>1, <2>2, <2>3, FinalStep
  <1>1. CASE CallStep
    <2>1. PICK l \in Loops : Work(l)
      BY <1>1 DEF CallStep
    <2>2. PICK t \in Txns : t = call[l].txn /\ call[l] # Idle
      BY <1>a, <2>1, WorkStatus DEF Calls
    <2>3. \A m \in Loops \ {l} : call'[m] = call[m]
      BY <1>a, <2>1, WorkGrows
    <2>4. ASSUME call'[l].step = "notify"
          PROVE  status'[call'[l].txn] = Completed(call'[l].result)
      <3>1. call[l].step = "complete" /\ call'[l].txn = t /\ call'[l].result = call[l].result
        BY <1>a, <2>1, <2>2, <2>4, WorkMoves DEF Idle
      <3>2. status' = [status EXCEPT ![t] = Written(l)]
        BY <2>1, <2>2, <3>1, WorkWrites DEF Writers, Steady, Prompt
      <3>3. Written(l) = Completed(call[l].result)
        BY <3>1 DEF Written
      <3>4. QED BY <1>a, <3>1, <3>2, <3>3 DEF StatusTypeOK
    <2>5. QED BY <1>b, <2>3, <2>4 DEF NotifyInv
  <1>2. CASE RestStep
    <2>1. \A l \in Loops : \/ call'[l] \in {call[l], Idle}
                          \/ \E p \in Partitions, step \in {"start", "failAgain"} :
                               call'[l] = NewCall(Head(batch[l][p]), step)
      BY <1>2, <1>a, OtherCall DEF RestStep
    <2>2. ASSUME NEW l \in Loops, call'[l].step = "notify" PROVE call'[l] = call[l]
      <3>1. Idle.step # "notify"
        BY DEF Idle
      <3>2. \A t : NewCall(t, "start").step # "notify" /\ NewCall(t, "failAgain").step # "notify"
        BY DEF NewCall
      <3>3. QED BY <2>1, <2>2, <3>1, <3>2
    <2>3. QED BY <1>b, <2>2 DEF NotifyInv
  <1>3. CASE ServerStep \/ UNCHANGED vars
    <2>1. call' = call
      BY <1>3 DEF ServerStep, workerVars, vars, workVars
    <2>2. QED BY <1>b, <2>1 DEF NotifyInv
  <1>4. QED BY <1>1, <1>2, <1>3, PromptCases

(* What was posted to the callback URL is what GET /kyc/status answers, as *)
(* long as no job is delivered twice and status writes succeed, in time.   *)
THEOREM CallbacksAgree ==
    ASSUME Steady, "statusWrite" \notin FaultKinds
    PROVE  Spec => []CallbackAgreesWithStatus
  <1>1. Init => NotifyInv /\ CallbackAgreesWithStatus
    BY DEF Init, WorkerInit, ServiceInit, NotifyInv, Idle, CallbackAgreesWithStatus
  <1>2. PipelineInv /\ NothingLate /\ OnceInv /\ [Next]_vars => OnceInv'
    BY OnceStep
  <1>3. PipelineInv /\ NothingLate /\ OnceInv /\ NotifyInv /\ [Next]_vars => NotifyInv'
    BY NotifyStep
  <1>4. PipelineInv /\ NothingLate /\ OnceInv /\ NotifyInv /\ CallbackAgreesWithStatus
          /\ [Next]_vars => CallbackAgreesWithStatus'
    <2> SUFFICES ASSUME PipelineInv, NothingLate, OnceInv, NotifyInv, CallbackAgreesWithStatus, [Next]_vars,
                        NEW t \in Txns, NEW r \in told'[t]
                 PROVE  status'[t] = Completed(r)
      BY DEF CallbackAgreesWithStatus
    <2>1. status[t] = Completed(r)
      BY Posts DEF NotifyInv, CallbackAgreesWithStatus
    <2>2. QED BY <2>1, FinalStep DEF Completed
  <1>5. Spec => []NothingLate
    BY PromptInvariance DEF Steady, Prompt
  <1>6. QED BY <1>1, <1>2, <1>3, <1>4, <1>5, OnceInit, Invariance, PTL DEF Spec
-----------------------------------------------------------------------------
\* One worker, and lookups of candidates succeed: enrollments run one after the
\* other.
OneAtATime == (\A v, w \in Workers : v = w) /\ "identityRead" \notin FaultKinds

\* The identities whose metadata was written before their call went on.
Kept == identities \ lateIdentities

\* No room for one more exact match in a shortlist of points.
Full(points, sim) == Cardinality(ExactMatches(points, sim)) > TopK

\* The identity being enrolled is the latest one made.
LatestOf(l) ==
    call[l].step \in Enrolling => JobType[call[l].txn] = "enroll" /\ call[l].id = Len(minted)

\* What an enrollment that has searched knows of the identities of its person:
\* it is going to look at them, or has a candidate that matches as well, or
\* they were crowded out.
MissedBy(t) == Full(facePoints, FaceSim[t]) \/ Full(namePoints, NameSim[t])
KnowsOf(c, m) ==
    \/ MissedBy(c.txn)
    \/ m \in Entries(c.faces) /\ (c.step = "rank" => m \in c.names)
    \/ c.step = "rank" /\ c.best # 0 /\ Confidence(c.txn, c.best, c.names) >= Highest
SearchOf(l) ==
    LET c == call[l] IN
    c.step \in {"searchName", "rank"} /\ JobType[c.txn] = "enroll" =>
        \A m \in Kept : SamePerson(c.txn, minted[m]) => KnowsOf(c, m)

\* The theorem, for all ids made so far, stored or not.
Crowds(points, sim, n) ==
    Cardinality({k \in points : k < n /\ sim[minted[n]][minted[k]] = Highest}) > TopK
CrowdedOut(n) == Crowds(facePoints, FaceSim, n) \/ Crowds(namePoints, NameSim, n)
MintInv ==
    \A n \in 1..Len(minted) : \A m \in Kept :
        m < n /\ SamePerson(minted[n], minted[m]) => CrowdedOut(n)

PersonInv == (\A l \in Loops : LatestOf(l) /\ SearchOf(l)) /\ MintInv

(* Cardinalities of subsets of the ids. *)
LEMMA IdsAreFinite == ASSUME NEW n \in Nat PROVE IsFiniteSet(1..n)
  BY FS_Interval

LEMMA MoreThan ==
    ASSUME NEW T, IsFiniteSet(T), NEW S \in SUBSET T, NEW k \in Nat, Cardinality(S) > k
    PROVE  Cardinality(T) > k
  <1>1. IsFiniteSet(S) /\ Cardinality(S) <= Cardinality(T)
    BY FS_Subset
  <1>2. Cardinality(S) \in Nat /\ Cardinality(T) \in Nat
    BY <1>1, FS_CardinalityType
  <1>3. QED BY <1>1, <1>2

LEMMA Injected ==
    ASSUME NEW n \in Nat, NEW s, DOMAIN s = 1..n, \A a, b \in 1..n : a < b => s[a] # s[b]
    PROVE  IsFiniteSet(Entries(s)) /\ Cardinality(Entries(s)) = n
  <1>1. \A a, b \in 1..n : s[a] = s[b] => a = b
    OBVIOUS
  <1> DEFINE f == [a \in 1..n |-> s[a]]
  <1>2. f \in [1..n -> Entries(s)]
    BY DEF Entries
  <1>3. f \in Bijection(1..n, Entries(s))
    <2>1. f \in Injection(1..n, Entries(s))
      BY <1>1, <1>2 DEF Injection, IsInjective
    <2>2. \A e \in Entries(s) : \E a \in 1..n : f[a] = e
      BY DEF Entries
    <2>3. f \in Surjection(1..n, Entries(s))
      BY <1>2, <2>2 DEF Surjection
    <2>4. QED BY <2>1, <2>3 DEF Bijection
  <1>4. ExistsBijection(1..n, Entries(s))
    BY <1>3 DEF ExistsBijection
  <1>5. Cardinality(Entries(s)) = n
    BY <1>4, FS_CountingElements
  <1>6. IsFiniteSet(Entries(s))
    BY <1>4, FS_NatBijection
  <1>7. QED BY <1>5, <1>6

(* A shortlist has every point of the highest similarity there can be,     *)
(* unless there are more than it has places for.                           *)
LEMMA ShortlistHasTop ==
    ASSUME NEW points \in SUBSET (1..Len(minted)), Len(minted) \in Nat,
           NEW sim, NEW top \in Int,
           \A n \in points : sim[minted[n]] \in Int /\ sim[minted[n]] <= top,
           NEW s \in Shortlists(points, sim), NEW m \in points, sim[minted[m]] = top
    PROVE  m \in Entries(s) \/ Cardinality({k \in points : sim[minted[k]] = top}) > TopK
  <1> DEFINE matches == {k \in points : sim[minted[k]] = top}
  <1>1. IsFiniteSet(points) /\ Cardinality(points) \in Nat
    <2>1. IsFiniteSet(1..Len(minted))
      BY FS_Interval
    <2>2. IsFiniteSet(points)
      BY <2>1, FS_Subset
    <2>3. QED BY <2>2, FS_CardinalityType
  <1> DEFINE places == IF Cardinality(points) < TopK THEN Cardinality(points) ELSE TopK
  <1>b. places \in Nat /\ (places = Cardinality(points) \/ places = TopK) /\ TopK \in Nat
    BY <1>1, ServiceAssumption
  <1>c. /\ s \in [1..places -> points]
        /\ \A a, b \in 1..places : a < b => s[a] # s[b]
        /\ \A n \in points \ Entries(s) : \A a \in 1..places : sim[minted[s[a]]] >= sim[minted[n]]
    BY DEF Shortlists
  <1> HIDE DEF places
  <1>2. PICK size \in Nat :
          /\ size = Cardinality(points) \/ size = TopK
          /\ s \in [1..size -> points] /\ DOMAIN s = 1..size
          /\ \A a, b \in 1..size : a < b => s[a] # s[b]
          /\ \A n \in points \ Entries(s) : \A a \in 1..size : sim[minted[s[a]]] >= sim[minted[n]]
    BY <1>b, <1>c
  <1>3. /\ IsFiniteSet(Entries(s)) /\ Cardinality(Entries(s)) = size
        /\ Entries(s) \subseteq points
    <2>1. Entries(s) \subseteq points
      BY <1>2 DEF Entries
    <2>2. QED BY <1>2, <2>1, Injected
  <1>4. CASE size = Cardinality(points)
    BY <1>1, <1>3, <1>4, FS_Subset
  <1>5. CASE size = TopK /\ m \notin Entries(s)
    <2>1. ASSUME NEW a \in 1..size PROVE s[a] \in matches
      <3>1. s[a] \in points /\ sim[minted[s[a]]] >= sim[minted[m]]
        BY <1>2, <1>5
      <3>2. PICK x \in Int : x = sim[minted[s[a]]] /\ x >= top /\ x <= top
        BY <3>1
      <3>3. QED BY <3>1, <3>2
    <2>2. Entries(s) \cup {m} \subseteq matches
      BY <1>2, <2>1 DEF Entries
    <2>3. Cardinality(Entries(s) \cup {m}) = size + 1
      BY <1>3, <1>5, FS_AddElement
    <2>4. IsFiniteSet(matches)
      BY <1>1, FS_Subset
    <2>5. TopK \in Nat
      BY ServiceAssumption
    <2>6. Cardinality(Entries(s) \cup {m}) > TopK
      BY <1>5, <2>3, <2>5
    <2>7. QED BY <2>2, <2>4, <2>5, <2>6, MoreThan
  <1>6. QED BY <1>2, <1>4, <1>5

(* The exact matches, and the persons, in terms of the highest similarity. *)
LEMMA ExactIsHighest ==
    /\ \A points, sim : ExactMatches(points, sim) = {k \in points : sim[minted[k]] = Highest}
    /\ \A t, u : SamePerson(t, u) <=> FaceSim[t][u] = Highest /\ NameSim[t][u] = Highest /\ SameDemo[t][u]
  BY SMT DEF ExactMatches, SamePerson, Highest

LEMMA ShortlistHasExact ==
    ASSUME NEW points \in SUBSET (1..Len(minted)), minted \in Seq(Txns),
           NEW sim \in [Txns -> Scores],
           NEW s \in Shortlists(points, sim), NEW m \in points, sim[minted[m]] = Highest
    PROVE  m \in Entries(s) \/ Full(points, sim)
  <1>1. Highest \in Int
    BY SMT DEF Highest
  <1>2. \A n \in points : sim[minted[n]] \in Int /\ sim[minted[n]] <= Highest
    <2>1. \A n \in points : sim[minted[n]] \in Scores
      OBVIOUS
    <2>2. QED BY <2>1, HighestScore
  <1>3. m \in Entries(s) \/ Cardinality({k \in points : sim[minted[k]] = Highest}) > TopK
    BY <1>1, <1>2, ShortlistHasTop
  <1>4. QED BY <1>3, ExactIsHighest DEF Full

(* What a call knows of a stored identity is in range. *)
LEMMA LookType ==
    ASSUME ServiceTypeOK, NEW t \in Txns, NEW n \in 1..Len(minted), NEW names
    PROVE  /\ minted[n] \in Txns
           /\ Face(t, n) \in Scores /\ Name(t, n, names) \in Scores /\ Demo(t, n) \in BOOLEAN
           /\ Confidence(t, n, names) \in Int
  <1>1. minted[n] \in Txns
    BY DEF ServiceTypeOK
  <1>2. Face(t, n) \in Scores /\ NameSim[t][minted[n]] \in Scores /\ Demo(t, n) \in BOOLEAN
    BY <1>1, ServiceAssumption DEF Face, Demo
  <1>3. 0 \in Scores
    BY SMT DEF Scores
  <1>4. Name(t, n, names) \in Scores
    BY <1>2, <1>3 DEF Name
  <1>5. QED BY <1>1, <1>2, <1>4, ConfidenceType DEF Confidence

(* The identity of a person who comes again is matched with confidence 1,  *)
(* and a candidate with confidence 1 makes the enrollment a duplicate.     *)
LEMMA SamePersonMatches ==
    ASSUME ServiceTypeOK, NEW t \in Txns, NEW n \in 1..Len(minted), NEW names, n \in names,
           SamePerson(t, minted[n])
    PROVE  Confidence(t, n, names) >= Highest
  <1>1. Face(t, n) = Highest /\ NameSim[t][minted[n]] = Highest /\ Demo(t, n)
    BY ExactIsHighest DEF Face, Demo
  <1>2. Highest > 0 /\ Highest >= Highest
    BY SMT DEF Highest
  <1>3. Name(t, n, names) = Highest
    BY <1>1, <1>2 DEF Name
  <1>4. QED BY <1>1, <1>2, <1>3, LookType, ExactConfidence DEF Confidence

LEMMA MatchIsDuplicate ==
    ASSUME ServiceTypeOK, NEW t \in Txns, NEW n \in 1..Len(minted), NEW names,
           Confidence(t, n, names) >= Highest
    PROVE  IsDuplicate(TRUE, Face(t, n))
  <1>1. PICK face \in Scores, name \in Scores, demo \in BOOLEAN :
          face = Face(t, n) /\ name = Name(t, n, names) /\ demo = Demo(t, n)
    BY LookType
  <1>2. ComputeConfidence(face, name, demo) >= Highest
    BY <1>1 DEF Confidence
  <1>3. face >= FaceDupThreshold
    BY <1>2, TopIsDuplicate
  <1>4. QED BY <1>1, <1>3 DEF IsDuplicate
-----------------------------------------------------------------------------
(* Of the calls of one worker, one at most enrolls. *)
LEMMA OneEnrolls ==
    ASSUME OneAtATime, ByType, NEW l \in Loops, NEW m \in Loops \ {l},
           call[l] # Idle, JobType[call[l].txn] = "enroll", call[m] # Idle
    PROVE  JobType[call[m].txn] # "enroll"
  <1>1. JobType[call[m].txn] = "enroll" => l[2] = m[2]
    BY DEF ByType
  <1>2. l[1] = m[1] /\ l = <<l[1], l[2]>> /\ m = <<m[1], m[2]>>
    BY DEF OneAtATime, Loops
  <1>3. QED BY <1>1, <1>2

(* A verification makes and stores nothing. *)
LEMMA VerifyStores ==
    ASSUME ServiceTypeOK, NEW l \in Loops, LatestOf(l), Work(l), JobType[call[l].txn] # "enroll"
    PROVE  UNCHANGED stores
  <1>1. call[l].step \notin Enrolling
    BY DEF LatestOf
  <1>2. QED BY <1>1 DEF Work, Start, Embed, SearchFace, SearchName, Rank, Decide, UpsertFace, UpsertName,
                        SaveIdentity, Complete, Notify, Fail, FailAgain, stores, At, Enrolling

(* What a call knows does not change with the calls of others while the    *)
(* stores do not.                                                          *)
LEMMA SearchStays ==
    ASSUME UNCHANGED stores, NEW m \in Loops, call'[m] = call[m], LatestOf(m) /\ SearchOf(m)
    PROVE  (LatestOf(m) /\ SearchOf(m))'
  <1> USE DEF stores, Kept
  <1>1. \A t : MissedBy(t)' <=> MissedBy(t)
    BY DEF MissedBy, Full, ExactMatches
  <1>2. \A t, n, names : Confidence(t, n, names)' = Confidence(t, n, names)
    BY DEF Confidence, Face, Name, Demo
  <1>3. \A c, n : KnowsOf(c, n)' <=> KnowsOf(c, n)
    BY <1>1, <1>2 DEF KnowsOf
  <1>4. LatestOf(m)'
    BY DEF LatestOf
  <1>5. SearchOf(m)'
    BY <1>3 DEF SearchOf
  <1>6. QED BY <1>4, <1>5
(* Nor does it know less after a store executed a write late.              *)
LEMMA FullStays ==
    ASSUME ServiceTypeOK, NEW many \in SUBSET (1..Len(minted)), NEW few, few \subseteq many, NEW sim,
           Full(few, sim)
    PROVE  Full(many, sim)
  <1>1. ExactMatches(few, sim) \subseteq ExactMatches(many, sim)
    BY ExactIsHighest
  <1>2. IsFiniteSet(ExactMatches(many, sim))
    <2>1. PICK length \in Nat : length = Len(minted)
      BY DEF ServiceTypeOK
    <2>2. IsFiniteSet(1..length)
      BY IdsAreFinite
    <2>3. ExactMatches(many, sim) \subseteq 1..length
      BY <2>1, ExactIsHighest
    <2>4. QED BY <2>2, <2>3, FS_Subset
  <1>3. TopK \in Nat
    BY ServiceAssumption
  <1>4. Cardinality(ExactMatches(few, sim)) > TopK
    BY DEF Full
  <1>5. QED BY <1>1, <1>2, <1>3, <1>4, MoreThan DEF Full

LEMMA LandSearch ==
    ASSUME ServiceTypeOK, ServiceTypeOK', Land, NEW l \in Loops, LatestOf(l) /\ SearchOf(l)
    PROVE  (LatestOf(l) /\ SearchOf(l))'
  <1>a. /\ UNCHANGED <<minted, lateIdentities, call>>
        /\ facePoints \subseteq facePoints' /\ namePoints \subseteq namePoints'
        /\ identities' \subseteq identities \cup lateIdentities
    BY LandGrows
  <1>b. facePoints' \in SUBSET (1..Len(minted)) /\ namePoints' \in SUBSET (1..Len(minted))
    BY <1>a DEF ServiceTypeOK
  <1>1. ASSUME NEW t, MissedBy(t) PROVE MissedBy(t)'
    <2>1. CASE Full(facePoints, FaceSim[t])
      <3>1. Full(facePoints', FaceSim[t])
        BY <1>a, <1>b, <2>1, FullStays
      <3>2. QED BY <1>a, <3>1 DEF MissedBy, Full, ExactMatches
    <2>2. CASE Full(namePoints, NameSim[t])
      <3>1. Full(namePoints', NameSim[t])
        BY <1>a, <1>b, <2>2, FullStays
      <3>2. QED BY <1>a, <3>1 DEF MissedBy, Full, ExactMatches
    <2>3. QED BY <1>1, <2>1, <2>2 DEF MissedBy
  <1>2. \A t, n, names : Confidence(t, n, names)' = Confidence(t, n, names)
    BY <1>a DEF Confidence, Face, Name, Demo
  <1>3. \A c, n : KnowsOf(c, n) => KnowsOf(c, n)'
    BY <1>1, <1>2 DEF KnowsOf
  <1>4. LatestOf(l)'
    BY <1>a DEF LatestOf
  <1>5. SearchOf(l)'
    BY <1>a, <1>3 DEF SearchOf, Kept
  <1>6. QED BY <1>4, <1>5

(* Only a call that decides makes an identity; the id of an enrollment is  *)
(* the one it made.                                                        *)
LEMMA MakeStep ==
    ASSUME ServiceTypeOK, NEW l \in Loops, Work(l)
    PROVE  \/ /\ Decide(l) /\ minted' = Append(minted, call[l].txn)
              /\ JobType[call[l].txn] = "enroll"
              /\ ~(call[l].best # 0 /\ IsDuplicate(TRUE, Face(call[l].txn, call[l].best)))
              /\ call'[l].step = "upsertFace" /\ call'[l].id = Len(minted) + 1
              /\ call'[l].txn = call[l].txn
           \/ /\ minted' = minted
              /\ call'[l].step \in Enrolling =>
                   /\ call[l].step \in Enrolling /\ call'[l].id = call[l].id
                   /\ call'[l].txn = call[l].txn
  <1> DEFINE c == call[l]
             Same == /\ minted' = minted
                     /\ call'[l].step \in Enrolling =>
                          c.step \in Enrolling /\ call'[l].id = c.id /\ call'[l].txn = c.txn
  <1>a. CallsType
    BY DEF ServiceTypeOK, CallsType
  <1>b. c \in Calls
    BY <1>a, InCall DEF Work, Start, Embed, SearchFace, SearchName, Rank, Decide, UpsertFace, UpsertName,
                  SaveIdentity, Complete, Notify, Fail, FailAgain, Steps
  <1>1. ASSUME NEW step \in Steps, Step(l, step) PROVE call'[l] = [c EXCEPT !.step = step]
    BY <1>a, <1>b, <1>1, StepType
  <1>2. ASSUME NEW d, Set(l, d) PROVE call'[l] = d
    BY <1>a, <1>2 DEF Set, CallsType
  <1>3. CASE Start(l) \/ Embed(l) \/ Complete(l) \/ Fail(l)
    <2>1. minted' = minted /\ \E step \in Steps \ Enrolling : Step(l, step)
      BY <1>3 DEF Start, Embed, Complete, Fail, stores, Steps, Enrolling
    <2>2. PICK step \in Steps \ Enrolling : call'[l] = [c EXCEPT !.step = step]
      BY <1>1, <2>1
    <2>3. call'[l].step = step
      BY <1>b, <2>2 DEF Calls
    <2>4. QED BY <2>1, <2>3
  <1>4. CASE UpsertFace(l) \/ UpsertName(l)
    <2>1. minted' = minted /\ c.step \in Enrolling /\ \E step \in Steps : Step(l, step)
      BY <1>4 DEF UpsertFace, UpsertName, At, Steps, Enrolling
    <2>2. PICK step \in Steps : call'[l] = [c EXCEPT !.step = step]
      BY <1>1, <2>1
    <2>3. call'[l].id = c.id /\ call'[l].txn = c.txn
      BY <1>b, <2>2 DEF Calls
    <2>4. QED BY <2>1, <2>3
  <1>5. CASE SearchFace(l) \/ SearchName(l) \/ Rank(l) \/ SaveIdentity(l)
    <2>1. /\ minted' = minted
          /\ \/ Step(l, "fail")
             \/ \E d : Set(l, d) /\ (d.step \notin Enrolling)
      <3>1. \A x : [c EXCEPT !.faces = x, !.step = "searchName"].step = "searchName"
        BY <1>b DEF Calls
      <3>2. \A x : [c EXCEPT !.names = x, !.step = "rank"].step = "rank"
        BY <1>b DEF Calls
      <3>3. \A x : [c EXCEPT !.result = x, !.step = "complete"].step = "complete"
        BY <1>b DEF Calls
      <3>4. \A x, y : /\ [c EXCEPT !.faces = x].step = c.step
                      /\ [[c EXCEPT !.faces = x] EXCEPT !.best = y].step = c.step
        BY <1>b DEF Calls
      <3>5. CASE SearchFace(l)  BY <3>1, <3>5 DEF SearchFace, stores, Enrolling
      <3>6. CASE SearchName(l)  BY <3>2, <3>6 DEF SearchName, stores, Enrolling
      <3>7. CASE Rank(l)
        <4>1. \E x, y : Set(l, [c EXCEPT !.faces = x]) \/ Set(l, [[c EXCEPT !.faces = x] EXCEPT !.best = y])
          BY <3>7 DEF Rank
        <4>2. minted' = minted /\ c.step = "rank"
          BY <3>7 DEF Rank, stores, At
        <4>3. ASSUME NEW d, Set(l, d), d.step = c.step
              PROVE  \E e : Set(l, e) /\ e.step \notin Enrolling
          BY <4>2, <4>3 DEF Enrolling
        <4>4. ASSUME NEW x, Set(l, [c EXCEPT !.faces = x])
              PROVE  \E e : Set(l, e) /\ e.step \notin Enrolling
          BY <3>4, <4>3, <4>4
        <4>5. ASSUME NEW x, NEW y, Set(l, [[c EXCEPT !.faces = x] EXCEPT !.best = y])
              PROVE  \E e : Set(l, e) /\ e.step \notin Enrolling
          BY <3>4, <4>3, <4>5
        <4>6. QED BY <4>1, <4>2, <4>4, <4>5
      <3>8. CASE SaveIdentity(l) BY <3>3, <3>8 DEF SaveIdentity, Enrolling
      <3>9. QED BY <1>5, <3>5, <3>6, <3>7, <3>8
    <2>2. [c EXCEPT !.step = "fail"].step = "fail" /\ "fail" \in Steps
      BY <1>b DEF Calls, Steps
    <2>3. QED BY <1>1, <1>2, <2>1, <2>2 DEF Enrolling
  <1>6. CASE Notify(l) \/ FailAgain(l)
    <2>1. minted' = minted /\ Set(l, Idle)
      BY <1>6 DEF Notify, FailAgain, stores
    <2>2. QED BY <1>2, <2>1, IdleFact DEF Enrolling, Idle
  <1>7. CASE Decide(l)
    <2>1. CASE /\ JobType[c.txn] = "enroll"
               /\ ~IsDuplicate(c.best # 0, IF c.best = 0 THEN 0 ELSE Face(c.txn, c.best))
      <3>1. minted' = Append(minted, c.txn) /\ Set(l, [c EXCEPT !.id = NewId, !.step = "upsertFace"])
        BY <1>7, <2>1 DEF Decide
      <3>2. call'[l].step = "upsertFace" /\ call'[l].id = Len(minted) + 1 /\ call'[l].txn = c.txn
        BY <1>b, <1>2, <3>1 DEF Calls, NewId
      <3>3. ~(c.best # 0 /\ IsDuplicate(TRUE, Face(c.txn, c.best)))
        BY <2>1 DEF IsDuplicate
      <3>4. QED BY <1>7, <2>1, <3>1, <3>2, <3>3
    <2>2. CASE ~(/\ JobType[c.txn] = "enroll"
                 /\ ~IsDuplicate(c.best # 0, IF c.best = 0 THEN 0 ELSE Face(c.txn, c.best)))
      <3>1. minted' = minted /\ \E r : Set(l, [c EXCEPT !.result = r, !.step = "complete"])
        BY <1>7, <2>2 DEF Decide
      <3>2. \A r : [c EXCEPT !.result = r, !.step = "complete"].step = "complete"
        BY <1>b DEF Calls
      <3>3. QED BY <1>2, <3>1, <3>2 DEF Enrolling
    <2>3. QED BY <2>1, <2>2
  <1>8. QED BY <1>3, <1>4, <1>5, <1>6, <1>7 DEF Work
(* The id of the enrollment that is under way stays the latest made. *)
LEMMA OwnLatest ==
    ASSUME ServiceTypeOK, NEW l \in Loops, LatestOf(l), Work(l)
    PROVE  LatestOf(l)'
  <1>1. minted \in Seq(Txns)
    BY DEF ServiceTypeOK
  <1>2. CASE minted' = Append(minted, call[l].txn) /\ Decide(l)
    <2>1. PICK t : t = call[l].txn /\ minted' = Append(minted, t)
      BY <1>2
    <2>2. Len(minted') = Len(minted) + 1
      BY <1>1, <2>1
    <2>3. QED BY <2>2, MakeStep DEF LatestOf
  <1>3. QED BY <1>2, MakeStep DEF LatestOf

(* The other steps leave no call between its searches and its decision. *)
LEMMA LeavesSearch ==
    ASSUME ServiceTypeOK, NEW l \in Loops, Work(l), ~(SearchFace(l) \/ SearchName(l) \/ Rank(l))
    PROVE  call'[l].step \notin {"searchName", "rank"}
  <1> DEFINE c == call[l]
  <1>a. CallsType
    BY DEF ServiceTypeOK, CallsType
  <1>b. c \in Calls
    BY <1>a, InCall DEF Work, Start, Embed, SearchFace, SearchName, Rank, Decide, UpsertFace, UpsertName,
                  SaveIdentity, Complete, Notify, Fail, FailAgain, Steps
  <1>1. ASSUME NEW step \in Steps, Step(l, step) PROVE call'[l] = [c EXCEPT !.step = step]
    BY <1>a, <1>b, <1>1, StepType
  <1>2. ASSUME NEW d, Set(l, d) PROVE call'[l] = d
    BY <1>a, <1>2 DEF Set, CallsType
  <1>3. CASE \E step \in Steps \ {"searchName", "rank"} : Step(l, step)
    <2>1. PICK step \in Steps \ {"searchName", "rank"} : call'[l] = [c EXCEPT !.step = step]
      BY <1>1, <1>3
    <2>2. call'[l].step = step
      BY <1>b, <2>1 DEF Calls
    <2>3. QED BY <2>2
  <1>4. CASE Decide(l) \/ SaveIdentity(l)
    <2>1. /\ \A x : [c EXCEPT !.result = x, !.step = "complete"].step = "complete"
          /\ \A x : [c EXCEPT !.id = x, !.step = "upsertFace"].step = "upsertFace"
      BY <1>b DEF Calls
    <2>2. \/ \E x : Set(l, [c EXCEPT !.result = x, !.step = "complete"])
          \/ \E x : Set(l, [c EXCEPT !.id = x, !.step = "upsertFace"])
          \/ Step(l, "fail")
      BY <1>4 DEF Decide, SaveIdentity
    <2>3. QED BY <1>2, <1>3, <2>1, <2>2 DEF Steps
  <1>5. CASE Notify(l) \/ FailAgain(l)
    BY <1>2, <1>5, IdleFact DEF Notify, FailAgain, Idle
  <1>6. CASE Start(l) \/ Embed(l) \/ UpsertFace(l) \/ UpsertName(l) \/ Complete(l) \/ Fail(l)
    BY <1>3, <1>6 DEF Start, Embed, UpsertFace, UpsertName, Complete, Fail, Steps
  <1>7. QED BY <1>4, <1>5, <1>6 DEF Work

LEMMA HeadOrTail ==
    ASSUME NEW S, NEW s \in Seq(S), s # <<>>
    PROVE  Entries(s) \subseteq {Head(s)} \cup Entries(Tail(s))
  <1>1. Len(s) \in Nat /\ Tail(s) \in Seq(S) /\ Len(Tail(s)) = Len(s) - 1
    BY HeadTailProperties
  <1>2. ASSUME NEW a \in 1..Len(s), a # 1
        PROVE  a - 1 \in 1..Len(Tail(s)) /\ Tail(s)[a - 1] = s[a]
    BY <1>1, <1>2
  <1>3. ASSUME NEW a \in 1..Len(s) PROVE s[a] \in {Head(s)} \cup Entries(Tail(s))
    <2>1. CASE a = 1
      BY <2>1
    <2>2. CASE a # 1
      <3>1. PICK b \in 1..Len(Tail(s)) : Tail(s)[b] = s[a]
        BY <1>2, <2>2
      <3>2. DOMAIN Tail(s) = 1..Len(Tail(s))
        BY <1>1
      <3>3. QED BY <3>1, <3>2 DEF Entries
    <2>3. QED BY <2>1, <2>2
  <1>4. QED BY <1>3 DEF Entries

(* A look at a candidate keeps it, or one at least as good. *)
LEMMA RankStep ==
    ASSUME "identityRead" \notin FaultKinds, ServiceTypeOK, ServiceInv, NEW l \in Loops, Rank(l)
    PROVE  /\ UNCHANGED stores /\ call'[l] \in Calls /\ call'[l].txn = call[l].txn
           /\ \A m \in identities :
                SamePerson(call[l].txn, minted[m]) /\ KnowsOf(call[l], m) => KnowsOf(call'[l], m)
  <1> DEFINE c == call[l]
             n == Head(c.faces)
             rest == [c EXCEPT !.faces = Tail(@)]
             better == c.best = 0 \/ Confidence(c.txn, n, c.names) > Confidence(c.txn, c.best, c.names)
  <1>a. CallsType /\ UNCHANGED stores
    BY DEF ServiceTypeOK, CallsType, Rank
  <1>b. c \in Calls /\ c.step = "rank"
    BY <1>a, InCall DEF Rank, At, Steps
  <1>c. c.best \in identities \cup {0} /\ identities \subseteq 1..Len(minted)
    BY <1>b, IdleFact DEF ServiceInv, CallInv, ServiceTypeOK
  <1>d. c.txn \in Txns /\ c.faces \in Seq(Nat) /\ c.faces # <<>>
    BY <1>b DEF Rank, Calls
  <1>e. /\ n \in Nat /\ Tail(c.faces) \in Seq(Nat)
        /\ Entries(c.faces) \subseteq {n} \cup Entries(Tail(c.faces))
    BY <1>d, HeadOrTail, HeadTailProperties
  <1>1. /\ rest \in Calls /\ rest.txn = c.txn /\ rest.step = "rank" /\ rest.names = c.names
        /\ rest.faces = Tail(c.faces) /\ rest.best = c.best
    BY <1>b, <1>e DEF Calls
  <1>2. PICK d : d = [rest EXCEPT !.best = n]
    OBVIOUS
  <1>3. /\ d \in Calls /\ d.txn = c.txn /\ d.step = "rank" /\ d.names = c.names
        /\ d.faces = Tail(c.faces) /\ d.best = n
    BY <1>1, <1>2, <1>e DEF Calls
  <1>4. /\ n \in identities => call'[l] = IF better THEN d ELSE rest
        /\ n \notin identities => call'[l] = rest
    BY <1>a, <1>2 DEF Rank, Set, CallsType, Fault
  <1>5. call'[l] \in {d, rest}
    BY <1>4
  <1>6. ASSUME NEW m \in identities, SamePerson(c.txn, minted[m]), KnowsOf(c, m)
        PROVE  KnowsOf(call'[l], m)
    <2> DEFINE Good(k) == Confidence(c.txn, k, c.names) >= Highest
    <2>a. /\ Highest \in Int /\ m \in 1..Len(minted)
          /\ \A k \in identities : Confidence(c.txn, k, c.names) \in Int /\ k # 0
      <3>1. Highest \in Int
        BY SMT DEF Highest
      <3>2. QED BY <1>c, <1>d, <3>1, LookType
    <2>b. m \in c.names => Good(m)
      BY <1>d, <1>6, <2>a, SamePersonMatches
    <2>c. ASSUME NEW e \in {d, rest},
                 \/ MissedBy(c.txn)
                 \/ m \in Entries(Tail(c.faces)) /\ m \in c.names
                 \/ e.best # 0 /\ Good(e.best)
          PROVE  KnowsOf(e, m)
      BY <1>1, <1>3, <2>c DEF KnowsOf
    <2>1. MissedBy(c.txn) \/ (m \in Entries(c.faces) /\ m \in c.names) \/ (c.best # 0 /\ Good(c.best))
      BY <1>6, <1>b DEF KnowsOf
    <2>2. CASE MissedBy(c.txn) \/ (m \in Entries(Tail(c.faces)) /\ m \in c.names)
      BY <1>5, <2>2, <2>c
    <2>3. CASE n \notin identities /\ (c.best # 0 /\ Good(c.best))
      BY <1>1, <1>4, <2>3, <2>c
    <2>4. CASE n \in identities /\ ((m = n /\ m \in c.names) \/ (c.best # 0 /\ Good(c.best)))
      <3>1. Good(n) \/ (c.best # 0 /\ Good(c.best))
        BY <2>4, <2>b
      <3>2. CASE better
        <4>1. Good(n)
          <5>1. CASE c.best # 0 /\ Good(c.best)
            <6>1. PICK x \in Int, y \in Int, top \in Int :
                    x = Confidence(c.txn, n, c.names) /\ y = Confidence(c.txn, c.best, c.names) /\ top = Highest
              BY <1>c, <2>a, <2>4, <5>1
            <6>2. x > y /\ y >= top
              BY <3>2, <5>1, <6>1
            <6>3. x >= top
              BY <6>2
            <6>4. QED BY <6>1, <6>3
          <5>2. QED BY <3>1, <5>1
        <4>2. call'[l] = d /\ d.best # 0 /\ Good(d.best)
          BY <1>3, <1>4, <2>a, <2>4, <3>2, <4>1
        <4>3. QED BY <2>c, <4>2
      <3>3. CASE ~better
        <4>1. c.best # 0 /\ Good(c.best)
          <5>1. PICK x \in Int, y \in Int, top \in Int :
                  x = Confidence(c.txn, n, c.names) /\ y = Confidence(c.txn, c.best, c.names) /\ top = Highest
            BY <1>c, <2>a, <2>4, <3>3
          <5>2. c.best # 0 /\ x <= y /\ (x >= top \/ y >= top)
            BY <3>1, <3>3, <5>1
          <5>3. y >= top
            BY <5>2
          <5>4. QED BY <5>1, <5>2, <5>3
        <4>2. call'[l] = rest /\ rest.best # 0 /\ Good(rest.best)
          BY <1>1, <1>4, <2>4, <3>3, <4>1
        <4>3. QED BY <2>c, <4>2
      <3>4. QED BY <3>2, <3>3
    <2>5. CASE m \in Entries(c.faces) /\ m \in c.names /\ m \notin Entries(Tail(c.faces))
      <3>1. m = n /\ n \in identities
        BY <1>e, <1>6, <2>5
      <3>2. QED BY <2>4, <2>5, <3>1
    <2>6. CASE c.best # 0 /\ Good(c.best)
      BY <2>3, <2>4, <2>6
    <2>7. QED BY <2>1, <2>2, <2>5, <2>6
  <1>7. QED BY <1>a, <1>1, <1>3, <1>5, <1>6

(* What an enrollment that has searched knows, after each of its steps. *)
LEMMA OwnSearch ==
    ASSUME OneAtATime, ServiceTypeOK, ServiceInv, NEW l \in Loops, SearchOf(l), Work(l)
    PROVE  SearchOf(l)'
  <1> DEFINE c == call[l]
  <1>a. CallsType /\ minted \in Seq(Txns) /\ Len(minted) \in Nat
    BY DEF ServiceTypeOK, CallsType
  <1>b. /\ facePoints \in SUBSET (1..Len(minted)) /\ namePoints \in SUBSET (1..Len(minted))
        /\ Kept \subseteq identities /\ Kept \subseteq facePoints /\ Kept \subseteq namePoints
    BY DEF ServiceTypeOK, ServiceInv, IdentityHasVectors, Kept
  <1>c. ASSUME NEW d, Set(l, d) PROVE call'[l] = d
    BY <1>a, <1>c DEF Set, CallsType
  <1>d. ASSUME c \in Calls, Step(l, "fail") PROVE SearchOf(l)'
    <2>1. call'[l].step = "fail"
      BY <1>a, <1>d, StepType DEF Calls, Steps
    <2>2. QED BY <2>1 DEF SearchOf
  <1>e. ASSUME UNCHANGED stores, NEW d \in Calls, call'[l] = d, d.txn = c.txn,
               \A m \in Kept : /\ JobType[c.txn] = "enroll"
                                     /\ SamePerson(c.txn, minted[m])
                                     /\ d.step \in {"searchName", "rank"}
                                     => KnowsOf(d, m)
        PROVE  SearchOf(l)'
    <2>1. \A t : MissedBy(t)' <=> MissedBy(t)
      BY <1>e DEF MissedBy, Full, ExactMatches, stores
    <2>2. \A t, n, names : Confidence(t, n, names)' = Confidence(t, n, names)
      BY <1>e DEF Confidence, Face, Name, Demo, stores
    <2>3. \A e, n : KnowsOf(e, n)' <=> KnowsOf(e, n)
      BY <2>1, <2>2 DEF KnowsOf
    <2>4. QED BY <1>e, <2>3 DEF SearchOf, stores, Kept
  <1>1. CASE SearchFace(l)
    <2>1. c \in Calls /\ c.step = "searchFace" /\ UNCHANGED stores
      BY <1>1, <1>a, InCall DEF SearchFace, Steps, At
    <2>2. CASE Step(l, "fail")
      BY <1>d, <2>1, <2>2
    <2>3. ASSUME NEW s \in Shortlists(facePoints, FaceSim[c.txn]),
                 Set(l, [c EXCEPT !.faces = s, !.step = "searchName"])
          PROVE  SearchOf(l)'
      <3>1. PICK t \in Txns : t = c.txn
        BY <2>1 DEF Calls
      <3>2. PICK d : d = [c EXCEPT !.faces = s, !.step = "searchName"]
        OBVIOUS
      <3>3. s \in Seq(Nat)
        BY <1>a, <1>b, <2>3, ShortlistType
      <3>4. d \in Calls /\ d.txn = t /\ d.faces = s /\ d.step = "searchName"
        BY <2>1, <3>1, <3>2, <3>3 DEF Calls, Steps
      <3>5. ASSUME NEW m \in Kept, SamePerson(t, minted[m]) PROVE KnowsOf(d, m)
        <4>1. m \in facePoints /\ FaceSim[t] \in [Txns -> Scores] /\ FaceSim[t][minted[m]] = Highest
          BY <1>b, <3>5, ExactIsHighest, ServiceAssumption
        <4>2. m \in Entries(s) \/ Full(facePoints, FaceSim[t])
          BY <1>a, <1>b, <2>3, <3>1, <4>1, ShortlistHasExact
        <4>3. QED BY <3>4, <4>2 DEF KnowsOf, MissedBy
      <3>6. call'[l] = d
        BY <1>c, <2>3, <3>2
      <3>7. QED BY <1>e, <2>1, <3>1, <3>4, <3>5, <3>6
    <2>4. QED BY <1>1, <2>2, <2>3 DEF SearchFace, Txn
  <1>2. CASE SearchName(l)
    <2>1. c \in Calls /\ c.step = "searchName" /\ UNCHANGED stores
      BY <1>2, <1>a, InCall DEF SearchName, Steps, At
    <2>2. CASE Step(l, "fail")
      BY <1>d, <2>1, <2>2
    <2>3. ASSUME NEW s \in Shortlists(namePoints, NameSim[c.txn]),
                 Set(l, [c EXCEPT !.names = Entries(s), !.step = "rank"])
          PROVE  SearchOf(l)'
      <3>1. PICK t \in Txns : t = c.txn
        BY <2>1 DEF Calls
      <3>2. PICK d : d = [c EXCEPT !.names = Entries(s), !.step = "rank"]
        OBVIOUS
      <3>3. s \in Seq(Nat)
        BY <1>a, <1>b, <2>3, ShortlistType
      <3>4. Entries(s) \in SUBSET Nat
        BY <3>3 DEF Entries
      <3>5. d \in Calls /\ d.txn = t /\ d.faces = c.faces /\ d.names = Entries(s) /\ d.step = "rank"
        BY <2>1, <3>1, <3>2, <3>4 DEF Calls, Steps
      <3>6. ASSUME NEW m \in Kept, SamePerson(t, minted[m]), JobType[t] = "enroll" PROVE KnowsOf(d, m)
        <4>1. m \in namePoints /\ NameSim[t] \in [Txns -> Scores] /\ NameSim[t][minted[m]] = Highest
          BY <1>b, <3>6, ExactIsHighest, ServiceAssumption
        <4>2. m \in Entries(s) \/ Full(namePoints, NameSim[t])
          BY <1>a, <1>b, <2>3, <3>1, <4>1, ShortlistHasExact
        <4>3. KnowsOf(c, m)
          BY <2>1, <3>1, <3>6 DEF SearchOf
        <4>4. MissedBy(t) \/ m \in Entries(c.faces)
          BY <2>1, <3>1, <4>3 DEF KnowsOf
        <4>5. QED BY <3>5, <4>2, <4>4 DEF KnowsOf, MissedBy
      <3>7. call'[l] = d
        BY <1>c, <2>3, <3>2
      <3>8. QED BY <1>e, <2>1, <3>1, <3>5, <3>6, <3>7
    <2>4. QED BY <1>2, <2>2, <2>3 DEF SearchName, Txn
  <1>3. CASE Rank(l)
    <2>1. call[l].step = "rank"
      BY <1>3 DEF Rank, At
    <2>2. PICK d \in Calls : d = call'[l]
      BY <1>3, RankStep DEF OneAtATime
    <2>3. UNCHANGED stores /\ d.txn = c.txn
      BY <1>3, <2>2, RankStep DEF OneAtATime
    <2>4. ASSUME NEW m \in Kept, JobType[c.txn] = "enroll", SamePerson(c.txn, minted[m])
          PROVE  KnowsOf(d, m)
      <3>1. KnowsOf(c, m)
        BY <2>1, <2>4 DEF SearchOf
      <3>2. QED BY <1>3, <1>b, <2>2, <2>4, <3>1, RankStep DEF OneAtATime
    <2>5. QED BY <1>e, <2>2, <2>3, <2>4
  <1>4. CASE ~(SearchFace(l) \/ SearchName(l) \/ Rank(l))
    BY <1>4, LeavesSearch DEF SearchOf
  <1>5. QED BY <1>1, <1>2, <1>3, <1>4
-----------------------------------------------------------------------------
(* What crowds an identity out stays in its way. *)
LEMMA CrowdedOutStays ==
    ASSUME ServiceTypeOK, ServiceTypeOK', facePoints \subseteq facePoints', namePoints \subseteq namePoints',
           \A k \in 1..Len(minted) : minted'[k] = minted[k],
           NEW n \in 1..Len(minted), CrowdedOut(n)
    PROVE  CrowdedOut(n)'
  <1>1. /\ minted \in Seq(Txns) /\ minted' \in Seq(Txns)
        /\ facePoints \in SUBSET (1..Len(minted)) /\ facePoints' \in SUBSET (1..Len(minted'))
        /\ namePoints \in SUBSET (1..Len(minted)) /\ namePoints' \in SUBSET (1..Len(minted'))
    BY DEF ServiceTypeOK
  <1>2. ASSUME NEW sim, NEW few \in SUBSET (1..Len(minted)), NEW many \in SUBSET (1..Len(minted')),
               few \subseteq many, Crowds(few, sim, n)
        PROVE  Cardinality({k \in many : k < n /\ sim[minted'[n]][minted'[k]] = Highest}) > TopK
    <2> DEFINE S == {k \in few : k < n /\ sim[minted[n]][minted[k]] = Highest}
               T == {k \in many : k < n /\ sim[minted'[n]][minted'[k]] = Highest}
    <2>1. S \subseteq T
      BY <1>2
    <2>2. IsFiniteSet(T)
      <3>1. PICK length \in Nat : length = Len(minted')
        BY <1>1
      <3>2. IsFiniteSet(1..length)
        BY IdsAreFinite
      <3>3. T \subseteq 1..length
        BY <3>1
      <3>4. QED BY <3>2, <3>3, FS_Subset
    <2>3. TopK \in Nat
      BY ServiceAssumption
    <2>4. Cardinality(S) > TopK
      BY <1>2 DEF Crowds
    <2>5. QED BY <2>1, <2>2, <2>3, <2>4, MoreThan
  <1>3. ASSUME Crowds(facePoints, FaceSim, n) PROVE Crowds(facePoints, FaceSim, n)'
    BY <1>1, <1>2, <1>3 DEF Crowds
  <1>4. ASSUME Crowds(namePoints, NameSim, n) PROVE Crowds(namePoints, NameSim, n)'
    BY <1>1, <1>2, <1>4 DEF Crowds
  <1>5. QED BY <1>3, <1>4 DEF CrowdedOut

(* An identity made when its person has one already was crowded out. *)
LEMMA NewIsCrowdedOut ==
    ASSUME ServiceTypeOK, ServiceTypeOK', NEW l \in Loops, SearchOf(l), Decide(l), CallInv(l),
           minted' = Append(minted, call[l].txn), JobType[call[l].txn] = "enroll",
           ~(call[l].best # 0 /\ IsDuplicate(TRUE, Face(call[l].txn, call[l].best))),
           NEW m \in Kept, SamePerson(call[l].txn, minted[m]),
           NEW n \in Nat, n = Len(minted) + 1
    PROVE  CrowdedOut(n)'
  <1> DEFINE c == call[l]
  <1>a. /\ CallsType /\ minted \in Seq(Txns) /\ Len(minted) \in Nat
        /\ facePoints \subseteq 1..Len(minted) /\ namePoints \subseteq 1..Len(minted)
        /\ identities \subseteq 1..Len(minted)
        /\ facePoints' = facePoints /\ namePoints' = namePoints
    BY DEF ServiceTypeOK, CallsType, Decide
  <1>b. c \in Calls /\ c.step = "rank" /\ c.faces = <<>>
    BY <1>a, InCall DEF Decide, At, Steps
  <1>c. c.txn \in Txns /\ c.best \in identities \cup {0}
    BY <1>b, IdleFact DEF Calls, CallInv
  <1>1. KnowsOf(c, m)
    BY <1>b DEF SearchOf
  <1>2. ~(c.best # 0 /\ Confidence(c.txn, c.best, c.names) >= Highest)
    BY <1>a, <1>c, MatchIsDuplicate
  <1>3. MissedBy(c.txn)
    BY <1>b, <1>1, <1>2 DEF KnowsOf, Entries
  <1>4. PICK t \in Txns : t = c.txn /\ minted' = Append(minted, t)
    BY <1>c
  <1>5. minted'[n] = t /\ \A k \in 1..Len(minted) : minted'[k] = minted[k] /\ k < n
    BY <1>a, <1>4
  <1>6. ASSUME NEW points \in SUBSET (1..Len(minted)), NEW sim, Full(points, sim[t])
        PROVE  Cardinality({k \in points : k < n /\ sim[minted'[n]][minted'[k]] = Highest}) > TopK
    <2>1. {k \in points : k < n /\ sim[minted'[n]][minted'[k]] = Highest} = ExactMatches(points, sim[t])
      BY <1>5, ExactIsHighest
    <2>2. QED BY <1>6, <2>1 DEF Full
  <1>7. ASSUME Full(facePoints, FaceSim[t]) PROVE Crowds(facePoints, FaceSim, n)'
    BY <1>a, <1>6, <1>7 DEF Crowds
  <1>8. ASSUME Full(namePoints, NameSim[t]) PROVE Crowds(namePoints, NameSim, n)'
    BY <1>a, <1>6, <1>8 DEF Crowds
  <1>9. QED BY <1>3, <1>4, <1>7, <1>8 DEF MissedBy, CrowdedOut

LEMMA MintStep ==
    ASSUME TypeInv, TypeInv', ServiceInv, NEW l \in Loops, Work(l), LatestOf(l), SearchOf(l), MintInv
    PROVE  MintInv'
  <1> SUFFICES ASSUME NEW n \in 1..Len(minted'), NEW m \in Kept', m < n,
                      SamePerson(minted'[n], minted'[m])
               PROVE  CrowdedOut(n)'
    BY DEF MintInv
  <1>a. /\ ServiceTypeOK /\ ServiceTypeOK' /\ minted \in Seq(Txns) /\ Len(minted) \in Nat
        /\ Kept \subseteq 1..Len(minted)
    BY DEF TypeInv, WorkerTypeOK, ServiceTypeOK, Kept
  <1>b. /\ facePoints \subseteq facePoints' /\ namePoints \subseteq namePoints'
        /\ \A k \in 1..Len(minted) : minted'[k] = minted[k]
        /\ m \in Kept \/ (call[l].step = "saveIdentity" /\ m = call[l].id)
    BY <1>a, WorkGrows DEF Kept
  <1>1. CASE n \in 1..Len(minted) /\ m \in Kept
    <2>1. CrowdedOut(n)
      BY <1>a, <1>b, <1>1 DEF MintInv
    <2>2. QED BY <1>a, <1>b, <1>1, <2>1, CrowdedOutStays
  <1>2. CASE minted' = minted /\ m \notin Kept
    <2>1. m = Len(minted)
      BY <1>b, <1>2 DEF LatestOf, Enrolling
    <2>2. QED BY <1>a, <1>2, <2>1
  <1>3. CASE Decide(l) /\ minted' = Append(minted, call[l].txn) /\ n \notin 1..Len(minted)
    <2>1. m \in Kept /\ m \in 1..Len(minted)
      BY <1>a, <1>3 DEF Decide, Kept
    <2>2. PICK t : t = call[l].txn /\ minted' = Append(minted, t)
      BY <1>3
    <2>3. n \in Nat /\ n = Len(minted) + 1 /\ minted'[n] = t /\ minted'[m] = minted[m]
      BY <1>a, <1>b, <1>3, <2>1, <2>2
    <2>4. SamePerson(call[l].txn, minted[m])
      BY <2>2, <2>3
    <2>5. CallInv(l)
      BY DEF ServiceInv
    <2>6. /\ JobType[call[l].txn] = "enroll"
          /\ ~(call[l].best # 0 /\ IsDuplicate(TRUE, Face(call[l].txn, call[l].best)))
      <3>1. minted' # minted
        BY <1>a, <2>2
      <3>2. QED BY <1>a, <3>1, MakeStep
    <2>7. QED BY <1>a, <1>3, <2>1, <2>3, <2>4, <2>5, <2>6, NewIsCrowdedOut
  <1>4. CASE Decide(l) /\ m \notin Kept
    BY <1>4 DEF Decide, Kept
  <1>5. QED BY <1>a, <1>1, <1>2, <1>3, <1>4, MakeStep

LEMMA PersonCall ==
    ASSUME OneAtATime, TypeInv, TypeInv', ServiceInv, ByType, PersonInv, CallStep
    PROVE  PersonInv'
  <1>1. PICK l \in Loops : Work(l)
    BY DEF CallStep
  <1>2. ServiceTypeOK /\ CallsType
    BY DEF TypeInv, WorkerTypeOK, ServiceTypeOK, CallsType
  <1>3. LatestOf(l)' /\ SearchOf(l)'
    BY <1>1, <1>2, OwnLatest, OwnSearch DEF PersonInv
  <1>4. ASSUME NEW m \in Loops \ {l} PROVE LatestOf(m)' /\ SearchOf(m)'
    <2>1. call'[m] = call[m] /\ call[l] # Idle
      BY <1>1, <1>2, WorkGrows, WorkStatus DEF TypeInv, SubmitTypeInv, SubmitTypeOK
    <2>2. CASE call[m] # Idle /\ JobType[call[m].txn] = "enroll"
      <3>1. JobType[call[l].txn] # "enroll"
        BY <2>1, <2>2, OneEnrolls
      <3>2. UNCHANGED stores
        BY <1>1, <1>2, <3>1, VerifyStores DEF PersonInv
      <3>3. LatestOf(m) /\ SearchOf(m)
        BY DEF PersonInv
      <3>4. QED BY <2>1, <3>2, <3>3, SearchStays
    <2>3. CASE ~(call[m] # Idle /\ JobType[call[m].txn] = "enroll")
      <3>1. call[m].step \notin Enrolling
        BY <2>3, IdleFact DEF PersonInv, LatestOf, Enrolling, Steps
      <3>2. call[m].step \in {"searchName", "rank"} => JobType[call[m].txn] # "enroll"
        BY <2>3, IdleFact DEF Steps
      <3>3. QED BY <2>1, <3>1, <3>2 DEF LatestOf, SearchOf
    <2>4. QED BY <2>2, <2>3
  <1>5. MintInv'
    BY <1>1, MintStep DEF PersonInv
  <1>6. QED BY <1>3, <1>4, <1>5 DEF PersonInv

LEMMA PersonFrame ==
    ASSUME PersonInv, UNCHANGED stores,
           \A m \in Loops : \/ call'[m] \in {call[m], Idle}
                            \/ \E t, step : step \notin Enrolling \cup {"searchName", "rank"} /\ call'[m] = NewCall(t, step)
    PROVE  PersonInv'
  <1>1. ASSUME NEW m \in Loops PROVE LatestOf(m)' /\ SearchOf(m)'
    <2>1. CASE call'[m] = call[m]
      BY <2>1, SearchStays DEF PersonInv
    <2>2. CASE call'[m].step \notin Enrolling \cup {"searchName", "rank"}
      BY <2>2 DEF LatestOf, SearchOf
    <2>3. \A t, step : NewCall(t, step).step = step
      BY DEF NewCall
    <2>4. QED BY <2>1, <2>2, <2>3, IdleFact DEF Enrolling, Steps
  <1>2. \A n : CrowdedOut(n)' <=> CrowdedOut(n)
    BY DEF CrowdedOut, Crowds, stores
  <1>3. MintInv'
    BY <1>2 DEF PersonInv, MintInv, stores, Kept
  <1>4. QED BY <1>1, <1>3 DEF PersonInv

LEMMA PersonLand ==
    ASSUME TypeInv, TypeInv', PersonInv, StoreLands
    PROVE  PersonInv'
  <1>a. Land /\ ServiceTypeOK /\ ServiceTypeOK'
    BY DEF StoreLands, TypeInv, WorkerTypeOK
  <1>b. /\ UNCHANGED <<minted, lateIdentities>>
        /\ facePoints \subseteq facePoints' /\ namePoints \subseteq namePoints'
        /\ identities' \subseteq identities \cup lateIdentities
    BY <1>a, LandGrows
  <1>1. \A l \in Loops : (LatestOf(l) /\ SearchOf(l))'
    BY <1>a, LandSearch DEF PersonInv
  <1>2. ASSUME NEW n \in 1..Len(minted'), NEW m \in Kept', m < n, SamePerson(minted'[n], minted'[m])
        PROVE  CrowdedOut(n)'
    <2>1. m \in Kept /\ n \in 1..Len(minted)
      BY <1>b DEF Kept
    <2>2. CrowdedOut(n)
      BY <1>b, <1>2, <2>1 DEF PersonInv, MintInv
    <2>3. QED BY <1>a, <1>b, <2>1, <2>2, CrowdedOutStays
  <1>3. QED BY <1>1, <1>2 DEF PersonInv, MintInv

LEMMA PersonStep ==
    ASSUME OneAtATime, PipelineInv, PipelineInv', ByType, PersonInv, [Next]_vars
    PROVE  PersonInv'
  <1>a. TypeInv /\ TypeInv' /\ ServiceInv
    BY DEF PipelineInv
  <1>1. CASE CallStep
    BY <1>a, <1>1, PersonCall
  <1>2. CASE RestStep
    <2>1. UNCHANGED stores
      BY <1>2, OtherFrame DEF RestStep
    <2>2. ASSUME NEW m \in Loops
          PROVE  \/ call'[m] \in {call[m], Idle}
                 \/ \E t, step : step \notin Enrolling \cup {"searchName", "rank"} /\ call'[m] = NewCall(t, step)
      <3>1. \/ call'[m] \in {call[m], Idle}
            \/ \E p \in Partitions, step \in {"start", "failAgain"} : call'[m] = NewCall(Head(batch[m][p]), step)
        BY <1>a, <1>2, OtherCall DEF RestStep
      <3>2. QED BY <3>1 DEF Enrolling
    <2>3. QED BY <2>1, <2>2, PersonFrame
  <1>3. CASE ServerStep \/ RecordLands \/ UNCHANGED vars
    <2>1. UNCHANGED <<stores, call>>
      BY <1>3 DEF ServerStep, RecordLands, workerVars, stores, vars, workVars
    <2>2. QED BY <2>1, PersonFrame
  <1>4. CASE StoreLands
    BY <1>a, <1>4, PersonLand
  <1>5. QED BY <1>1, <1>2, <1>3, <1>4, StepCases

LEMMA PersonInit == Init => PersonInv
  <1> SUFFICES ASSUME Init PROVE PersonInv
    OBVIOUS
  <1>1. /\ \A l \in Loops : call[l] = Idle
        /\ minted = <<>>
    BY DEF Init, WorkerInit, ServiceInit
  <1>2. QED BY <1>1, IdleFact DEF PersonInv, LatestOf, SearchOf, MintInv, Enrolling, Steps

(* One worker that can read the metadata makes a second identity of a      *)
(* person only when more than TopK vectors that match the person exactly   *)
(* kept the first out of a shortlist, whatever else fails or crashes.      *)
THEOREM PersonsAreRecognised ==
    ASSUME OneAtATime
    PROVE  Spec => []OneIdentityUnlessCrowdedOrLate
  <1>1. Init => ByType /\ PersonInv
    BY ByTypeInit, PersonInit
  <1>2. PipelineInv /\ ByType /\ [Next]_vars => ByType'
    BY ByTypeStep
  <1>3. PipelineInv /\ PipelineInv' /\ ByType /\ PersonInv /\ [Next]_vars => PersonInv'
    BY PersonStep
  <1>4. PipelineInv /\ PersonInv => OneIdentityUnlessCrowdedOrLate
    <2> SUFFICES ASSUME PipelineInv, PersonInv, NEW m \in identities, NEW n \in identities, m < n,
                        SamePerson(minted[n], minted[m]), m \notin lateIdentities
                 PROVE  Crowded(facePoints, FaceSim, n) \/ Crowded(namePoints, NameSim, n)
      BY DEF OneIdentityUnlessCrowdedOrLate
    <2>1. n \in 1..Len(minted)
      BY DEF PipelineInv, TypeInv, WorkerTypeOK, ServiceTypeOK
    <2>2. CrowdedOut(n)
      BY <2>1 DEF PersonInv, MintInv, Kept
    <2>3. ASSUME NEW points, NEW sim, Crowds(points, sim, n) PROVE Crowded(points, sim, n)
      <3>1. {k \in points : k < n /\ sim[minted[n]][minted[k]] = Highest}
              = {k \in ExactMatches(points, sim[minted[n]]) : k < n}
        BY ExactIsHighest
      <3>2. QED BY <2>3, <3>1 DEF Crowds, Crowded
    <2>4. QED BY <2>2, <2>3 DEF CrowdedOut
  <1>5. QED BY <1>1, <1>2, <1>3, <1>4, Invariance, PTL DEF Spec
-----------------------------------------------------------------------------
\* What the failures so far have cost or may still cost: ids that were made
\* and are not stored in time, and enrollments past their searches whose worker
\* is stopping: bestCandidate does not look at the context, the upserts do.
Lost ==
    {n \in 1..Len(minted) :
       n \notin Kept /\ ~\E l \in Loops : call[l].step \in Enrolling /\ call[l].id = n}
Doomed ==
    {l \in Loops : /\ Cancelled(l) /\ call[l].step \in Enrolling \cup {"rank"}
                   /\ JobType[call[l].txn] = "enroll"}
Owed == {<<"id", n>> : n \in Lost} \cup {<<"call", l>> : l \in Doomed}

\* Only enrollments make identities.
EnrollsOnly ==
    /\ \A l \in Loops : call[l].step \in Enrolling => JobType[call[l].txn] = "enroll"
    /\ \A n \in 1..Len(minted) : JobType[minted[n]] = "enroll"

BudgetInv == EnrollsOnly /\ IsFiniteSet(Owed) /\ Cardinality(Owed) <= faults

LEMMA InOwed ==
    ASSUME NEW x
    PROVE  x \in Owed <=> \/ \E n \in Lost : x = <<"id", n>>
                          \/ \E l \in Doomed : x = <<"call", l>>
  BY DEF Owed

(* One more element, and one element for another. *)
LEMMA OneMore ==
    ASSUME NEW S, IsFiniteSet(S), NEW x, NEW T, T \subseteq S \cup {x}
    PROVE  IsFiniteSet(T) /\ Cardinality(T) <= Cardinality(S) + 1
  <1>1. /\ IsFiniteSet(S \cup {x})
        /\ Cardinality(S \cup {x}) = IF x \in S THEN Cardinality(S) ELSE Cardinality(S) + 1
    BY FS_AddElement
  <1>2. IsFiniteSet(T) /\ Cardinality(T) <= Cardinality(S \cup {x})
    BY <1>1, FS_Subset
  <1>3. PICK s \in Nat, t \in Nat, u \in Nat :
          s = Cardinality(S) /\ t = Cardinality(T) /\ u = Cardinality(S \cup {x})
    BY <1>1, <1>2, FS_CardinalityType
  <1>4. QED BY <1>1, <1>2, <1>3

LEMMA Swapped ==
    ASSUME NEW S, IsFiniteSet(S), NEW x, NEW y \in S, NEW T, T \subseteq S \cup {x}, y \notin T
    PROVE  IsFiniteSet(T) /\ Cardinality(T) <= Cardinality(S)
  <1>1. IsFiniteSet(S \ {y}) /\ Cardinality(S \ {y}) = Cardinality(S) - 1
    BY FS_RemoveElement
  <1>2. IsFiniteSet(T) /\ Cardinality(T) <= Cardinality(S \ {y}) + 1
    BY <1>1, OneMore
  <1>3. PICK s \in Nat : s = Cardinality(S)
    BY FS_CardinalityType
  <1>4. QED BY <1>1, <1>2, <1>3

\* What a step may do to the debt: nothing new, something new that a failure
\* pays, or something new in place of something else.
Accounts ==
    /\ faults' \in {faults, faults + 1}
    /\ \/ Owed' \subseteq Owed
       \/ \E x : /\ Owed' \subseteq Owed \cup {x}
                 /\ faults' = faults + 1 \/ \E y \in Owed : y \notin Owed'

LEMMA PaidStep ==
    ASSUME FaultsTypeOK, IsFiniteSet(Owed), Cardinality(Owed) <= faults, Accounts
    PROVE  (IsFiniteSet(Owed) /\ Cardinality(Owed) <= faults)'
  <1>1. PICK f \in Nat, s \in Nat : f = faults /\ s = Cardinality(Owed)
    BY FS_CardinalityType DEF FaultsTypeOK
  <1>2. CASE Owed' \subseteq Owed
    <2>1. IsFiniteSet(Owed') /\ Cardinality(Owed') <= Cardinality(Owed)
      BY <1>2, FS_Subset
    <2>2. Cardinality(Owed') \in Nat
      BY <2>1, FS_CardinalityType
    <2>3. QED BY <1>1, <2>1, <2>2 DEF Accounts
  <1>3. ASSUME NEW x, Owed' \subseteq Owed \cup {x}, faults' = faults + 1
        PROVE  IsFiniteSet(Owed') /\ Cardinality(Owed') <= faults'
    <2>1. IsFiniteSet(Owed') /\ Cardinality(Owed') <= Cardinality(Owed) + 1
      BY <1>3, OneMore
    <2>2. Cardinality(Owed') \in Nat
      BY <2>1, FS_CardinalityType
    <2>3. QED BY <1>1, <1>3, <2>1, <2>2
  <1>4. ASSUME NEW x, Owed' \subseteq Owed \cup {x}, NEW y \in Owed, y \notin Owed'
        PROVE  IsFiniteSet(Owed') /\ Cardinality(Owed') <= faults'
    <2>1. IsFiniteSet(Owed') /\ Cardinality(Owed') <= Cardinality(Owed)
      BY <1>4, Swapped
    <2>2. Cardinality(Owed') \in Nat
      BY <2>1, FS_CardinalityType
    <2>3. QED BY <1>1, <2>1, <2>2 DEF Accounts
  <1>5. QED BY <1>2, <1>3, <1>4 DEF Accounts

(* What is stored in time is not stored late as well, nor lost.            *)
LEMMA KeptGrows ==
    ASSUME ServiceTypeOK, ServiceInv, NEW l \in Loops, Work(l)
    PROVE  Kept \subseteq Kept'
  <1>1. call[l].step = "saveIdentity" => call[l].id \notin identities
    BY IdleFact DEF ServiceInv, CallInv, Enrolling, Steps
  <1>2. QED BY <1>1, WorkGrows DEF Kept

(* A call that stops enrolling without having stored its identity failed,  *)
(* and was cancelled or met a failure.                                     *)
LEMMA LeavesEnrolling ==
    ASSUME ServiceTypeOK, ServiceInv, NEW l \in Loops, Work(l), call[l].step \in Enrolling,
           call'[l].step \notin Enrolling, call[l].id \notin Kept'
    PROVE  call'[l].step = "fail" /\ (Cancelled(l) \/ faults' = faults + 1)
  <1> DEFINE c == call[l]
  <1>a. CallsType /\ c \in Calls
    BY InCall DEF ServiceTypeOK, CallsType, At, Enrolling, Steps
  <1>1. ASSUME NEW step \in Steps, Step(l, step) PROVE call'[l].step = step
    <2>1. call'[l] = [c EXCEPT !.step = step]
      BY <1>a, <1>1, StepType
    <2>2. QED BY <1>a, <2>1 DEF Calls
  <1>2. CASE UpsertFace(l)
    BY <1>1, <1>2 DEF UpsertFace, UpsertIsLate, CallFails, Fault, Enrolling, Steps
  <1>3. CASE UpsertName(l)
    BY <1>1, <1>3 DEF UpsertName, UpsertIsLate, CallFails, Fault, Enrolling, Steps
  <1>4. CASE SaveIdentity(l)
    <2>1. c.id \notin lateIdentities
      BY <1>4, IdleFact DEF ServiceInv, CallInv, Enrolling, Steps, SaveIdentity, At
    <2>2. c.id \notin identities' \/ lateIdentities' # lateIdentities
      BY <2>1 DEF Kept
    <2>3. QED BY <1>1, <1>4, <2>2 DEF SaveIdentity, Fault, Steps
  <1>5. QED
    BY <1>2, <1>3, <1>4 DEF Work, Start, Embed, SearchFace, SearchName, Rank, Decide, Complete, Notify,
                            Fail, FailAgain, At, Enrolling

(* A cancelled call does not come to rank candidates. *)
LEMMA RankEntry ==
    ASSUME ServiceTypeOK, NEW l \in Loops, Work(l), Cancelled(l), call'[l].step = "rank"
    PROVE  call[l].step = "rank" /\ call'[l].txn = call[l].txn
  <1> DEFINE c == call[l]
  <1>a. CallsType
    BY DEF ServiceTypeOK, CallsType
  <1>b. c \in Calls
    BY <1>a, InCall DEF Work, Start, Embed, SearchFace, SearchName, Rank, Decide, UpsertFace, UpsertName,
                  SaveIdentity, Complete, Notify, Fail, FailAgain, Steps
  <1>1. ASSUME NEW step \in Steps, Step(l, step) PROVE call'[l].step = step
    <2>1. call'[l] = [c EXCEPT !.step = step]
      BY <1>a, <1>b, <1>1, StepType
    <2>2. QED BY <1>b, <2>1 DEF Calls
  <1>2. ASSUME NEW d, Set(l, d) PROVE call'[l] = d
    BY <1>a, <1>2 DEF Set, CallsType
  <1>3. CASE Start(l) \/ Embed(l) \/ UpsertFace(l) \/ UpsertName(l) \/ Complete(l) \/ Fail(l)
    BY <1>1, <1>3 DEF Start, Embed, UpsertFace, UpsertName, Complete, Fail, Steps
  <1>4. CASE Notify(l) \/ FailAgain(l)
    BY <1>2, <1>4, IdleFact DEF Notify, FailAgain
  <1>5. CASE SearchFace(l) \/ SearchName(l)
    BY <1>1, <1>5 DEF SearchFace, SearchName, CallSucceeds, Steps
  <1>6. CASE Rank(l)
    <2>1. c.step = "rank"
      BY <1>6 DEF Rank, At
    <2>2. ASSUME NEW d, Set(l, d), d.txn = c.txn PROVE call'[l].txn = c.txn
      BY <1>2, <2>2
    <2>3. \A x, y : /\ [c EXCEPT !.faces = x].txn = c.txn
                    /\ [[c EXCEPT !.faces = x] EXCEPT !.best = y].txn = c.txn
      BY <1>b DEF Calls
    <2>4. \/ Set(l, [c EXCEPT !.faces = Tail(@)])
          \/ Set(l, [[c EXCEPT !.faces = Tail(@)] EXCEPT !.best = Head(c.faces)])
      BY <1>6 DEF Rank
    <2>5. QED BY <2>1, <2>2, <2>3, <2>4
  <1>7. CASE Decide(l)
    <2>1. \/ \E x : Set(l, [c EXCEPT !.id = x, !.step = "upsertFace"])
          \/ \E x : Set(l, [c EXCEPT !.result = x, !.step = "complete"])
      BY <1>7 DEF Decide
    <2>2. \A x : /\ [c EXCEPT !.id = x, !.step = "upsertFace"].step = "upsertFace"
                 /\ [c EXCEPT !.result = x, !.step = "complete"].step = "complete"
      BY <1>b DEF Calls
    <2>3. QED BY <1>2, <2>1, <2>2
  <1>8. CASE SaveIdentity(l)
    <2>1. Step(l, "fail") \/ \E x : Set(l, [c EXCEPT !.result = x, !.step = "complete"])
      BY <1>8 DEF SaveIdentity
    <2>2. \A x : [c EXCEPT !.result = x, !.step = "complete"].step = "complete"
      BY <1>b DEF Calls
    <2>3. QED BY <1>1, <1>2, <2>1, <2>2 DEF Steps
  <1>9. QED BY <1>3, <1>4, <1>5, <1>6, <1>7, <1>8 DEF Work

LEMMA WorkFaults == ASSUME NEW l \in Loops, Work(l) PROVE faults' \in {faults, faults + 1}
  BY DEF Work, Start, Embed, SearchFace, SearchName, Rank, Decide, UpsertFace, UpsertName, SaveIdentity,
         Complete, Notify, Fail, FailAgain, CallSucceeds, CallFails, UpsertIsLate, SaveStatusQuietly,
         StatusWriteFails, Postpone, NoFault, Fault

(* The debt after a step of a call. *)
LEMMA OwedWork ==
    ASSUME ServiceTypeOK, ServiceInv, EnrollsOnly, NEW l \in Loops, Work(l)
    PROVE  EnrollsOnly' /\ Accounts
  <1> DEFINE c == call[l]
  <1>a. /\ Len(minted) \in Nat /\ minted \in Seq(Txns)
        /\ Kept \subseteq Kept'
        /\ \A m \in Loops \ {l} : call'[m] = call[m]
        /\ worker' = worker
    BY WorkGrows, KeptGrows DEF ServiceTypeOK, Work, Start, Embed, SearchFace, SearchName, Rank, Decide, UpsertFace,
       UpsertName, SaveIdentity, Complete, Notify, Fail, FailAgain
  <1>b. \/ /\ c.step = "rank" /\ minted' = Append(minted, c.txn) /\ JobType[c.txn] = "enroll"
           /\ call'[l].step = "upsertFace" /\ call'[l].id = Len(minted) + 1 /\ call'[l].txn = c.txn
        \/ /\ minted' = minted
           /\ call'[l].step \in Enrolling =>
                c.step \in Enrolling /\ call'[l].id = c.id /\ call'[l].txn = c.txn
    BY MakeStep DEF Decide, At
  <1>c. c.txn \in Txns
    BY InCall DEF ServiceTypeOK, CallsType, Calls, Work, Start, Embed, SearchFace, SearchName, Rank, Decide,
       UpsertFace, UpsertName, SaveIdentity, Complete, Notify, Fail, FailAgain, Steps
  <1>1. EnrollsOnly'
    <2>1. ASSUME NEW m \in Loops, call'[m].step \in Enrolling PROVE JobType[call'[m].txn] = "enroll"
      <3>1. CASE m = l
        BY <1>b, <2>1, <3>1 DEF EnrollsOnly
      <3>2. CASE m # l
        BY <1>a, <2>1, <3>2 DEF EnrollsOnly
      <3>3. QED BY <3>1, <3>2
    <2>2. ASSUME NEW n \in 1..Len(minted') PROVE JobType[minted'[n]] = "enroll"
      <3>1. CASE minted' = minted
        BY <2>2, <3>1 DEF EnrollsOnly
      <3>2. CASE minted' = Append(minted, c.txn) /\ JobType[c.txn] = "enroll"
        <4>1. (n \in 1..Len(minted) /\ minted'[n] = minted[n]) \/ minted'[n] = c.txn
          BY <1>a, <1>c, <2>2, <3>2
        <4>2. QED BY <3>2, <4>1 DEF EnrollsOnly
      <3>3. QED BY <1>b, <3>1, <3>2
    <2>3. QED BY <2>1, <2>2 DEF EnrollsOnly
  <1>2. ASSUME NEW m \in Doomed' PROVE m \in Doomed
    <2>1. m \in Loops /\ Cancelled(m) /\ JobType[call'[m].txn] = "enroll"
          /\ call'[m].step \in Enrolling \cup {"rank"}
      BY <1>a, <1>2 DEF Doomed, Cancelled
    <2>2. CASE m # l
      BY <1>a, <2>1, <2>2 DEF Doomed
    <2>3. CASE m = l /\ call'[l].step \in Enrolling
      BY <1>b, <2>1, <2>3 DEF Doomed
    <2>4. CASE m = l /\ call'[l].step = "rank"
      BY <2>1, <2>4, RankEntry DEF Doomed
    <2>5. QED BY <2>1, <2>2, <2>3, <2>4
  <1> DEFINE Leaves == /\ c.step \in Enrolling /\ call'[l].step \notin Enrolling
                       /\ c.id \notin Kept'
  <1>3. ASSUME NEW n \in Lost', n \notin Lost PROVE n = c.id /\ Leaves
    <2>1. /\ n \in 1..Len(minted') /\ n \notin Kept
          /\ ~\E m \in Loops : call'[m].step \in Enrolling /\ call'[m].id = n
          /\ n \notin Kept'
      BY <1>a, <1>3 DEF Lost
    <2>2. n \in 1..Len(minted)
      BY <1>a, <1>b, <1>c, <2>1 DEF Enrolling
    <2>3. PICK m \in Loops : call[m].step \in Enrolling /\ call[m].id = n
      BY <1>3, <2>1, <2>2 DEF Lost
    <2>4. m = l
      BY <1>a, <2>1, <2>3
    <2>5. c.step # "rank"
      BY <2>3, <2>4 DEF Enrolling
    <2>6. call'[l].step \notin Enrolling
      BY <1>b, <2>1, <2>3, <2>4, <2>5
    <2>7. QED BY <2>1, <2>3, <2>4, <2>6
  <1>4. Owed' \subseteq Owed \cup {<<"id", c.id>>}
    <2> SUFFICES ASSUME NEW x \in Owed' PROVE x \in Owed \/ x = <<"id", c.id>>
      OBVIOUS
    <2>1. (\E n \in Lost' : x = <<"id", n>>) \/ (\E m \in Doomed' : x = <<"call", m>>)
      BY DEF Owed
    <2>2. QED BY <1>2, <1>3, <2>1, InOwed
  <1>5. CASE ~Leaves
    <2>1. Owed' \subseteq Owed
      <3> SUFFICES ASSUME NEW x \in Owed' PROVE x \in Owed
        OBVIOUS
      <3>1. (\E n \in Lost' : x = <<"id", n>>) \/ (\E m \in Doomed' : x = <<"call", m>>)
        BY DEF Owed
      <3>2. QED BY <1>2, <1>3, <1>5, <3>1, InOwed
    <2>2. QED BY <1>1, <2>1, WorkFaults DEF Accounts
  <1>6. CASE Leaves /\ faults' = faults + 1
    BY <1>1, <1>4, <1>6 DEF Accounts
  <1>7. CASE Leaves /\ Cancelled(l) /\ call'[l].step = "fail"
    <2>1. l \in Doomed
      BY <1>7 DEF Doomed, EnrollsOnly
    <2>2. l \notin Doomed'
      BY <1>7 DEF Doomed, Enrolling
    <2>3. <<"call", l>> \in Owed
      BY <2>1 DEF Owed
    <2>4. <<"call", l>> \notin Owed'
      BY <2>2 DEF Owed
    <2>5. QED BY <1>1, <1>4, <2>3, <2>4, WorkFaults DEF Accounts
  <1>8. QED BY <1>5, <1>6, <1>7, LeavesEnrolling

(* SIGTERM and a crash meet one enrollment at most: a worker has one loop  *)
(* for them.                                                               *)
LEMMA OneEnrollLoop ==
    ASSUME ByType, NEW l \in Loops, NEW w, l[1] = w, call[l] # Idle, JobType[call[l].txn] = "enroll"
    PROVE  l = <<w, "enroll">>
  <1>1. l[2] = "enroll"
    BY DEF ByType
  <1>2. l = <<l[1], l[2]>>
    BY DEF Loops
  <1>3. QED BY <1>1, <1>2

(* The debt after a step that is none of a call. *)
LEMMA OwedRest ==
    ASSUME TypeInv, ByType, EnrollsOnly, OtherStep
    PROVE  EnrollsOnly' /\ Accounts
  <1>a. CallsType /\ worker \in [Workers -> {"running", "stopping", "down"}]
    BY DEF TypeInv, WorkerTypeOK, ServiceTypeOK, CallsType
  <1>b. UNCHANGED stores /\ faults' \in {faults, faults + 1}
    BY OtherFrame DEF NoFault, Fault
  <1>c. ASSUME NEW m \in Loops PROVE call'[m] = call[m] \/ call'[m].step \notin Enrolling \cup {"rank"}
    <2>1. \A t, step : NewCall(t, step).step = step
      BY DEF NewCall
    <2>2. QED BY <2>1, OtherCall, IdleFact DEF Enrolling, Steps
  <1>1. EnrollsOnly'
    BY <1>b, <1>c DEF EnrollsOnly, stores
  \* Only a crash loses an id; only SIGTERM cancels a call.
  <1>2. ASSUME \A m \in Loops : call[m].step \in Enrolling => call'[m] = call[m]
        PROVE  Lost' = Lost
    <2>1. \A n : (\E m \in Loops : call'[m].step \in Enrolling /\ call'[m].id = n)
                    <=> (\E m \in Loops : call[m].step \in Enrolling /\ call[m].id = n)
      BY <1>2, <1>c
    <2>2. QED BY <1>b, <2>1 DEF Lost, Kept, stores
  <1>3. ASSUME \A m \in Loops : Cancelled(m)' => Cancelled(m)
        PROVE  Doomed' \subseteq Doomed
    BY <1>3, <1>c DEF Doomed
  <1>4. ASSUME NEW w \in Workers, Sigterm(w) PROVE Accounts
    <2>1. call' = call /\ worker' = [worker EXCEPT ![w] = "stopping"] /\ faults' = faults + 1
      BY <1>4 DEF Sigterm, Fault
    <2>2. Lost' = Lost
      BY <1>2, <2>1
    <2>3. Doomed' \subseteq Doomed \cup {<<w, "enroll">>}
      <3> SUFFICES ASSUME NEW m \in Doomed', m \notin Doomed PROVE m = <<w, "enroll">>
        OBVIOUS
      <3>1. /\ m \in Loops /\ worker'[m[1]] = "stopping" /\ call[m].step \in Enrolling \cup {"rank"}
            /\ JobType[call[m].txn] = "enroll"
        BY <2>1 DEF Doomed, Cancelled
      <3>2. m[1] = w
        BY <1>a, <2>1, <3>1 DEF Doomed, Cancelled, Loops
      <3>3. call[m] # Idle
        BY <3>1, IdleFact DEF Enrolling, Steps
      <3>4. QED BY <3>1, <3>2, <3>3, OneEnrollLoop
    <2>4. Owed' \subseteq Owed \cup {<<"call", <<w, "enroll">>>>}
      BY <2>2, <2>3 DEF Owed
    <2>5. QED BY <2>1, <2>4 DEF Accounts
  <1>5. ASSUME NEW w \in Workers, Crash(w) PROVE Accounts
    <2> DEFINE lost == call[<<w, "enroll">>].id
    <2>1. /\ faults' = faults + 1 /\ worker' = [worker EXCEPT ![w] = "down"]
          /\ \A m \in Loops : call'[m] = IF m[1] = w THEN Idle ELSE call[m]
      BY <1>5 DEF Crash, Fault
    <2>2. Doomed' \subseteq Doomed
      <3>1. \A m \in Loops : Cancelled(m)' => Cancelled(m)
        BY <1>a, <2>1 DEF Cancelled, Loops
      <3>2. QED BY <1>3, <3>1
    <2>3. Lost' \subseteq Lost \cup {lost}
      <3> SUFFICES ASSUME NEW n \in Lost', n \notin Lost PROVE n = lost
        OBVIOUS
      <3>1. PICK m \in Loops : call[m].step \in Enrolling /\ call[m].id = n
        BY <1>b DEF Lost, Kept, stores
      <3>2. call'[m] # call[m]
        BY <3>1 DEF Lost
      <3>3. m[1] = w /\ call[m] # Idle
        BY <2>1, <3>1, <3>2, IdleFact DEF Enrolling, Steps
      <3>4. m = <<w, "enroll">>
        BY <3>1, <3>3, OneEnrollLoop DEF EnrollsOnly
      <3>5. QED BY <3>1, <3>4
    <2>4. Owed' \subseteq Owed \cup {<<"id", lost>>}
      BY <2>2, <2>3 DEF Owed
    <2>5. QED BY <2>1, <2>4 DEF Accounts
  <1>6. ASSUME \A m \in Loops : call[m].step \in Enrolling => call'[m] = call[m],
               \A m \in Loops : Cancelled(m)' => Cancelled(m)
        PROVE  Accounts
    <2>1. Owed' \subseteq Owed
      BY <1>2, <1>3, <1>6 DEF Owed
    <2>2. QED BY <1>b, <2>1 DEF Accounts
  <1>7. ASSUME NEW l \in Loops, NEW p \in Partitions, Take(l, p) PROVE Accounts
    <2>1. \A m \in Loops : call[m].step \in Enrolling => call'[m] = call[m]
      <3>1. call[l] = Idle /\ \A m \in Loops \ {l} : call'[m] = call[m]
        BY <1>7, <1>a DEF Take, Set, CallsType
      <3>2. QED BY <3>1, IdleFact DEF Enrolling, Steps
    <2>2. worker' = worker
      BY <1>7 DEF Take
    <2>3. QED BY <1>6, <2>1, <2>2 DEF Cancelled
  <1>8. ASSUME NEW w \in Workers, Exit(w) \/ Restart(w) PROVE Accounts
    <2>1. call' = call /\ \E s \in {"down", "running"} : worker' = [worker EXCEPT ![w] = s]
      BY <1>8 DEF Exit, Restart
    <2>2. \A m \in Loops : Cancelled(m)' => Cancelled(m)
      BY <1>a, <2>1 DEF Cancelled, Loops
    <2>3. QED BY <1>6, <2>1, <2>2
  <1>9. CASE \/ \E l \in Loops : Poll(l) \/ PollFails(l) \/ InstanceLost(l)
             \/ \E type \in Types : Rebalance(type)
    <2>1. call' = call /\ worker' = worker
      BY <1>9 DEF Poll, PollFails, InstanceLost, Rebalance
    <2>2. \A m \in Loops : Cancelled(m)' => Cancelled(m)
      BY <2>1 DEF Cancelled
    <2>3. \A m \in Loops : call[m].step \in Enrolling => call'[m] = call[m]
      BY <2>1
    <2>4. QED BY <1>1, <1>6, <2>2, <2>3
  <1>10. QED BY <1>1, <1>4, <1>5, <1>7, <1>8, <1>9 DEF OtherStep

(* A step contains one failure at most. *)
LEMMA StepFaults == ASSUME [Next]_vars PROVE faults' \in {faults, faults + 1}
  <1>1. CASE CallStep
    BY <1>1, WorkFaults DEF CallStep
  <1>2. CASE RestStep
    BY <1>2, OtherFrame DEF RestStep, NoFault, Fault
  <1>3. CASE ServerStep
    BY <1>3 DEF ServerStep, RequestNext, Handle, Receive, Accept, AcceptFails, Publish, PublishRetried,
       PublishRefused, Compensate, ApiCrash, ProduceFails, SaveStatusQuietly, StatusWriteFails, Postpone,
       NoFault, Fault
  <1>4. CASE RecordLands \/ StoreLands
    BY <1>4 DEF RecordLands, LateStatus, LandStatus, StoreLands, Land, NoFault
  <1>5. CASE UNCHANGED vars
    BY <1>5 DEF vars, workVars
  <1>6. QED BY <1>1, <1>2, <1>3, <1>4, <1>5, StepCases

LEMMA BudgetStep ==
    ASSUME PipelineInv, ByType, BudgetInv, [Next]_vars
    PROVE  BudgetInv'
  <1>a. /\ TypeInv /\ ServiceTypeOK /\ FaultsTypeOK /\ ServiceInv
        /\ EnrollsOnly /\ IsFiniteSet(Owed) /\ Cardinality(Owed) <= faults
    BY DEF PipelineInv, TypeInv, WorkerTypeOK, SubmitTypeInv, SubmitTypeOK, BudgetInv
  <1>1. EnrollsOnly' /\ Accounts
    <2>1. CASE CallStep
      BY <1>a, <2>1, OwedWork DEF CallStep
    <2>2. CASE RestStep
      BY <1>a, <2>2, OwedRest DEF RestStep
    <2>3. ASSUME UNCHANGED <<call, worker, minted>>, Kept' = Kept, faults' \in {faults, faults + 1}
          PROVE  EnrollsOnly' /\ Accounts
      <3>1. Lost' = Lost /\ Doomed' = Doomed
        BY <2>3 DEF Lost, Doomed, Cancelled
      <3>2. Owed' = Owed
        BY <3>1 DEF Owed
      <3>3. EnrollsOnly'
        BY <1>a, <2>3 DEF EnrollsOnly
      <3>4. QED BY <2>3, <3>2, <3>3 DEF Accounts
    <2>4. CASE ServerStep \/ RecordLands \/ UNCHANGED vars
      <3>1. UNCHANGED <<call, worker, stores>>
        BY <2>4 DEF ServerStep, RecordLands, workerVars, stores, vars, workVars
      <3>2. QED BY <2>3, <3>1, StepFaults DEF stores, Kept
    <2>5. CASE StoreLands
      <3>1. UNCHANGED <<call, worker, minted>> /\ Kept' = Kept
        BY <2>5, LandGrows DEF StoreLands, Kept
      <3>2. QED BY <2>3, <3>1, StepFaults
    <2>6. QED BY <2>1, <2>2, <2>4, <2>5, StepCases
  <1>2. QED BY <1>a, <1>1, PaidStep DEF BudgetInv

LEMMA BudgetInit == Init => BudgetInv
  <1> SUFFICES ASSUME Init PROVE BudgetInv
    OBVIOUS
  <1>1. minted = <<>> /\ faults = 0 /\ \A l \in Loops : call[l].step = "idle"
    BY IdleFact DEF Init, WorkerInit, ServiceInit, SubmitInit
  <1>2. Lost = {} /\ Doomed = {}
    BY <1>1 DEF Lost, Doomed, Enrolling
  <1>3. Owed = {}
    BY <1>2 DEF Owed
  <1>4. IsFiniteSet(Owed) /\ Cardinality(Owed) = 0
    BY <1>3, FS_EmptySet
  <1>5. EnrollsOnly
    BY <1>1 DEF EnrollsOnly, Enrolling
  <1>6. QED BY <1>1, <1>4, <1>5 DEF BudgetInv

(* The orphans are among what is owed.                                     *)
LEMMA LostIsOwed ==
    ASSUME FaultsTypeOK, BudgetInv
    PROVE  IsFiniteSet(Lost) /\ Cardinality(Lost) <= faults
  <1> DEFINE f == [n \in Lost |-> <<"id", n>>]
  <1>1. f \in Injection(Lost, Owed)
    BY DEF Injection, IsInjective, Owed
  <1>2. IsFiniteSet(Owed) /\ Cardinality(Owed) <= faults
    BY DEF BudgetInv
  <1>3. IsFiniteSet(Lost) /\ Cardinality(Lost) <= Cardinality(Owed)
    BY <1>1, <1>2, FS_Injection
  <1>4. PICK n \in Nat, d \in Nat, g \in Nat :
          n = Cardinality(Lost) /\ d = Cardinality(Owed) /\ g = faults
    BY <1>2, <1>3, FS_CardinalityType DEF FaultsTypeOK
  <1>5. QED BY <1>2, <1>3, <1>4

LEMMA OrphansAreOwed ==
    ASSUME ServiceTypeOK, FaultsTypeOK, BudgetInv
    PROVE  IsFiniteSet(Orphans) /\ Cardinality(Orphans) <= faults
  <1>1. Orphans \subseteq Lost
    BY DEF Orphans, Lost, Kept, ServiceTypeOK
  <1>2. IsFiniteSet(Lost) /\ Cardinality(Lost) <= faults
    BY LostIsOwed
  <1>3. IsFiniteSet(Orphans) /\ Cardinality(Orphans) <= Cardinality(Lost)
    BY <1>1, <1>2, FS_Subset
  <1>4. PICK o \in Nat, n \in Nat, g \in Nat :
          o = Cardinality(Orphans) /\ n = Cardinality(Lost) /\ g = faults
    BY <1>2, <1>3, FS_CardinalityType DEF FaultsTypeOK
  <1>5. QED BY <1>2, <1>3, <1>4

(* However many workers there are, however often jobs are delivered, and   *)
(* whatever fails: an enrollment leaves vectors without an identity behind *)
(* only when a failure or a stop ended it, and none ends two.              *)
THEOREM OrphansAreBounded == Spec => []OrphansArePaid
  <1>1. Init => ByType /\ BudgetInv
    BY ByTypeInit, BudgetInit
  <1>2. PipelineInv /\ ByType /\ BudgetInv /\ [Next]_vars => ByType' /\ BudgetInv'
    BY ByTypeStep, BudgetStep
  <1>3. PipelineInv /\ BudgetInv => OrphansArePaid
    BY OrphansAreOwed
    DEF PipelineInv, TypeInv, WorkerTypeOK, SubmitTypeInv, SubmitTypeOK, OrphansArePaid
  <1>4. QED BY <1>1, <1>2, <1>3, Invariance, PTL DEF Spec
-----------------------------------------------------------------------------
\* To match exactly in face, name and demographics is to be the same person:
\* similarity 1 and equal hashes mean equal inputs.
Persons ==
    /\ \A t \in Txns : SamePerson(t, t)
    /\ \A t, u \in Txns : SamePerson(t, u) => SamePerson(u, t)
    /\ \A t, u, v \in Txns : SamePerson(t, u) /\ SamePerson(u, v) => SamePerson(t, v)

\* Inputs of different persons that match the one of t exactly under sim:
\* those who share a name, or who cannot be told apart by the face.
Lookalikes(sim, t, others) ==
    /\ others \subseteq Txns /\ \A u \in others : sim[t][u] = Highest
    /\ \A u, v \in others : u # v => ~SamePerson(u, v)

\* A shortlist has a place for each of them and for the leftovers of f failures.
RoomFor(f) ==
    \A t \in Txns : \A others :
        Lookalikes(FaceSim, t, others) \/ Lookalikes(NameSim, t, others) =>
            IsFiniteSet(others) /\ Cardinality(others) + f <= TopK

(* The first of two identities of a person was stored late, after the job  *)
(* that made it had failed.                                                *)
OneIdentityUnlessLate ==
    \A m, n \in identities :
        m < n /\ SamePerson(minted[m], minted[n]) => m \in lateIdentities

(* Stored identities of different persons are in nobody's way while there  *)
(* is room.                                                                *)
LEMMA RoomIsEnough ==
    ASSUME Persons, ServiceTypeOK, FaultsTypeOK, BudgetInv, OneIdentityUnlessLate,
           \A l \in Loops : LatestOf(l),
           NEW f \in Nat, faults <= f, NEW n \in 1..Len(minted),
           NEW points, points \subseteq facePoints \cup namePoints, NEW sim,
           \A others : Lookalikes(sim, minted[n], others) =>
               IsFiniteSet(others) /\ Cardinality(others) + f <= TopK
    PROVE  ~Crowds(points, sim, n)
  <1> DEFINE K == {k \in points : k < n /\ sim[minted[n]][minted[k]] = Highest}
             stored == {k \in Kept : sim[minted[n]][minted[k]] = Highest}
             makers == {minted[k] : k \in stored}
             g == [k \in stored |-> minted[k]]
  <1>a. /\ Len(minted) \in Nat /\ minted \in Seq(Txns) /\ Kept \subseteq 1..Len(minted)
        /\ facePoints \subseteq 1..Len(minted) /\ namePoints \subseteq 1..Len(minted)
    BY DEF ServiceTypeOK, Kept
  <1>1. K \subseteq stored \cup Lost
    <2> SUFFICES ASSUME NEW k \in K PROVE k \in stored \cup Lost
      OBVIOUS
    <2>1. k \in 1..Len(minted) /\ sim[minted[n]][minted[k]] = Highest /\ k # Len(minted)
      <3>1. PICK last \in Nat : last = Len(minted)
        BY <1>a
      <3>2. k \in 1..last /\ n \in 1..last /\ k < n
        BY <1>a, <3>1
      <3>3. k # last
        BY <3>2
      <3>4. QED BY <3>1, <3>2, <3>3
    <2>2. ~\E l \in Loops : call[l].step \in Enrolling /\ call[l].id = k
      BY <2>1 DEF LatestOf
    <2>3. QED BY <2>1, <2>2 DEF Lost
  <1>2. \A k \in Kept : minted[k] \in Txns
    BY <1>a
  <1>3. \A j, k \in stored : j # k => minted[j] # minted[k] /\ ~SamePerson(minted[j], minted[k])
    <2> SUFFICES ASSUME NEW j \in stored, NEW k \in stored, j # k, SamePerson(minted[j], minted[k])
                 PROVE  FALSE
      BY <1>2 DEF Persons
    <2>1. SamePerson(minted[k], minted[j])
      BY <1>2 DEF Persons
    <2>2. j < k \/ k < j
      BY <1>a
    <2>3. QED BY <2>1, <2>2 DEF OneIdentityUnlessLate, Kept
  <1>4. Lookalikes(sim, minted[n], makers)
    BY <1>2, <1>3 DEF Lookalikes
  <1>5. IsFiniteSet(makers) /\ Cardinality(makers) + f <= TopK
    BY <1>4
  <1>6. g \in Injection(stored, makers)
    BY <1>3 DEF Injection, IsInjective
  <1>7. IsFiniteSet(stored) /\ Cardinality(stored) <= Cardinality(makers)
    BY <1>5, <1>6, FS_Injection
  <1>8. IsFiniteSet(Lost) /\ Cardinality(Lost) <= faults
    BY LostIsOwed
  <1>9. /\ IsFiniteSet(stored \cup Lost)
        /\ Cardinality(stored \cup Lost)
             = Cardinality(stored) + Cardinality(Lost) - Cardinality(stored \cap Lost)
    BY <1>7, <1>8, FS_Union
  <1>10. IsFiniteSet(stored \cap Lost)
    BY <1>7, FS_Intersection
  <1>11. IsFiniteSet(K) /\ Cardinality(K) <= Cardinality(stored \cup Lost)
    BY <1>1, <1>9, FS_Subset
  <1>12. PICK k \in Nat, s \in Nat, o \in Nat, b \in Nat, u \in Nat, m \in Nat, c \in Nat, top \in Nat :
           /\ k = Cardinality(K) /\ s = Cardinality(stored) /\ o = Cardinality(Lost)
           /\ b = Cardinality(stored \cap Lost) /\ u = Cardinality(stored \cup Lost)
           /\ m = Cardinality(makers) /\ c = faults /\ top = TopK
    <2>1. /\ Cardinality(K) \in Nat /\ Cardinality(stored) \in Nat /\ Cardinality(Lost) \in Nat
          /\ Cardinality(stored \cap Lost) \in Nat /\ Cardinality(stored \cup Lost) \in Nat
          /\ Cardinality(makers) \in Nat
      BY <1>5, <1>7, <1>8, <1>9, <1>10, <1>11, FS_CardinalityType
    <2>2. faults \in Nat /\ TopK \in Nat
      BY ServiceAssumption DEF FaultsTypeOK
    <2>3. QED BY <2>1, <2>2
  <1>13. k <= u /\ u = s + o - b /\ s <= m /\ o <= c /\ c <= f /\ m + f <= top
    BY <1>5, <1>7, <1>8, <1>9, <1>11, <1>12
  <1>14. k <= top
    <2>1. u <= s + o /\ o <= f
      BY <1>13
    <2>2. k <= m + f
      BY <1>13, <2>1
    <2>3. QED BY <1>13, <2>2
  <1>15. QED BY <1>12, <1>14 DEF Crowds

LEMMA OnePersonStep ==
    ASSUME OneAtATime, Persons, PipelineInv, PipelineInv', BudgetInv, PersonInv, PersonInv',
           RoomFor(faults) => OneIdentityUnlessLate, [Next]_vars
    PROVE  (RoomFor(faults) => OneIdentityUnlessLate)'
  <1> SUFFICES ASSUME RoomFor(faults'), NEW m \in identities', NEW n \in identities', m < n,
                      SamePerson(minted'[m], minted'[n]), m \notin lateIdentities'
               PROVE  FALSE
    BY DEF OneIdentityUnlessLate, RoomFor
  <1>a. /\ ServiceTypeOK /\ FaultsTypeOK /\ ServiceTypeOK' /\ FaultsTypeOK' /\ ServiceInv
        /\ TypeInv /\ TypeInv'
    BY DEF PipelineInv, TypeInv, WorkerTypeOK, SubmitTypeInv, SubmitTypeOK
  <1>b. /\ Len(minted) \in Nat /\ minted \in Seq(Txns) /\ identities \subseteq 1..Len(minted)
    BY <1>a DEF ServiceTypeOK
  <1>1. faults <= faults' /\ faults' \in Nat
    <2>1. faults' \in {faults, faults + 1}
      BY <1>a, StepFaults
    <2>2. QED BY <1>a, <2>1 DEF FaultsTypeOK
  <1>2. RoomFor(faults)
    <2> SUFFICES ASSUME NEW t \in Txns, NEW others,
                        Lookalikes(FaceSim, t, others) \/ Lookalikes(NameSim, t, others)
                 PROVE  IsFiniteSet(others) /\ Cardinality(others) + faults <= TopK
      BY DEF RoomFor
    <2>1. IsFiniteSet(others) /\ Cardinality(others) + faults' <= TopK
      BY DEF RoomFor
    <2>2. PICK c \in Nat, f \in Nat, g \in Nat, top \in Nat :
            c = Cardinality(others) /\ f = faults /\ g = faults' /\ top = TopK
      BY <1>a, <1>1, <2>1, FS_CardinalityType, ServiceAssumption DEF FaultsTypeOK
    <2>3. c + f <= top
      BY <1>1, <2>1, <2>2
    <2>4. QED BY <2>1, <2>2, <2>3
  <1>3. OneIdentityUnlessLate
    BY <1>2
  <1>4. CASE /\ identities' = identities /\ lateIdentities \subseteq lateIdentities'
             /\ \A k \in 1..Len(minted) : minted'[k] = minted[k]
    BY <1>3, <1>4, <1>b DEF OneIdentityUnlessLate
  \* A write of metadata stores no vector: the later of the two was crowded out.
  <1>5. CASE UNCHANGED <<minted, facePoints, namePoints>>
    <2>1. n \in 1..Len(minted) /\ m \in 1..Len(minted) /\ minted[n] \in Txns /\ minted[m] \in Txns
      BY <1>a, <1>b, <1>5 DEF ServiceTypeOK
    <2>2. SamePerson(minted'[n], minted'[m])
      BY <1>5, <2>1 DEF Persons
    <2>3. CrowdedOut(n)'
      BY <1>5, <2>1, <2>2 DEF PersonInv, MintInv, Kept
    <2>4. Crowds(facePoints, FaceSim, n) \/ Crowds(namePoints, NameSim, n)
      BY <1>5, <2>3 DEF CrowdedOut, Crowds
    <2>5. \A k \in Loops : LatestOf(k)
      BY DEF PersonInv
    <2>6. ~Crowds(facePoints, FaceSim, n)
      BY <1>a, <1>1, <1>3, <2>1, <2>5, RoomIsEnough DEF RoomFor
    <2>7. ~Crowds(namePoints, NameSim, n)
      BY <1>a, <1>1, <1>3, <2>1, <2>5, RoomIsEnough DEF RoomFor
    <2>8. QED BY <2>4, <2>6, <2>7
  <1>6. CASE CallStep
    <2>1. PICK l \in Loops : Work(l)
      BY <1>6 DEF CallStep
    <2>2. CASE SaveIdentity(l)
      BY <1>5, <2>2 DEF SaveIdentity
    <2>3. CASE ~SaveIdentity(l)
      <3>1. UNCHANGED <<identities, lateIdentities>>
        BY <2>1, <2>3 DEF Work, Start, Embed, SearchFace, SearchName, Rank, Decide, UpsertFace, UpsertName,
                          Complete, Notify, Fail, FailAgain, stores
      <3>2. QED BY <1>a, <1>4, <2>1, <3>1, WorkGrows
    <2>4. QED BY <2>2, <2>3
  <1>7. CASE RestStep \/ ServerStep \/ RecordLands \/ UNCHANGED vars
    <2>1. UNCHANGED stores
      BY <1>7, OtherFrame DEF RestStep, ServerStep, RecordLands, workerVars, stores, vars, workVars
    <2>2. QED BY <1>4, <2>1 DEF stores
  <1>8. CASE StoreLands
    <2>1. UNCHANGED <<minted, lateIdentities>>
      BY <1>8, LandGrows DEF StoreLands
    <2>2. identities' = identities \/ UNCHANGED <<facePoints, namePoints>>
      BY <1>8 DEF StoreLands, Land, LandFace, LandName, LandIdentity
    <2>3. QED BY <1>4, <1>5, <2>1, <2>2
  <1>9. QED BY <1>6, <1>7, <1>8, StepCases

(* One worker that can read the metadata gives no person a second identity *)
(* until the leftovers of failures and those who share the face or the     *)
(* name fill a shortlist, however many others enroll and however often     *)
(* jobs are delivered, unless the metadata of the first was written only   *)
(* after its job had been failed.                                          *)
THEOREM OneIdentityWhileRoom ==
    ASSUME OneAtATime, Persons
    PROVE  Spec => [](RoomFor(faults) => OneIdentityUnlessLate)
  <1>1. Init => ByType /\ BudgetInv /\ PersonInv /\ OneIdentityUnlessLate
    BY ByTypeInit, BudgetInit, PersonInit DEF Init, WorkerInit, ServiceInit, OneIdentityUnlessLate
  <1>2. PipelineInv /\ ByType /\ BudgetInv /\ [Next]_vars => ByType' /\ BudgetInv'
    BY ByTypeStep, BudgetStep
  <1>3. PipelineInv /\ PipelineInv' /\ ByType /\ PersonInv /\ [Next]_vars => PersonInv'
    BY PersonStep
  <1>4. PipelineInv /\ PipelineInv' /\ BudgetInv /\ PersonInv /\ PersonInv'
          /\ (RoomFor(faults) => OneIdentityUnlessLate) /\ [Next]_vars
        => (RoomFor(faults) => OneIdentityUnlessLate)'
    BY OnePersonStep
  <1>5. QED BY <1>1, <1>2, <1>3, <1>4, Invariance, PTL DEF Spec

(* Room for all the failures there can be is room for those so far. *)
LEMMA RoomForAll ==
    ASSUME RoomFor(MaxFaults), FaultsTypeOK
    PROVE  RoomFor(faults)
  <1> SUFFICES ASSUME NEW t \in Txns, NEW others,
                      Lookalikes(FaceSim, t, others) \/ Lookalikes(NameSim, t, others)
               PROVE  IsFiniteSet(others) /\ Cardinality(others) + faults <= TopK
    BY DEF RoomFor
  <1>1. IsFiniteSet(others) /\ Cardinality(others) + MaxFaults <= TopK
    BY DEF RoomFor
  <1>2. PICK c \in Nat, f \in Nat, g \in Nat, top \in Nat :
          c = Cardinality(others) /\ f = faults /\ g = MaxFaults /\ top = TopK /\ f <= g
    BY <1>1, FS_CardinalityType, ServiceAssumption, FaultAssumption DEF FaultsTypeOK
  <1>3. c + f <= top
    BY <1>1, <1>2
  <1>4. QED BY <1>1, <1>2, <1>3

(* With room for all the failures there can be, and no metadata written    *)
(* after its job was failed, no person ever has two identities, however    *)
(* many others enroll, and whatever crashes, fails halfway or is delivered *)
(* again.                                                                  *)
THEOREM NoSecondIdentity ==
    ASSUME OneAtATime, Persons, RoomFor(MaxFaults), Prompt
    PROVE  Spec => []OneIdentityPerPerson
  <1>1. PipelineInv => RoomFor(faults)
    BY RoomForAll DEF PipelineInv, TypeInv, SubmitTypeInv, SubmitTypeOK
  <1>2. PipelineInv /\ NothingLate /\ OneIdentityUnlessLate => OneIdentityPerPerson
    <2> SUFFICES ASSUME PipelineInv, NothingLate, OneIdentityUnlessLate,
                        NEW m \in identities, NEW n \in identities, m # n, SamePerson(minted[m], minted[n])
                 PROVE  FALSE
      BY DEF OneIdentityPerPerson
    <2>1. minted \in Seq(Txns) /\ identities \subseteq 1..Len(minted)
      BY DEF PipelineInv, TypeInv, WorkerTypeOK, ServiceTypeOK
    <2>2. minted[m] \in Txns /\ minted[n] \in Txns
      BY <2>1
    <2>3. SamePerson(minted[n], minted[m])
      BY <2>2 DEF Persons
    <2>4. m < n \/ n < m
      BY <2>1
    <2>5. QED BY <2>3, <2>4 DEF NothingLate, OneIdentityUnlessLate
  <1>3. QED BY <1>1, <1>2, Invariance, PromptInvariance, OneIdentityWhileRoom, PTL

(* Then repeating an enrollment is not answered NEW_USER again, as         *)
(* working.md says: of two transactions about one person at most one is.   *)
THEOREM RepeatsAreRecognised ==
    ASSUME OneAtATime, Persons, RoomFor(MaxFaults), Prompt
    PROVE  Spec => []RepeatIsRecognised
  <1>1. PipelineInv /\ OneIdentityPerPerson => RepeatIsRecognised
    <2> SUFFICES ASSUME PipelineInv, OneIdentityPerPerson, NEW t \in Txns, NEW u \in Txns, t # u,
                        SamePerson(t, u), IsNewUser(t), IsNewUser(u)
                 PROVE  FALSE
      BY DEF RepeatIsRecognised
    <2>1. ASSUME NEW v \in Txns, IsNewUser(v)
          PROVE  status[v].result.id \in identities /\ minted[status[v].result.id] = v
      BY <2>1 DEF PipelineInv, ServiceInv, AnswersInv, Durable, IsNewUser
    <2>2. /\ status[t].result.id \in identities /\ minted[status[t].result.id] = t
          /\ status[u].result.id \in identities /\ minted[status[u].result.id] = u
      BY <2>1
    <2>3. QED BY <2>2 DEF OneIdentityPerPerson
  <1>2. QED BY <1>1, Invariance, NoSecondIdentity, PTL

\* The faces of different persons are not similar enough for any verdict.
FacesDiffer ==
    \A t, u \in Txns : ~SamePerson(t, u) =>
        /\ ~(FaceSim[t][u] >= FaceDupThreshold) /\ ~(FaceSim[t][u] >= FaceMatchThreshold)
        /\ ~(FaceSim[t][u] >= PartialFaceThreshold)

(* Then whatever is posted about a person, to whichever of the URLs of the *)
(* transactions about that person, names the one identity the person has.  *)
THEOREM CallbacksNameThePerson ==
    ASSUME OneAtATime, Persons, RoomFor(MaxFaults), Prompt, FacesDiffer, NameMatchThreshold > 0
    PROVE  Spec => []CallbacksNameOneIdentity
  <1>1. PipelineInv /\ SupportedInv /\ OneIdentityPerPerson => CallbacksNameOneIdentity
    <2> SUFFICES ASSUME PipelineInv, SupportedInv, OneIdentityPerPerson,
                        NEW t \in Txns, NEW u \in Txns, SamePerson(t, u),
                        NEW r \in told[t], NEW q \in told[u],
                        r.verdict # "NO_MATCH", q.verdict # "NO_MATCH"
                 PROVE  r.id = q.id
      BY DEF CallbacksNameOneIdentity
    <2>a. /\ minted \in Seq(Txns) /\ identities \subseteq 1..Len(minted)
          /\ told \in [Txns -> SUBSET Results]
      BY DEF PipelineInv, TypeInv, WorkerTypeOK, ServiceTypeOK
    <2>b. \A k \in identities : minted[k] \in Txns
      BY <2>a
    <2>1. ASSUME NEW v \in Txns, NEW x \in told[v], x.verdict # "NO_MATCH"
          PROVE  x.id \in identities /\ minted[x.id] \in Txns /\ SamePerson(v, minted[x.id])
      <3>1. x \in Results /\ Durable(v, x) /\ Supported(v, x)
        BY <2>a, <2>1 DEF PipelineInv, ServiceInv, AnswersInv, SupportedInv
      <3>2. x.verdict \in {"NEW_USER", "ALREADY_EXISTS", "POTENTIAL_FRAUD", "PARTIAL_MATCH", "MATCHED"}
        BY <2>1, <3>1 DEF Results, Verdicts
      <3>3. x.id # 0
        BY <3>1, <3>2 DEF Durable, Supported
      <3>4. x.id \in identities /\ minted[x.id] \in Txns
        <4>1. x.id \in identities
          BY <3>1, <3>3 DEF Durable
        <4>2. QED BY <2>b, <4>1
      <3>5. CASE x.verdict = "NEW_USER"
        BY <3>1, <3>4, <3>5 DEF Durable, Persons
      <3>6. CASE x.verdict # "NEW_USER"
        <4>1. \/ Face(v, x.id) >= FaceDupThreshold \/ Face(v, x.id) >= FaceMatchThreshold
              \/ Face(v, x.id) >= PartialFaceThreshold
          BY <3>1, <3>2, <3>6 DEF Supported, FullMatch, PartialMatch
        <4>2. QED BY <3>4, <4>1 DEF FacesDiffer, Face
      <3>7. QED BY <3>4, <3>5, <3>6
    <2>2. /\ r.id \in identities /\ minted[r.id] \in Txns /\ SamePerson(t, minted[r.id])
          /\ q.id \in identities /\ minted[q.id] \in Txns /\ SamePerson(u, minted[q.id])
      BY <2>1
    <2>3. SamePerson(minted[r.id], minted[q.id])
      <3>1. SamePerson(minted[r.id], t) /\ SamePerson(t, minted[q.id])
        BY <2>2 DEF Persons
      <3>2. QED BY <2>2, <3>1 DEF Persons
    <2>4. QED BY <2>2, <2>3 DEF OneIdentityPerPerson
  <1>2. Init => SupportedInv
    BY SupportedInit
  <1>3. PipelineInv /\ SupportedInv /\ [Next]_vars => SupportedInv'
    BY SupportedStep
  <1>4. QED BY <1>1, <1>2, <1>3, Invariance, NoSecondIdentity, PTL DEF Spec
=============================================================================
