---------------------------- MODULE PipelineProofs ----------------------------
(* Theorems about the whole pipeline, for any number of transactions,      *)
(* partitions and workers, any similarities and thresholds, and any        *)
(* failures.  The lemmas up to WorkGrows and WorkStatus say what a step of *)
(* a ProcessEnroll or ProcessVerify call does to the stores, the records   *)
(* and the other calls.                                                    *)
EXTENDS Pipeline, SubmissionProofs, SequenceTheorems

\* What holds of the calls and stores of the service: a call that makes an
\* identity has its id to itself and has stored the vectors it is past, and
\* every answer given or about to be given is durable.
CallInv(l) ==
    LET c == call[l] IN
    c # Idle =>
      /\ c.best \in identities \cup {0}
      /\ Durable(c.txn, c.result)
      /\ c.step \in {"complete", "notify"} => c.result \in Results
      /\ c.step \in Enrolling =>
           c.id \in 1..Len(minted) /\ minted[c.id] = c.txn /\ c.id \notin identities \cup lateIdentities
      /\ c.step \in {"upsertName", "saveIdentity"} => c.id \in facePoints
      /\ c.step = "saveIdentity" => c.id \in namePoints

OwnIds ==
    \A l, m \in Loops :
        l # m /\ call[l].step \in Enrolling /\ call[m].step \in Enrolling => call[l].id # call[m].id

AnswersInv ==
    \A t \in Txns : Durable(t, status[t].result) /\ \A result \in told[t] : Durable(t, result)

\* What may be written late: durable answers, and identities with their vectors.
LateInv ==
    /\ \A w \in late : Durable(w.txn, w.record.result)
    /\ lateIdentities \subseteq facePoints \cap namePoints

ServiceInv == (\A l \in Loops : CallInv(l)) /\ OwnIds /\ AnswersInv /\ IdentityHasVectors /\ LateInv

CallsType == call \in [Loops -> Calls \cup {Idle}]
-----------------------------------------------------------------------------
(* A loop that is at a step of the service is in a call. *)
LEMMA InCall ==
    ASSUME CallsType, NEW l \in Loops, NEW step \in Steps, At(l, step)
    PROVE  call[l] \in Calls /\ call[l] # Idle
  BY DEF CallsType, At, Idle, Steps

(* What Step and Set do to the calls. *)
LEMMA StepType ==
    ASSUME CallsType, NEW l \in Loops, call[l] \in Calls, NEW step \in Steps, Step(l, step)
    PROVE  /\ CallsType'
           /\ call'[l] = [call[l] EXCEPT !.step = step]
           /\ \A m \in Loops \ {l} : call'[m] = call[m]
  <1>1. call' = [call EXCEPT ![l] = [call[l] EXCEPT !.step = step]]
    BY DEF Step, CallsType
  <1>2. [call[l] EXCEPT !.step = step] \in Calls
    BY DEF Calls
  <1>3. QED BY <1>1, <1>2 DEF CallsType

LEMMA SetType ==
    ASSUME CallsType, NEW l \in Loops, NEW c \in Calls \cup {Idle}, Set(l, c)
    PROVE  /\ CallsType'
           /\ call'[l] = c
           /\ \A m \in Loops \ {l} : call'[m] = call[m]
  BY DEF Set, CallsType

(* Idle is no call, and has the step that no call has. *)
LEMMA IdleFact == Idle \notin Calls /\ Idle.step = "idle" /\ Idle.step \notin Steps
  BY DEF Idle, Calls, Steps

(* A shortlist is a sequence of points. *)
LEMMA ShortlistType ==
    ASSUME NEW points \in SUBSET (1..Len(minted)), Len(minted) \in Nat, NEW sim,
           NEW s \in Shortlists(points, sim)
    PROVE  s \in Seq(Nat)
  <1>1. IsFiniteSet(points)
    <2>1. IsFiniteSet(1..Len(minted))
      BY FS_Interval
    <2>2. QED BY <2>1, FS_Subset
  <1>2. PICK size \in Nat : s \in [1..size -> points]
    BY <1>1, FS_CardinalityType, ServiceAssumption DEF Shortlists
  <1>3. s \in [1..size -> Nat]
    <2>1. \A n \in points : n \in Nat
      OBVIOUS
    <2>2. \A a \in 1..size : s[a] \in Nat
      BY <1>2, <2>1
    <2>3. QED BY <1>2, <2>2
  <1> DEFINE copy == SubSeq(s, 1, size)
  <1>4. /\ copy \in Seq(Nat) /\ Len(copy) = size
        /\ \A a \in 1..size : copy[a] = s[a]
    <2>1. size \in Int /\ \A a \in 1..size : s[a] \in Nat
      BY <1>2, <1>3
    <2>2. /\ copy \in Seq(Nat) /\ Len(copy) = IF 1 <= size THEN size - 1 + 1 ELSE 0
          /\ \A a \in 1..size - 1 + 1 : copy[a] = s[1 + a - 1]
      BY <2>1, SubSeqProperties
    <2>3. QED BY <1>2, <2>2
  <1>5. copy \in [1..size -> Nat]
    BY <1>4, LenProperties
  <1>6. copy = s
    BY <1>3, <1>4, <1>5
  <1>7. QED BY <1>4, <1>6

(* A verdict on a candidate is a verdict, and never NEW_USER. *)
LEMMA VerdictType ==
    ASSUME NEW t \in Txns, NEW n, NEW names
    PROVE  Verdict(t, n, names) \in Verdicts \ {"NEW_USER"}
  <1>1. \A s, d : DuplicateVerdict(s, d) \in Verdicts \ {"NEW_USER"}
    BY DEF DuplicateVerdict, Verdicts
  <1>2. \A live, f, s, d : VerifyVerdict(TRUE, live, f, s, d) \in Verdicts \ {"NEW_USER"}
    BY DEF VerifyVerdict, Verdicts
  <1>3. QED BY <1>1, <1>2 DEF Verdict
-----------------------------------------------------------------------------
(* Every step of a call keeps the types of the service's state. *)
LEMMA WorkType ==
    ASSUME ServiceTypeOK, StatusTypeOK, FaultsTypeOK, ServiceInv, NEW l \in Loops, Work(l)
    PROVE  ServiceTypeOK' /\ StatusTypeOK' /\ FaultsTypeOK'
  <1> DEFINE c == call[l]
  <1>a. CallsType
    BY DEF ServiceTypeOK, CallsType
  <1>i. CallInv(l)
    BY DEF ServiceInv
  <1>b. \A state \in States : Plain(state) \in Records
    BY PlainRecord
  <1>f. ASSUME NoFault \/ \E kind : Fault(kind) PROVE FaultsTypeOK'
    BY <1>f, FaultType
  <1>g. ASSUME CallSucceeds(l) \/ \E kind : CallFails(l, kind) PROVE FaultsTypeOK'
    BY <1>g, <1>f DEF CallSucceeds, CallFails
  <1>q. ASSUME c.txn \in Txns, NEW r \in Records, SaveStatusQuietly(c.txn, r)
        PROVE  StatusTypeOK' /\ FaultsTypeOK'
    BY <1>q, QuietType
  <1>u. ASSUME UNCHANGED <<stores, worker, told>>, CallsType' PROVE ServiceTypeOK'
    BY <1>u DEF stores, ServiceTypeOK, CallsType
  <1>s. ASSUME UNCHANGED <<status, late>> PROVE StatusTypeOK'
    BY <1>s DEF StatusTypeOK
  <1>1. CASE Start(l)
    <2>1. c \in Calls  BY <1>1, <1>a, InCall DEF Start, Steps
    <2>2. c.txn \in Txns  BY <2>1 DEF Calls
    <2>3. CallsType'  BY <1>1, <1>a, <2>1, StepType DEF Start, Steps
    <2>4. StatusTypeOK' /\ FaultsTypeOK'  BY <1>1, <1>b, <1>q, <2>2 DEF Start, Txn, States
    <2>5. QED BY <1>1, <1>u, <2>3, <2>4 DEF Start
  <1>2. CASE Embed(l)
    <2>1. c \in Calls  BY <1>2, <1>a, InCall DEF Embed, Steps
    <2>2. CallsType'  BY <1>2, <1>a, <2>1, StepType DEF Embed, Steps
    <2>3. QED BY <1>2, <1>g, <1>s, <1>u, <2>2 DEF Embed
  <1>3. CASE SearchFace(l)
    <2>1. c \in Calls  BY <1>3, <1>a, InCall DEF SearchFace, Steps
    <2>2. ASSUME NEW s \in Shortlists(facePoints, FaceSim[Txn(l)])
          PROVE  [c EXCEPT !.faces = s, !.step = "searchName"] \in Calls
      <3>1. s \in Seq(Nat)  BY <2>2, ShortlistType DEF ServiceTypeOK
      <3>2. QED BY <2>1, <3>1 DEF Calls, Steps
    <2>3. CallsType'  BY <1>3, <1>a, <2>1, <2>2, StepType, SetType DEF SearchFace, Steps
    <2>4. QED BY <1>3, <1>g, <1>s, <1>u, <2>3 DEF SearchFace
  <1>4. CASE SearchName(l)
    <2>1. c \in Calls  BY <1>4, <1>a, InCall DEF SearchName, Steps
    <2>2. ASSUME NEW s \in Shortlists(namePoints, NameSim[Txn(l)])
          PROVE  [c EXCEPT !.names = Entries(s), !.step = "rank"] \in Calls
      <3>1. s \in Seq(Nat)  BY <2>2, ShortlistType DEF ServiceTypeOK
      <3>2. Entries(s) \subseteq Nat  BY <3>1 DEF Entries
      <3>3. QED BY <2>1, <3>2 DEF Calls, Steps
    <2>3. CallsType'  BY <1>4, <1>a, <2>1, <2>2, StepType, SetType DEF SearchName, Steps
    <2>4. QED BY <1>4, <1>g, <1>s, <1>u, <2>3 DEF SearchName
  <1>5. CASE Rank(l)
    <2>1. c \in Calls  BY <1>5, <1>a, InCall DEF Rank, Steps
    <2>2. c.faces \in Seq(Nat) /\ c.faces # <<>>
      BY <1>5, <2>1 DEF Rank, Calls
    <2>3. Head(c.faces) \in Nat /\ Tail(c.faces) \in Seq(Nat)
      BY <2>2, HeadTailProperties
    <2>4. [c EXCEPT !.faces = Tail(@)] \in Calls
      BY <2>1, <2>3 DEF Calls
    <2>5. [[c EXCEPT !.faces = Tail(@)] EXCEPT !.best = Head(c.faces)] \in Calls
      BY <2>3, <2>4 DEF Calls
    <2>6. CallsType'  BY <1>5, <1>a, <2>4, <2>5, SetType DEF Rank
    <2>7. QED BY <1>5, <1>f, <1>s, <1>u, <2>6 DEF Rank
  <1>6. CASE Decide(l)
    <2>1. c \in Calls /\ c.txn \in Txns /\ c.best \in Nat
      BY <1>6, <1>a, InCall DEF Decide, Steps, Calls
    <2>2. minted \in Seq(Txns) /\ Len(minted) \in Nat
      BY DEF ServiceTypeOK
    <2>3. \/ minted' = Append(minted, c.txn)
          \/ minted' = minted
      BY <1>6 DEF Decide
    <2>4. minted' \in Seq(Txns) /\ 1..Len(minted) \subseteq 1..Len(minted')
      BY <2>1, <2>2, <2>3
    <2>5. [c EXCEPT !.id = NewId, !.step = "upsertFace"] \in Calls
      <3>1. NewId \in Nat  BY <2>2 DEF NewId
      <3>2. QED BY <2>1, <3>1 DEF Calls, Steps
    <2>6. ASSUME NEW v \in Verdicts
          PROVE  [c EXCEPT !.result = [verdict |-> v, id |-> c.best], !.step = "complete"] \in Calls
      BY <2>1 DEF Calls, Steps, Results
    <2>7. (IF c.best = 0 THEN "NO_MATCH" ELSE Verdict(c.txn, c.best, c.names)) \in Verdicts
      BY <2>1, VerdictType DEF Verdicts
    <2>8. CallsType'
      BY <1>6, <1>a, <2>5, <2>6, <2>7, SetType DEF Decide
    <2>9. ServiceTypeOK'
      BY <1>6, <2>4, <2>8 DEF Decide, ServiceTypeOK, CallsType
    <2>10. QED BY <1>6, <1>f, <1>s, <2>9 DEF Decide
  <1>7. CASE UpsertFace(l)
    <2>1. c \in Calls  BY <1>7, <1>a, InCall DEF UpsertFace, Steps
    <2>2. CallsType'  BY <1>7, <1>a, <2>1, StepType DEF UpsertFace, Steps
    <2>3. facePoints' \subseteq 1..Len(minted)' /\ lateFaces' \subseteq 1..Len(minted)'
      BY <1>7, <1>i, <2>1, IdleFact DEF UpsertFace, ServiceTypeOK, At, CallInv, Enrolling
    <2>4. ServiceTypeOK'
      BY <1>7, <2>2, <2>3 DEF UpsertFace, ServiceTypeOK, CallsType
    <2>5. QED BY <1>7, <1>g, <1>s, <2>4 DEF UpsertFace, UpsertIsLate
  <1>8. CASE UpsertName(l)
    <2>1. c \in Calls  BY <1>8, <1>a, InCall DEF UpsertName, Steps
    <2>2. CallsType'  BY <1>8, <1>a, <2>1, StepType DEF UpsertName, Steps
    <2>3. namePoints' \subseteq 1..Len(minted)' /\ lateNames' \subseteq 1..Len(minted)'
      BY <1>8, <1>i, <2>1, IdleFact DEF UpsertName, ServiceTypeOK, At, CallInv, Enrolling
    <2>4. ServiceTypeOK'
      BY <1>8, <2>2, <2>3 DEF UpsertName, ServiceTypeOK, CallsType
    <2>5. QED BY <1>8, <1>g, <1>s, <2>4 DEF UpsertName, UpsertIsLate
  <1>9. CASE SaveIdentity(l)
    <2>1. c \in Calls /\ c.id \in Nat
      BY <1>9, <1>a, InCall DEF SaveIdentity, Steps, Calls
    <2>2. [c EXCEPT !.result = [verdict |-> "NEW_USER", id |-> c.id], !.step = "complete"] \in Calls
      BY <2>1 DEF Calls, Steps, Results, Verdicts
    <2>3. CallsType'
      BY <1>9, <1>a, <2>1, <2>2, StepType, SetType DEF SaveIdentity, Steps
    <2>4. identities' \subseteq 1..Len(minted)' /\ lateIdentities' \subseteq 1..Len(minted)'
      BY <1>9, <1>i, <2>1, IdleFact DEF SaveIdentity, ServiceTypeOK, At, CallInv, Enrolling
    <2>5. ServiceTypeOK'
      BY <1>9, <2>3, <2>4 DEF SaveIdentity, ServiceTypeOK, CallsType
    <2>6. QED BY <1>9, <1>f, <1>s, <2>5 DEF SaveIdentity
  <1>10. CASE Complete(l)
    <2>1. c \in Calls /\ c.txn \in Txns
      BY <1>10, <1>a, InCall DEF Complete, Steps, Calls
    <2>2. Completed(c.result) \in Records
      BY <2>1 DEF Completed, Records, Calls, States
    <2>3. CallsType'  BY <1>10, <1>a, <2>1, StepType DEF Complete, Steps
    <2>4. StatusTypeOK' /\ FaultsTypeOK'  BY <1>10, <1>q, <2>1, <2>2 DEF Complete, Txn
    <2>5. QED BY <1>10, <1>u, <2>3, <2>4 DEF Complete
  <1>11. CASE Notify(l)
    <2>1. c \in Calls /\ c.txn \in Txns
      BY <1>11, <1>a, InCall DEF Notify, Steps, Calls
    <2>2. CallsType'  BY <1>11, <1>a, SetType DEF Notify
    <2>3. told' \in [Txns -> SUBSET Results]
      BY <1>11, <1>i, <2>1, IdleFact DEF Notify, Txn, ServiceTypeOK, At, CallInv
    <2>4. ServiceTypeOK'
      BY <1>11, <2>2, <2>3 DEF Notify, stores, ServiceTypeOK, CallsType
    <2>5. QED BY <1>11, <1>g, <1>s, <2>4 DEF Notify
  <1>12. CASE Fail(l)
    <2>1. c \in Calls /\ c.txn \in Txns
      BY <1>12, <1>a, InCall DEF Fail, Steps, Calls
    <2>2. CallsType'  BY <1>12, <1>a, <2>1, StepType DEF Fail, Steps
    <2>3. StatusTypeOK' /\ FaultsTypeOK'  BY <1>12, <1>b, <1>q, <2>1 DEF Fail, Txn, States
    <2>4. QED BY <1>12, <1>u, <2>2, <2>3 DEF Fail
  <1>13. CASE FailAgain(l)
    <2>1. c.txn \in Txns
      BY <1>13, <1>a, InCall DEF FailAgain, Steps, Calls
    <2>2. CallsType'  BY <1>13, <1>a, SetType DEF FailAgain
    <2>3. StatusTypeOK' /\ FaultsTypeOK'  BY <1>13, <1>b, <1>q, <2>1 DEF FailAgain, Txn, States
    <2>4. QED BY <1>13, <1>u, <2>2, <2>3 DEF FailAgain
  <1>14. QED
    BY <1>1, <1>2, <1>3, <1>4, <1>5, <1>6, <1>7, <1>8, <1>9, <1>10, <1>11, <1>12, <1>13 DEF Work
-----------------------------------------------------------------------------
(* A step of a call only adds to the stores, changes no other call, and    *)
(* adds no identity but its own, when it saves it, be it late.             *)
LEMMA WorkGrows ==
    ASSUME ServiceTypeOK, NEW l \in Loops, Work(l)
    PROVE  /\ facePoints \subseteq facePoints' /\ namePoints \subseteq namePoints'
           /\ identities \subseteq identities' /\ lateIdentities \subseteq lateIdentities'
           /\ \/ identities' = identities
              \/ call[l].step = "saveIdentity" /\ identities' = identities \cup {call[l].id}
           /\ \/ lateIdentities' = lateIdentities
              \/ call[l].step = "saveIdentity" /\ lateIdentities' = lateIdentities \cup {call[l].id}
           /\ Len(minted) \in Nat /\ Len(minted') \in Nat
           /\ \A n \in 1..Len(minted) : n \in 1..Len(minted') /\ minted'[n] = minted[n]
           /\ \A m \in Loops \ {l} : call'[m] = call[m]
  <1>1. Len(minted) \in Nat /\ minted \in Seq(Txns) /\ CallsType
    BY DEF ServiceTypeOK, CallsType
  <1>2. minted' = minted \/ (call[l].txn \in Txns /\ minted' = Append(minted, call[l].txn))
    <2>1. CASE Decide(l)
      BY <1>1, <2>1, InCall DEF Decide, Calls, Steps
    <2>2. QED
      BY <2>1 DEF Work, Start, Embed, SearchFace, SearchName, Rank, UpsertFace, UpsertName, SaveIdentity,
                  Complete, Notify, Fail, FailAgain, stores
  <1>3. Len(minted') \in Nat /\ \A n \in 1..Len(minted) : n \in 1..Len(minted') /\ minted'[n] = minted[n]
    BY <1>1, <1>2
  <1>4. /\ facePoints \subseteq facePoints' /\ namePoints \subseteq namePoints'
        /\ \/ identities' = identities
           \/ call[l].step = "saveIdentity" /\ identities' = identities \cup {call[l].id}
        /\ \/ lateIdentities' = lateIdentities
           \/ call[l].step = "saveIdentity" /\ lateIdentities' = lateIdentities \cup {call[l].id}
    BY DEF Work, Start, Embed, SearchFace, SearchName, Rank, Decide, UpsertFace, UpsertName, SaveIdentity,
           Complete, Notify, Fail, FailAgain, stores, At
  <1>5. \A m \in Loops \ {l} : call'[m] = call[m]
    BY <1>1 DEF CallsType, Work, Start, Embed, SearchFace, SearchName, Rank, Decide, UpsertFace,
                UpsertName, SaveIdentity, Complete, Notify, Fail, FailAgain, Set, Step
  <1>6. QED BY <1>1, <1>3, <1>4, <1>5

(* What is durable stays durable. *)
LEMMA DurableGrows ==
    ASSUME identities \subseteq 1..Len(minted), identities \subseteq identities',
           \A n \in 1..Len(minted) : minted'[n] = minted[n]
    PROVE  \A t, result : Durable(t, result) =>
             /\ result.id # 0 => result.id \in identities'
             /\ result.verdict = "NEW_USER" => result.id # 0 /\ minted'[result.id] = t
  BY DEF Durable

(* The other calls keep what they rely on, and their ids. *)
LEMMA OtherCalls ==
    ASSUME ServiceTypeOK, ServiceInv, NEW l \in Loops, Work(l), NEW m \in Loops \ {l}
    PROVE  CallInv(m)'
  <1> DEFINE c == call[m]
  <1>1. /\ facePoints \subseteq facePoints' /\ namePoints \subseteq namePoints'
        /\ identities \subseteq identities' /\ identities \subseteq 1..Len(minted)
        /\ \A n \in 1..Len(minted) : n \in 1..Len(minted') /\ minted'[n] = minted[n]
        /\ call'[m] = c
    BY WorkGrows DEF ServiceTypeOK
  <1>2. ASSUME c # Idle, c.step \in Enrolling PROVE c.id \notin identities' \cup lateIdentities'
    <2>1. c.id \notin identities \cup lateIdentities  BY <1>2 DEF ServiceInv, CallInv
    <2>2. CASE identities' = identities /\ lateIdentities' = lateIdentities  BY <2>1, <2>2
    <2>3. CASE call[l].step = "saveIdentity"
      <3>1. call[l].id # c.id
        BY <1>2, <2>3 DEF ServiceInv, OwnIds, Enrolling
      <3>2. QED BY <2>1, <3>1, WorkGrows
    <2>4. QED BY <2>2, <2>3, WorkGrows
  <1>3. c # Idle => /\ c.result.id # 0 => c.result.id \in identities'
                    /\ c.result.verdict = "NEW_USER" => c.result.id # 0 /\ minted'[c.result.id] = c.txn
    BY <1>1, DurableGrows DEF ServiceInv, CallInv
  <1>4. CallInv(m)
    BY DEF ServiceInv
  <1>5. QED BY <1>1, <1>2, <1>3, <1>4 DEF CallInv, Durable

(* How a step of a call leaves that call: what it knows grows along with   *)
(* the stores it writes.  An id once taken is the call's own.              *)
LEMMA OwnCall ==
    ASSUME ServiceTypeOK, ServiceInv, NEW l \in Loops, Work(l)
    PROVE  /\ CallInv(l)'
           /\ call'[l].step \in Enrolling =>
                \/ call[l].step \in Enrolling /\ call'[l].id = call[l].id
                \/ call'[l].id = Len(minted) + 1
  <1> DEFINE c == call[l]
  <1>a. CallsType
    BY DEF ServiceTypeOK, CallsType
  <1>c. /\ facePoints \subseteq facePoints' /\ namePoints \subseteq namePoints'
        /\ identities \subseteq identities' /\ identities \subseteq 1..Len(minted)
        /\ lateIdentities \subseteq 1..Len(minted)
        /\ \A n \in 1..Len(minted) : n \in 1..Len(minted') /\ minted'[n] = minted[n]
        /\ Len(minted) \in Nat
    BY WorkGrows DEF ServiceTypeOK
  <1>d. \A t, result : Durable(t, result) =>
             /\ result.id # 0 => result.id \in identities'
             /\ result.verdict = "NEW_USER" => result.id # 0 /\ minted'[result.id] = t
    BY <1>c, DurableGrows
  <1>i. CallInv(l)
    BY DEF ServiceInv
  \* A call that goes to a step where nothing more is asked of it.
  <1>s. ASSUME NEW step \in Steps \ (Enrolling \cup {"complete"}), c \in Calls,
               call'[l].step = step, call'[l].best = c.best, call'[l].txn = c.txn,
               call'[l].result = c.result, step = "notify" => c.result \in Results
        PROVE  CallInv(l)' /\ call'[l].step \notin Enrolling
    <2>1. c # Idle /\ call'[l].step \notin Enrolling /\ call'[l].step \notin {"upsertName", "saveIdentity", "complete"}
      BY <1>s, IdleFact DEF Enrolling
    <2>2. call'[l].best \in identities' \cup {0}
      BY <1>s, <2>1, <1>i, <1>c DEF CallInv
    <2>3. Durable(call[l].txn, call[l].result)'
      BY <1>s, <2>1, <1>i, <1>d DEF CallInv, Durable
    <2>4. QED BY <1>s, <2>1, <2>2, <2>3 DEF CallInv
  <1>1. CASE Start(l)
    <2>1. c \in Calls  BY <1>1, <1>a, InCall DEF Start, Steps
    <2>2. call'[l] = [c EXCEPT !.step = "embed"]
      BY <1>1, <1>a, <2>1, StepType DEF Start, Steps
    <2>3. QED BY <1>s, <2>1, <2>2 DEF Calls, Steps, Enrolling
  <1>2. CASE Embed(l)
    <2>1. c \in Calls  BY <1>2, <1>a, InCall DEF Embed, Steps
    <2>2. call'[l] = [c EXCEPT !.step = "searchFace"] \/ call'[l] = [c EXCEPT !.step = "fail"]
      BY <1>2, <1>a, <2>1, StepType DEF Embed, Steps
    <2>3. QED BY <1>s, <2>1, <2>2 DEF Calls, Steps, Enrolling
  <1>3. CASE SearchFace(l)
    <2>1. c \in Calls  BY <1>3, <1>a, InCall DEF SearchFace, Steps
    <2>2. \/ \E x : call'[l] = [c EXCEPT !.faces = x, !.step = "searchName"]
          \/ call'[l] = [c EXCEPT !.step = "fail"]
      <3>1. ASSUME NEW s, Set(l, [c EXCEPT !.faces = s, !.step = "searchName"])
            PROVE  call'[l] = [c EXCEPT !.faces = s, !.step = "searchName"]
        BY <3>1, <1>a DEF Set, CallsType
      <3>2. ASSUME Step(l, "fail") PROVE call'[l] = [c EXCEPT !.step = "fail"]
        BY <3>2, <1>a, <2>1, StepType DEF Steps
      <3>3. QED BY <1>3, <3>1, <3>2 DEF SearchFace
    <2>3. QED BY <1>s, <2>1, <2>2 DEF Calls, Steps, Enrolling
  <1>4. CASE SearchName(l)
    <2>1. c \in Calls  BY <1>4, <1>a, InCall DEF SearchName, Steps
    <2>2. \/ \E x : call'[l] = [c EXCEPT !.names = x, !.step = "rank"]
          \/ call'[l] = [c EXCEPT !.step = "fail"]
      <3>1. ASSUME NEW s, Set(l, [c EXCEPT !.names = Entries(s), !.step = "rank"])
            PROVE  \E x : call'[l] = [c EXCEPT !.names = x, !.step = "rank"]
        BY <3>1, <1>a DEF Set, CallsType
      <3>2. ASSUME Step(l, "fail") PROVE call'[l] = [c EXCEPT !.step = "fail"]
        BY <3>2, <1>a, <2>1, StepType DEF Steps
      <3>3. QED BY <1>4, <3>1, <3>2 DEF SearchName
    <2>3. QED BY <1>s, <2>1, <2>2 DEF Calls, Steps, Enrolling
  <1>5. CASE Rank(l)
    <2>1. c \in Calls /\ c.step = "rank"
      BY <1>5, <1>a, InCall DEF Rank, Steps, At
    <2>2. \/ call'[l] = [c EXCEPT !.faces = Tail(@)]
          \/ /\ Head(c.faces) \in identities
             /\ call'[l] = [[c EXCEPT !.faces = Tail(@)] EXCEPT !.best = Head(c.faces)]
      BY <1>5, <1>a DEF Rank, Set, CallsType
    <2>3. /\ call'[l].step = "rank" /\ call'[l].txn = c.txn /\ call'[l].result = c.result
          /\ call'[l].best \in identities \cup {0}
      BY <2>1, <2>2, <1>i, IdleFact DEF Calls, CallInv
    <2>4. minted' = minted /\ identities' = identities
      BY <1>5 DEF Rank, stores
    <2>5. Durable(c.txn, c.result)
      BY <2>1, <1>i, IdleFact DEF CallInv
    <2>6. Durable(call[l].txn, call[l].result)'
      BY <2>3, <2>4, <2>5 DEF Durable
    <2>7. CallInv(l)'
      BY <2>3, <2>4, <2>6 DEF CallInv, Enrolling
    <2>8. QED BY <2>3, <2>7 DEF Enrolling
  <1>6. CASE Decide(l)
    <2>1. c \in Calls /\ c.txn \in Txns
      BY <1>6, <1>a, InCall DEF Decide, Steps, Calls
    <2>2. CASE /\ minted' = Append(minted, c.txn) /\ UNCHANGED <<identities, lateIdentities>>
               /\ Set(l, [c EXCEPT !.id = NewId, !.step = "upsertFace"])
      <3>1. call'[l] = [c EXCEPT !.id = NewId, !.step = "upsertFace"]
        BY <2>2, <1>a DEF Set, CallsType
      <3>2. NewId \in 1..Len(minted') /\ minted'[NewId] = c.txn /\ NewId \notin identities \cup lateIdentities
        BY <2>1, <2>2, <1>c DEF ServiceTypeOK, NewId
      <3>3. /\ call'[l].step = "upsertFace" /\ call'[l].id = NewId /\ call'[l].txn = c.txn
            /\ call'[l].result = c.result /\ call'[l].best = c.best
        BY <3>1, <2>1 DEF Calls
      <3>4. CallInv(l)'
        BY <3>2, <3>3, <2>1, <2>2, <1>i, <1>c, <1>d, IdleFact DEF CallInv, Durable, Enrolling
      <3>5. QED BY <3>3, <3>4 DEF NewId
    <2>3. CASE \E v \in Verdicts \ {"NEW_USER"} :
                 call'[l] = [c EXCEPT !.result = [verdict |-> v, id |-> c.best], !.step = "complete"]
      <3>1. PICK v \in Verdicts \ {"NEW_USER"} :
                 call'[l] = [c EXCEPT !.result = [verdict |-> v, id |-> c.best], !.step = "complete"]
        BY <2>3
      <3>2. /\ call'[l].step = "complete" /\ call'[l].txn = c.txn /\ call'[l].best = c.best
            /\ call'[l].result = [verdict |-> v, id |-> c.best]
        BY <3>1, <2>1 DEF Calls
      <3>3. c.best \in identities \cup {0} /\ c.best \in Nat
        BY <2>1, <1>i, IdleFact DEF CallInv, Calls
      <3>4. QED BY <3>2, <3>3, <1>c DEF CallInv, Durable, Enrolling, Results
    <2>4. (IF c.best = 0 THEN "NO_MATCH" ELSE Verdict(c.txn, c.best, c.names)) \in Verdicts \ {"NEW_USER"}
      BY <2>1, VerdictType DEF Verdicts
    <2>5. QED BY <1>6, <1>a, <2>2, <2>3, <2>4 DEF Decide, Set, CallsType
  <1>7. CASE UpsertFace(l)
    <2>1. c \in Calls /\ c.step = "upsertFace"
      BY <1>7, <1>a, InCall DEF UpsertFace, Steps, At
    <2>2. \/ call'[l] = [c EXCEPT !.step = "upsertName"] /\ c.id \in facePoints'
          \/ call'[l] = [c EXCEPT !.step = "fail"]
      BY <1>7, <1>a, <2>1, StepType DEF UpsertFace, Steps
    <2>3. CASE call'[l] = [c EXCEPT !.step = "upsertName"] /\ c.id \in facePoints'
      <3>1. /\ call'[l].step = "upsertName" /\ call'[l].id = c.id /\ call'[l].txn = c.txn
            /\ call'[l].result = c.result /\ call'[l].best = c.best
        BY <2>1, <2>3 DEF Calls
      <3>2. UNCHANGED <<identities, lateIdentities>>
        BY <1>7 DEF UpsertFace
      <3>3. QED BY <3>1, <3>2, <2>1, <2>3, <1>i, <1>c, <1>d, IdleFact DEF CallInv, Durable, Enrolling
    <2>4. CASE call'[l] = [c EXCEPT !.step = "fail"]
      BY <1>s, <2>1, <2>4 DEF Calls, Steps, Enrolling
    <2>5. QED BY <2>2, <2>3, <2>4
  <1>8. CASE UpsertName(l)
    <2>1. c \in Calls /\ c.step = "upsertName"
      BY <1>8, <1>a, InCall DEF UpsertName, Steps, At
    <2>2. \/ call'[l] = [c EXCEPT !.step = "saveIdentity"] /\ c.id \in namePoints'
          \/ call'[l] = [c EXCEPT !.step = "fail"]
      BY <1>8, <1>a, <2>1, StepType DEF UpsertName, Steps
    <2>3. CASE call'[l] = [c EXCEPT !.step = "saveIdentity"] /\ c.id \in namePoints'
      <3>1. /\ call'[l].step = "saveIdentity" /\ call'[l].id = c.id /\ call'[l].txn = c.txn
            /\ call'[l].result = c.result /\ call'[l].best = c.best
        BY <2>1, <2>3 DEF Calls
      <3>2. UNCHANGED <<identities, lateIdentities>>
        BY <1>8 DEF UpsertName
      <3>3. QED BY <3>1, <3>2, <2>1, <2>3, <1>i, <1>c, <1>d, IdleFact DEF CallInv, Durable, Enrolling
    <2>4. CASE call'[l] = [c EXCEPT !.step = "fail"]
      BY <1>s, <2>1, <2>4 DEF Calls, Steps, Enrolling
    <2>5. QED BY <2>2, <2>3, <2>4
  <1>9. CASE SaveIdentity(l)
    <2>1. c \in Calls /\ c.step = "saveIdentity" /\ c.id \in Nat
      BY <1>9, <1>a, InCall DEF SaveIdentity, Steps, At, Calls
    <2>2. \/ /\ call'[l] = [c EXCEPT !.result = [verdict |-> "NEW_USER", id |-> c.id], !.step = "complete"]
             /\ c.id \in identities'
          \/ call'[l] = [c EXCEPT !.step = "fail"]
      BY <1>9, <1>a, <2>1, StepType DEF SaveIdentity, Steps, Set, CallsType
    <2>3. CASE /\ call'[l] = [c EXCEPT !.result = [verdict |-> "NEW_USER", id |-> c.id], !.step = "complete"]
               /\ c.id \in identities'
      <3>1. /\ call'[l].step = "complete" /\ call'[l].txn = c.txn /\ call'[l].best = c.best
            /\ call'[l].result = [verdict |-> "NEW_USER", id |-> c.id]
        BY <2>1, <2>3 DEF Calls
      <3>2. c.id \in 1..Len(minted) /\ minted[c.id] = c.txn
        BY <2>1, <1>i, IdleFact DEF CallInv, Enrolling
      <3>3. [verdict |-> "NEW_USER", id |-> c.id] \in Results
        BY <2>1 DEF Results, Verdicts
      <3>4. c.best \in identities \cup {0}
        BY <2>1, <1>i, IdleFact DEF CallInv
      <3>5. QED BY <3>1, <3>2, <3>3, <3>4, <2>3, <1>c DEF CallInv, Durable, Enrolling
    <2>4. CASE call'[l] = [c EXCEPT !.step = "fail"]
      BY <1>s, <2>1, <2>4 DEF Calls, Steps, Enrolling
    <2>5. QED BY <2>2, <2>3, <2>4
  <1>10. CASE Complete(l)
    <2>1. c \in Calls /\ c.step = "complete"
      BY <1>10, <1>a, InCall DEF Complete, Steps, At
    <2>2. call'[l] = [c EXCEPT !.step = "notify"] /\ c.result \in Results
      BY <1>10, <1>a, <1>i, <2>1, StepType, IdleFact DEF Complete, Steps, CallInv
    <2>3. QED BY <1>s, <2>1, <2>2 DEF Calls, Steps, Enrolling
  <1>11. CASE Notify(l) \/ FailAgain(l)
    <2>1. call'[l] = Idle
      BY <1>11, <1>a DEF Notify, FailAgain, Set, CallsType
    <2>2. QED BY <2>1, IdleFact DEF CallInv, Enrolling, Idle
  <1>12. CASE Fail(l)
    <2>1. c \in Calls  BY <1>12, <1>a, InCall DEF Fail, Steps
    <2>2. call'[l] = [c EXCEPT !.step = "failAgain"]
      BY <1>12, <1>a, <2>1, StepType DEF Fail, Steps
    <2>3. QED BY <1>s, <2>1, <2>2 DEF Calls, Steps, Enrolling
  <1>13. QED
    BY <1>1, <1>2, <1>3, <1>4, <1>5, <1>6, <1>7, <1>8, <1>9, <1>10, <1>11, <1>12 DEF Work

(* What a step of a call writes to the status records: nothing, or a       *)
(* record of its own transaction that is neither MISSING nor ACCEPTED and  *)
(* whose result, if it has one, is durable.  So is what it leaves for later.*)
LEMMA WorkStatus ==
    ASSUME ServiceTypeOK, StatusTypeOK, FaultsTypeOK, ServiceInv, NEW l \in Loops, Work(l)
    PROVE  /\ call[l] \in Calls /\ call[l] # Idle
           /\ \/ status' = status
              \/ \E r \in Records :
                   /\ r.state \notin {"MISSING", "ACCEPTED"} /\ Durable(call[l].txn, r.result)
                   /\ status' = [status EXCEPT ![call[l].txn] = r]
           /\ \A w \in late' :
                \/ w \in late
                \/ /\ w.txn = call[l].txn /\ w.record.state \notin {"MISSING", "ACCEPTED"}
                   /\ Durable(call[l].txn, w.record.result)
  <1> DEFINE c == call[l]
  <1>1. c \in Calls /\ c # Idle
    BY InCall DEF ServiceTypeOK, CallsType, Work, Start, Embed, SearchFace, SearchName, Rank, Decide,
                  UpsertFace, UpsertName, SaveIdentity, Complete, Notify, Fail, FailAgain, Steps
  <1>2. \A state \in {"PROCESSING", "FAILED"} :
           /\ Plain(state) \in Records /\ Plain(state).state = state
           /\ Durable(c.txn, Plain(state).result)
    BY PlainRecord DEF Plain, NoResult, Durable, States
  <1>3. ASSUME c.step = "complete"
        PROVE  /\ Completed(c.result) \in Records /\ Completed(c.result).state = "COMPLETED"
               /\ Durable(c.txn, Completed(c.result).result)
    BY <1>1, <1>3 DEF ServiceInv, CallInv, Completed, Records, States
  <1> DEFINE Writes(r) == /\ r.state \notin {"MISSING", "ACCEPTED"} /\ Durable(c.txn, r.result)
                          /\ status' = [status EXCEPT ![c.txn] = r]
  <1> DEFINE Leaves == \A w \in late' :
                         \/ w \in late
                         \/ /\ w.txn = c.txn /\ w.record.state \notin {"MISSING", "ACCEPTED"}
                            /\ Durable(c.txn, w.record.result)
  <1>q. ASSUME NEW r \in Records, r.state \notin {"MISSING", "ACCEPTED"}, Durable(c.txn, r.result),
               SaveStatusQuietly(c.txn, r)
        PROVE  (status' = status \/ \E x \in Records : Writes(x)) /\ Leaves
    <2>1. status' = status \/ status' = [status EXCEPT ![c.txn] = r]
      BY <1>q DEF SaveStatusQuietly, StatusWriteFails, Postpone, SaveStatus
    <2>2. c.txn \in Txns
      BY <1>1 DEF Calls
    <2>3. \A w \in late' : w \in late \/ (w.txn = c.txn /\ w.record = r)
      BY <1>q, <2>2, QuietType
    <2>4. Leaves
      BY <1>q, <2>3
    <2>5. QED BY <1>q, <2>1, <2>4
  <1>4. CASE Start(l) \/ Fail(l) \/ FailAgain(l)
    <2>1. PICK state \in {"PROCESSING", "FAILED"} : SaveStatusQuietly(c.txn, Plain(state))
      BY <1>4 DEF Start, Fail, FailAgain, Txn
    <2>2. (status' = status \/ \E x \in Records : Writes(x)) /\ Leaves
      BY <1>2, <1>q, <2>1
    <2>3. QED BY <1>1, <2>2
  <1>5. CASE Complete(l)
    <2>1. c.step = "complete" /\ SaveStatusQuietly(c.txn, Completed(c.result))
      BY <1>5 DEF Complete, At, Txn
    <2>2. (status' = status \/ \E x \in Records : Writes(x)) /\ Leaves
      BY <1>3, <1>q, <2>1
    <2>3. QED BY <1>1, <2>2
  <1>6. CASE Embed(l) \/ SearchFace(l) \/ SearchName(l) \/ Rank(l) \/ Decide(l) \/ UpsertFace(l)
             \/ UpsertName(l) \/ SaveIdentity(l) \/ Notify(l)
    <2>1. status' = status /\ late' = late
      BY <1>6 DEF Embed, SearchFace, SearchName, Rank, Decide, UpsertFace, UpsertName, SaveIdentity, Notify
    <2>2. QED BY <1>1, <2>1
  <1>7. QED BY <1>4, <1>5, <1>6 DEF Work

(* Every step of a call keeps the invariant of calls and stores. *)
LEMMA WorkInv ==
    ASSUME ServiceTypeOK, StatusTypeOK, FaultsTypeOK, ServiceInv, NEW l \in Loops, Work(l)
    PROVE  ServiceInv'
  <1>c. /\ identities \subseteq identities' /\ identities \subseteq 1..Len(minted)
        /\ facePoints \subseteq facePoints' /\ namePoints \subseteq namePoints'
        /\ Len(minted) \in Nat
        /\ \A n \in 1..Len(minted) : minted'[n] = minted[n]
        /\ \A m \in Loops \ {l} : call'[m] = call[m]
    BY WorkGrows DEF ServiceTypeOK
  <1> DEFINE StaysDurable(t, result) ==
                /\ result.id # 0 => result.id \in identities'
                /\ result.verdict = "NEW_USER" => result.id # 0 /\ minted'[result.id] = t
  <1>d. \A t, result : Durable(t, result) => StaysDurable(t, result)
    BY <1>c, DurableGrows
  <1>1. \A m \in Loops : CallInv(m)'
    BY OwnCall, OtherCalls
  <1>2. OwnIds'
    <2> SUFFICES ASSUME NEW m \in Loops, NEW k \in Loops, m # k,
                        call'[m].step \in Enrolling, call'[k].step \in Enrolling
                 PROVE  call'[m].id # call'[k].id
      BY DEF OwnIds
    <2>1. ASSUME NEW o \in Loops \ {l}, call'[o].step \in Enrolling, call'[l].step \in Enrolling
          PROVE  call'[o].id # call'[l].id
      <3>1. call'[o] = call[o]  BY <1>c
      <3>2. call[o].step \in Enrolling  BY <2>1, <3>1
      <3>3. call[o].id \in 1..Len(minted)
        BY <3>2, IdleFact DEF ServiceInv, CallInv, Enrolling, Steps
      <3>4. CASE call[l].step \in Enrolling /\ call'[l].id = call[l].id
        BY <3>1, <3>2, <3>4 DEF ServiceInv, OwnIds
      <3>5. CASE call'[l].id = Len(minted) + 1
        BY <1>c, <3>1, <3>3, <3>5
      <3>6. QED BY <2>1, <3>4, <3>5, OwnCall
    <2>2. CASE m # l /\ k # l  BY <1>c, <2>2 DEF ServiceInv, OwnIds
    <2>3. CASE m = l  BY <2>1, <2>3
    <2>4. CASE k = l  BY <2>1, <2>4
    <2>5. QED BY <2>2, <2>3, <2>4
  <1>3. AnswersInv'
    <2>1. ASSUME NEW t \in Txns PROVE StaysDurable(t, status'[t].result)
      <3>1. Durable(t, status[t].result)
        BY DEF ServiceInv, AnswersInv
      <3>2. CASE status' = status
        BY <1>d, <3>1, <3>2
      <3>3. CASE \E r \in Records : /\ Durable(call[l].txn, r.result)
                                    /\ status' = [status EXCEPT ![call[l].txn] = r]
        <4>1. PICK r \in Records : /\ Durable(call[l].txn, r.result)
                                   /\ status' = [status EXCEPT ![call[l].txn] = r]
          BY <3>3
        <4>2. status'[t] = status[t] \/ (t = call[l].txn /\ status'[t] = r)
          BY <4>1 DEF StatusTypeOK
        <4>3. Durable(t, status'[t].result)
          BY <3>1, <4>1, <4>2
        <4>4. QED BY <1>d, <4>3
      <3>4. QED BY <3>2, <3>3, WorkStatus
    <2>2. ASSUME NEW t \in Txns, NEW result \in told'[t] PROVE StaysDurable(t, result)
      <3>1. told'[t] = told[t] \/ (t = call[l].txn /\ told'[t] = told[t] \cup {call[l].result})
        BY DEF Work, Start, Embed, SearchFace, SearchName, Rank, Decide, UpsertFace, UpsertName,
               SaveIdentity, Complete, Notify, Fail, FailAgain, Txn, ServiceTypeOK
      <3>2. Durable(call[l].txn, call[l].result)
        BY WorkStatus DEF ServiceInv, CallInv
      <3>3. Durable(t, result)
        BY <2>2, <3>1, <3>2 DEF ServiceInv, AnswersInv
      <3>4. QED BY <1>d, <3>3
    <2>3. QED BY <2>1, <2>2 DEF AnswersInv, Durable
  <1>4. IdentityHasVectors'
    <2>1. ASSUME call[l].step = "saveIdentity"
          PROVE  call[l].id \in facePoints /\ call[l].id \in namePoints
      BY <2>1, IdleFact DEF ServiceInv, CallInv
    <2>2. QED BY <1>c, <2>1, WorkGrows DEF ServiceInv, IdentityHasVectors
  <1>5. LateInv'
    <2>1. ASSUME call[l].step = "saveIdentity"
          PROVE  call[l].id \in facePoints /\ call[l].id \in namePoints
      BY <2>1, IdleFact DEF ServiceInv, CallInv
    <2>2. lateIdentities' \subseteq facePoints' \cap namePoints'
      BY <1>c, <2>1, WorkGrows DEF ServiceInv, LateInv
    <2>3. ASSUME NEW w \in late' PROVE StaysDurable(w.txn, w.record.result)
      <3>1. Durable(w.txn, w.record.result)
        BY <2>3, WorkStatus DEF ServiceInv, LateInv
      <3>2. QED BY <1>d, <3>1
    <2>4. QED BY <2>2, <2>3 DEF LateInv, Durable
  <1>6. QED BY <1>1, <1>2, <1>3, <1>4, <1>5 DEF ServiceInv
-----------------------------------------------------------------------------
TypeInv == SubmitTypeInv /\ WorkerTypeOK

\* The steps of the workers that are not steps of a call.
OtherStep ==
    \/ \E l \in Loops : Poll(l) \/ PollFails(l) \/ InstanceLost(l) \/ \E p \in Partitions : Take(l, p)
    \/ \E w \in Workers : Sigterm(w) \/ Crash(w) \/ Exit(w) \/ Restart(w)
    \/ \E type \in Types : Rebalance(type)
-----------------------------------------------------------------------------
(* The other steps leave records, topics, stores and callbacks alone. *)
LEMMA OtherFrame ==
    ASSUME OtherStep
    PROVE  UNCHANGED <<status, late, topic, stores, told>> /\ (NoFault \/ \E kind : Fault(kind))
  BY DEF OtherStep, Poll, PollFails, InstanceLost, Take, Sigterm, Crash, Exit, Restart, Rebalance

(* They keep the state of the consumer groups in shape. *)
LEMMA GroupsType ==
    ASSUME TypeInv, OtherStep
    PROVE  Groups!GroupTypeOK'
  <1> USE DEF Groups!GroupTypeOK
  <1>a. /\ joined \subseteq Loops /\ owner \in [Partitions -> Loops \cup {Groups!Nobody}]
        /\ position \in [Partitions -> Nat] /\ unsettled \subseteq Types
    BY DEF TypeInv, WorkerTypeOK
  <1>b. \A l \in Loops : l[2] \in Types
    BY DEF Loops
  <1>c. \A w \in Workers : LoopsOf(w) \subseteq Loops
    BY DEF LoopsOf
  <1>l. ASSUME NEW ls \in SUBSET Loops, Groups!Leave(ls) PROVE Groups!GroupTypeOK'
    BY <1>l, <1>a, <1>b DEF Groups!Leave
  <1>1. ASSUME NEW l \in Loops, Fetch(l) PROVE Groups!GroupTypeOK'
    <2>1. \A p \in Partitions : Len(topic[p]) \in Nat
      BY DEF TypeInv, SubmitTypeInv, SubmitTypeOK, TopicTypeOK
    <2>2. UNION {0..Len(topic[p]) : p \in Partitions} \subseteq Nat
      BY <2>1
    <2>3. position' \in [Partitions -> Nat]
      BY <1>1, <2>2 DEF Fetch
    <2>4. QED BY <1>1, <1>a, <2>3 DEF Fetch
  <1>2. ASSUME NEW l \in Loops, InstanceLost(l) PROVE Groups!GroupTypeOK'
    <2>1. {l} \in SUBSET Loops /\ Groups!Leave({l})  BY <1>2 DEF InstanceLost
    <2>2. QED BY <2>1, <1>l
  <1>3. ASSUME NEW w \in Workers, Crash(w) \/ Exit(w) PROVE Groups!GroupTypeOK'
    BY <1>3, <1>c, <1>l DEF Crash, Exit
  <1>4. ASSUME NEW w \in Workers, Restart(w) PROVE Groups!GroupTypeOK'
    BY <1>4, <1>a, <1>b, <1>c DEF Restart, Groups!Join
  <1>5. ASSUME NEW type \in Types, Rebalance(type) PROVE Groups!GroupTypeOK'
    <2>1. PICK assignment \in [{p \in Partitions : PartitionType[p] = type} -> Groups!Members(type)] :
            owner' = [p \in Partitions |-> IF PartitionType[p] = type THEN assignment[p] ELSE owner[p]]
      BY <1>5 DEF Rebalance, Groups!Rebalance
    <2>2. Groups!Members(type) \subseteq Loops
      BY <1>a DEF Groups!Members
    <2>3. owner' \in [Partitions -> Loops \cup {Groups!Nobody}]
      BY <2>1, <2>2, <1>a
    <2>4. QED BY <1>5, <1>a, <2>3 DEF Rebalance, Groups!Rebalance
  <1>6. ASSUME UNCHANGED groupVars PROVE Groups!GroupTypeOK'
    BY <1>6, <1>a DEF groupVars
  <1>7. QED
    BY <1>1, <1>2, <1>3, <1>4, <1>5, <1>6 DEF OtherStep, Poll, PollFails, Take, Sigterm

(* The other steps take a call up from the batch, end it, or leave it. *)
LEMMA OtherCall ==
    ASSUME TypeInv, OtherStep
    PROVE  /\ CallsType' /\ worker' \in [Workers -> {"running", "stopping", "down"}]
           /\ \A m \in Loops :
                \/ call'[m] \in {call[m], Idle}
                \/ \E p \in Partitions, step \in {"start", "failAgain"} :
                     /\ batch[m][p] \in Seq(Txns) /\ batch[m][p] # <<>>
                     /\ call'[m] = NewCall(Head(batch[m][p]), step)
  <1>a. /\ CallsType /\ worker \in [Workers -> {"running", "stopping", "down"}]
        /\ batch \in [Loops -> [Partitions -> Seq(Txns)]]
    BY DEF TypeInv, WorkerTypeOK, ServiceTypeOK, CallsType
  <1>1. ASSUME NEW l \in Loops, NEW p \in Partitions, Take(l, p)
        PROVE  /\ CallsType'
               /\ \E step \in {"start", "failAgain"} : call'[l] = NewCall(Head(batch[l][p]), step)
               /\ \A m \in Loops \ {l} : call'[m] = call[m]
               /\ batch[l][p] \in Seq(Txns) /\ batch[l][p] # <<>>
    <2>1. batch[l][p] \in Seq(Txns) /\ batch[l][p] # <<>>
      BY <1>1, <1>a DEF Take
    <2>2. Head(batch[l][p]) \in Txns
      BY <2>1, HeadTailProperties
    <2>3. PICK step \in {"start", "failAgain"} : Set(l, NewCall(Head(batch[l][p]), step))
      BY <1>1 DEF Take
    <2>4. NewCall(Head(batch[l][p]), step) \in Calls
      BY <2>2, EmptySeq DEF NewCall, Calls, Steps
    <2>5. QED BY <1>a, <2>1, <2>3, <2>4, SetType
  <1>2. CASE \E l \in Loops, p \in Partitions : Take(l, p)
    <2>1. PICK l \in Loops, p \in Partitions : Take(l, p)
      BY <1>2
    <2>2. worker' = worker
      BY <2>1 DEF Take
    <2>3. ASSUME NEW m \in Loops \ {l} PROVE call'[m] \in {call[m], Idle}
      BY <1>1, <2>1, <2>3
    <2>4. QED BY <1>1, <1>a, <2>1, <2>2, <2>3
  <1>3. CASE \E w \in Workers : Crash(w)
    BY <1>3, <1>a DEF Crash, CallsType
  <1>4. CASE \E w \in Workers : Sigterm(w) \/ Exit(w) \/ Restart(w)
    BY <1>4, <1>a DEF Sigterm, Exit, Restart, CallsType
  <1>5. CASE \/ \E l \in Loops : Poll(l) \/ PollFails(l) \/ InstanceLost(l)
             \/ \E type \in Types : Rebalance(type)
    BY <1>5, <1>a DEF Poll, PollFails, InstanceLost, Rebalance, CallsType
  <1>6. QED BY <1>2, <1>3, <1>4, <1>5 DEF OtherStep

(* The records between two positions of a topic are records of the topic. *)
LEMMA SliceOf ==
    ASSUME NEW S, NEW s \in Seq(S), NEW p \in Nat, NEW n \in Nat, n = p \/ n <= Len(s)
    PROVE  /\ SubSeq(s, p + 1, n) \in Seq(S)
           /\ Entries(SubSeq(s, p + 1, n)) \subseteq Entries(s)
  <1>1. PICK m \in Int : m = p + 1
    OBVIOUS
  <1>2. \A i \in m..n : i \in 1..Len(s)
    <2>1. PICK last \in Nat : last = Len(s)
      OBVIOUS
    <2>2. \A i \in m..n : i \in 1..last
      BY <1>1, <2>1
    <2>3. QED BY <2>1, <2>2
  <1>3. ASSUME NEW i \in m..n PROVE s[i] \in S
    <2>1. i \in 1..Len(s)
      BY <1>2
    <2>2. QED BY <2>1, ElementOfSeq
  <1>4. /\ SubSeq(s, m, n) \in Seq(S)
        /\ Len(SubSeq(s, m, n)) = IF m <= n THEN n - m + 1 ELSE 0
        /\ \A i \in 1 .. n - m + 1 : SubSeq(s, m, n)[i] = s[m + i - 1]
    BY <1>3, SubSeqProperties
  <1>5. PICK slice \in Seq(S) : slice = SubSeq(s, m, n)
    BY <1>4
  <1>6. ASSUME NEW i \in DOMAIN slice PROVE slice[i] \in Entries(s)
    <2>1. i \in 1..Len(slice)
      OBVIOUS
    <2>2. i \in 1 .. n - m + 1
      <3>1. CASE m <= n
        BY <1>4, <1>5, <2>1, <3>1
      <3>2. CASE ~(m <= n)
        <4>1. Len(slice) = 0
          BY <1>4, <1>5, <3>2
        <4>2. QED BY <2>1, <4>1
      <3>3. QED BY <3>1, <3>2
    <2>3. slice[i] = s[m + i - 1]
      BY <1>4, <1>5, <2>2
    <2>4. m + i - 1 \in m..n
      <3>1. i \in Int /\ 1 <= i /\ i <= n - m + 1
        BY <2>2
      <3>2. QED BY <3>1
    <2>5. QED BY <1>2, <2>3, <2>4 DEF Entries
  <1>7. QED BY <1>1, <1>5, <1>6 DEF Entries

(* What a batch holds after such a step it held before, or it comes from   *)
(* the topic.                                                              *)
LEMMA OtherBatch ==
    ASSUME TypeInv, OtherStep
    PROVE  /\ batch' \in [Loops -> [Partitions -> Seq(Txns)]]
           /\ \A m \in Loops, q \in Partitions :
                Entries(batch'[m][q]) \subseteq Entries(batch[m][q]) \cup Entries(topic[q])
  <1>a. /\ batch \in [Loops -> [Partitions -> Seq(Txns)]]
        /\ topic \in [Partitions -> Seq(Txns)] /\ position \in [Partitions -> Nat]
    BY DEF TypeInv, WorkerTypeOK, SubmitTypeInv, SubmitTypeOK, TopicTypeOK, Groups!GroupTypeOK
  <1>1. ASSUME NEW l \in Loops, Poll(l)
        PROVE  /\ batch' \in [Loops -> [Partitions -> Seq(Txns)]]
               /\ \A m \in Loops, q \in Partitions :
                    Entries(batch'[m][q]) \subseteq Entries(batch[m][q]) \cup Entries(topic[q])
    <2> DEFINE polled(q) == SubSeq(topic[q], position[q] + 1, position'[q])
    <2>1. batch' = [batch EXCEPT ![l] = [q \in Partitions |-> polled(q)]]
      BY <1>1 DEF Poll
    <2>2. ASSUME NEW q \in Partitions
          PROVE  polled(q) \in Seq(Txns) /\ Entries(polled(q)) \subseteq Entries(topic[q])
      <3>1. /\ position[q] \in Nat /\ position'[q] \in Nat
            /\ position'[q] = position[q] \/ position'[q] <= Len(topic[q])
            /\ topic[q] \in Seq(Txns)
        BY <1>1, <1>a DEF Poll, Fetch
      <3>2. QED BY <3>1, SliceOf
    <2> HIDE DEF polled
    <2>3. batch' \in [Loops -> [Partitions -> Seq(Txns)]]
      BY <1>a, <2>1, <2>2
    <2>4. ASSUME NEW m \in Loops, NEW q \in Partitions
          PROVE  batch'[m][q] = batch[m][q] \/ batch'[m][q] = polled(q)
      BY <1>a, <2>1
    <2>5. QED BY <2>2, <2>3, <2>4
  <1>2. ASSUME NEW l \in Loops, NEW p \in Partitions, Take(l, p)
        PROVE  /\ batch' \in [Loops -> [Partitions -> Seq(Txns)]]
               /\ \A m \in Loops, q \in Partitions : Entries(batch'[m][q]) \subseteq Entries(batch[m][q])
    <2>1. batch[l][p] \in Seq(Txns) /\ batch[l][p] # <<>>
      BY <1>2, <1>a DEF Take
    <2> DEFINE rest == Tail(batch[l][p])
    <2>2. rest \in Seq(Txns) /\ Entries(rest) \subseteq Entries(batch[l][p])
      <3>1. /\ rest \in Seq(Txns) /\ Len(rest) = Len(batch[l][p]) - 1
            /\ \A i \in 1..Len(rest) : rest[i] = batch[l][p][i + 1]
        BY <2>1, HeadTailProperties
      <3>2. ASSUME NEW i \in DOMAIN rest PROVE i + 1 \in DOMAIN batch[l][p] /\ rest[i] = batch[l][p][i + 1]
        BY <2>1, <3>1
      <3>3. QED BY <3>1, <3>2 DEF Entries
    <2>3. batch' = [batch EXCEPT ![l][p] = rest]
      BY <1>2 DEF Take
    <2> HIDE DEF rest
    <2>4. QED BY <1>a, <2>2, <2>3
  <1>3. CASE \E w \in Workers : Crash(w)
    <2>1. NoEvents \in [Partitions -> Seq(Txns)] /\ \A q \in Partitions : Entries(NoEvents[q]) = {}
      BY EmptySeq DEF NoEvents, Entries
    <2>2. QED BY <1>3, <1>a, <2>1 DEF Crash
  <1>4. CASE UNCHANGED batch
    BY <1>4, <1>a
  <1>5. QED
    BY <1>1, <1>2, <1>3, <1>4
    DEF OtherStep, PollFails, InstanceLost, Sigterm, Exit, Restart, Rebalance
-----------------------------------------------------------------------------
\* Whatever a worker holds was published, and all copies of a job are in the
\* partition of its key.
Delivered ==
    /\ \A p \in Partitions : \A t \in Entries(topic[p]) : PartitionOf[t] = p
    /\ \A l \in Loops : call[l] # Idle => Published(call[l].txn)
    /\ \A l \in Loops, p \in Partitions : \A t \in Entries(batch[l][p]) : Published(t)

\* The inductive invariant of the pipeline.
PipelineInv == TypeInv /\ ServiceInv /\ SubmitInv /\ Delivered

\* The steps of the pipeline, once more: of the server, of a call, of the rest
\* of the workers, of the stores on their own.
CallStep == \E l \in Loops : Work(l) /\ UNCHANGED <<topic, groupVars, batch, serverVars>>
RestStep == OtherStep /\ UNCHANGED serverVars
RequestNext ==
    \/ \E t \in Txns : Handle(t) \/ \E kind \in InputKinds : Receive(t, kind)
    \/ ApiCrash
ServerStep == RequestNext /\ UNCHANGED workerVars
RecordLands == LateStatus /\ UNCHANGED workerVars
StoreLands == Land /\ UNCHANGED <<topic, groupVars, batch, serverVars>>

LEMMA StepCases ==
    ASSUME [Next]_vars
    PROVE  ServerStep \/ CallStep \/ RestStep \/ RecordLands \/ StoreLands \/ UNCHANGED vars
  <1>1. SubmitNext => RequestNext \/ LateStatus
    BY DEF SubmitNext, RequestNext
  <1>2. CASE SubmitNext /\ UNCHANGED workerVars
    BY <1>1, <1>2 DEF ServerStep, RecordLands
  <1>3. CASE WorkerNext /\ UNCHANGED serverVars
    BY <1>3 DEF WorkerNext, RunLoop, Stop, CallStep, RestStep, OtherStep, StoreLands, serverVars
  <1>4. QED BY <1>2, <1>3 DEF Next

(* An entry of a topic is published, and the other way round. *)
LEMMA PublishedIsEntry ==
    ASSUME NEW t \in Txns
    PROVE  Published(t) <=> t \in Entries(topic[PartitionOf[t]])
  BY DEF Published, Entries
-----------------------------------------------------------------------------
(* Every step of the pipeline preserves the types. *)
LEMMA CallTypeStep == ASSUME TypeInv, ServiceInv, CallStep PROVE TypeInv'
  <1>1. PICK l \in Loops : Work(l) /\ UNCHANGED <<topic, groupVars, batch, serverVars>>
    BY DEF CallStep
  <1>2. ServiceTypeOK' /\ StatusTypeOK' /\ FaultsTypeOK'
    BY <1>1, WorkType DEF TypeInv, WorkerTypeOK, SubmitTypeInv, SubmitTypeOK
  <1>3. SubmitTypeInv'
    BY <1>1, <1>2 DEF TypeInv, SubmitTypeInv, SubmitTypeOK, TopicTypeOK, AttemptLeft, serverVars
  <1>4. WorkerTypeOK'
    BY <1>1, <1>2 DEF TypeInv, WorkerTypeOK, groupVars, Groups!GroupTypeOK
  <1>5. QED BY <1>3, <1>4 DEF TypeInv

LEMMA RestTypeStep == ASSUME TypeInv, RestStep PROVE TypeInv'
  <1>1. OtherStep /\ UNCHANGED serverVars
    BY DEF RestStep
  <1>2. UNCHANGED <<status, late, topic, stores, told>> /\ FaultsTypeOK'
    BY <1>1, OtherFrame, FaultType DEF TypeInv, SubmitTypeInv, SubmitTypeOK
  <1>3. SubmitTypeInv'
    BY <1>1, <1>2 DEF TypeInv, SubmitTypeInv, SubmitTypeOK, StatusTypeOK, TopicTypeOK, AttemptLeft, serverVars
  <1>4. ServiceTypeOK'
    BY <1>1, <1>2, OtherCall DEF TypeInv, WorkerTypeOK, ServiceTypeOK, stores, CallsType
  <1>5. WorkerTypeOK'
    BY <1>1, <1>4, GroupsType, OtherBatch DEF WorkerTypeOK
  <1>6. QED BY <1>3, <1>5 DEF TypeInv

LEMMA ServerTypeStep == ASSUME TypeInv, ServerStep \/ RecordLands PROVE TypeInv'
  <1>1. SubmitNext /\ UNCHANGED workerVars
    BY DEF ServerStep, RequestNext, RecordLands, SubmitNext
  <1>2. SubmitTypeInv'
    BY <1>1, SubmitTypeStep DEF TypeInv
  <1>3. WorkerTypeOK'
    BY <1>1 DEF workerVars, stores, TypeInv, WorkerTypeOK, ServiceTypeOK, Groups!GroupTypeOK
  <1>4. QED BY <1>2, <1>3 DEF TypeInv

LEMMA StoreLandsType == ASSUME TypeInv, StoreLands PROVE TypeInv'
  <1>1. Land /\ UNCHANGED <<topic, groupVars, batch, serverVars>>
    BY DEF StoreLands
  <1>2. UNCHANGED <<status, late, minted, lateIdentities, worker, call, told>> /\ faults' = faults
    BY <1>1 DEF Land, NoFault
  <1>3. SubmitTypeInv'
    BY <1>1, <1>2 DEF TypeInv, SubmitTypeInv, SubmitTypeOK, StatusTypeOK, FaultsTypeOK, TopicTypeOK, AttemptLeft,
                      serverVars
  <1>4. ServiceTypeOK'
    BY <1>1, <1>2 DEF Land, LandFace, LandName, LandIdentity, TypeInv, WorkerTypeOK, ServiceTypeOK
  <1>5. WorkerTypeOK'
    BY <1>1, <1>4 DEF TypeInv, WorkerTypeOK, groupVars, Groups!GroupTypeOK
  <1>6. QED BY <1>3, <1>5 DEF TypeInv
-----------------------------------------------------------------------------
(* The steps outside the calls keep the invariant of calls and stores. *)
LEMMA ServiceInvFrame ==
    ASSUME ServiceInv, UNCHANGED <<stores, told>>,
           \A m \in Loops : \/ call'[m] \in {call[m], Idle}
                            \/ \E t \in Txns, step \in {"start", "failAgain"} : call'[m] = NewCall(t, step),
           \A t \in Txns : Durable(t, status'[t].result),
           \A w \in late' : w \in late \/ w.record.result = NoResult
    PROVE  ServiceInv'
  <1>1. \A t, result : Durable(t, result)' <=> Durable(t, result)
    BY DEF Durable, stores
  <1>2. \A t : Durable(t, NoResult)
    BY DEF Durable, NoResult
  <1>3. ASSUME NEW m \in Loops PROVE CallInv(m)'
    <2>1. CASE call'[m] = Idle  BY <2>1 DEF CallInv
    <2>2. CASE call'[m] = call[m]  BY <2>2, <1>1 DEF ServiceInv, CallInv, stores
    <2>3. CASE \E t \in Txns, step \in {"start", "failAgain"} : call'[m] = NewCall(t, step)
      BY <2>3, <1>1, <1>2 DEF CallInv, NewCall, Enrolling
    <2>4. QED BY <2>1, <2>2, <2>3
  <1>4. ASSUME NEW m \in Loops, call'[m].step \in Enrolling PROVE call'[m] = call[m]
    <2>1. \A t, step : NewCall(t, step).step = step
      BY DEF NewCall
    <2>2. Idle.step = "idle"
      BY IdleFact
    <2>3. QED BY <1>4, <2>1, <2>2 DEF Enrolling
  <1>5. OwnIds'
    BY <1>4 DEF ServiceInv, OwnIds
  <1>6. AnswersInv'
    BY <1>1, <1>2 DEF ServiceInv, AnswersInv
  <1>7. IdentityHasVectors'
    BY DEF ServiceInv, IdentityHasVectors, stores
  <1>8. LateInv'
    <2>1. \A w \in late' : Durable(w.txn, w.record.result)
      BY <1>2 DEF ServiceInv, LateInv
    <2>2. QED BY <1>1, <2>1 DEF ServiceInv, LateInv, stores
  <1>9. QED BY <1>3, <1>5, <1>6, <1>7, <1>8 DEF ServiceInv

LEMMA RestInv == ASSUME TypeInv, ServiceInv, RestStep PROVE ServiceInv'
  <1>1. UNCHANGED <<status, late, stores, told>>
    BY OtherFrame DEF RestStep
  <1>2. ASSUME NEW m \in Loops
        PROVE  \/ call'[m] \in {call[m], Idle}
               \/ \E t \in Txns, step \in {"start", "failAgain"} : call'[m] = NewCall(t, step)
    <2>1. CASE \E p \in Partitions, step \in {"start", "failAgain"} :
                 /\ batch[m][p] \in Seq(Txns) /\ batch[m][p] # <<>>
                 /\ call'[m] = NewCall(Head(batch[m][p]), step)
      BY <2>1, HeadTailProperties
    <2>2. QED BY <2>1, OtherCall DEF RestStep
  <1>3. \A t \in Txns : Durable(t, status'[t].result)
    BY <1>1 DEF ServiceInv, AnswersInv
  <1>4. QED BY <1>1, <1>2, <1>3, ServiceInvFrame

(* What the API server writes to the status records: nothing, ACCEPTED     *)
(* over a missing record, or FAILED, in the record of one transaction.     *)
(* Nor has what it leaves for later a result.                              *)
LEMMA ServerStatus ==
    ASSUME SubmitTypeInv, SubmitInv, RequestNext
    PROVE  /\ \/ status' = status
              \/ \E t \in Txns, state \in {"ACCEPTED", "FAILED"} :
                   /\ status' = [status EXCEPT ![t] = Plain(state)]
                   /\ state = "ACCEPTED" => status[t].state = "MISSING"
           /\ \A w \in late' : w \in late \/ w.record.result = NoResult
  <1>a. StatusTypeOK /\ FaultsTypeOK
    BY DEF SubmitTypeInv, SubmitTypeOK
  <1>b. \A state \in States : Plain(state) \in Records /\ Plain(state).result = NoResult
    BY PlainRecord DEF Plain
  <1>1. ASSUME NEW t \in Txns, Accept(t)
        PROVE  /\ status' = [status EXCEPT ![t] = Plain("ACCEPTED")] /\ late' = late
               /\ status[t].state = "MISSING"
    BY <1>1 DEF Accept, SaveStatus, SubmitInv, RecordBeforeJob
  <1>2. ASSUME NEW t \in Txns, AcceptFails(t)
        PROVE  /\ status' \in {status, [status EXCEPT ![t] = Plain("ACCEPTED")]}
               /\ status[t].state = "MISSING"
               /\ \A w \in late' : w \in late \/ w.record.result = NoResult
    <2>1. StatusWriteFails(t, Plain("ACCEPTED")) /\ status[t].state = "MISSING"
      BY <1>2 DEF AcceptFails, SubmitInv, RecordBeforeJob
    <2>2. status' \in {status, [status EXCEPT ![t] = Plain("ACCEPTED")]}
      BY <2>1 DEF StatusWriteFails, Postpone, SaveStatus
    <2>3. \A w \in late' : w \in late \/ w.record = Plain("ACCEPTED")
      BY <1>a, <1>b, <2>1, FailedWriteType DEF States
    <2>4. QED BY <1>b, <2>1, <2>2, <2>3 DEF States
  <1>3. ASSUME NEW t \in Txns, Compensate(t)
        PROVE  /\ status' \in {status, [status EXCEPT ![t] = Plain("FAILED")]}
               /\ \A w \in late' : w \in late \/ w.record.result = NoResult
    <2>1. SaveStatusQuietly(t, Plain("FAILED"))
      BY <1>3 DEF Compensate
    <2>2. status' \in {status, [status EXCEPT ![t] = Plain("FAILED")]}
      BY <2>1 DEF SaveStatusQuietly, StatusWriteFails, Postpone, SaveStatus
    <2>3. \A w \in late' : w \in late \/ w.record = Plain("FAILED")
      BY <1>a, <1>b, <2>1, QuietType DEF States
    <2>4. QED BY <1>b, <2>2, <2>3 DEF States
  <1>4. CASE \/ \E t \in Txns : Publish(t) \/ PublishRetried(t) \/ PublishRefused(t)
             \/ \E t \in Txns, kind \in InputKinds : Receive(t, kind)
             \/ ApiCrash
    BY <1>4 DEF Publish, PublishRetried, PublishRefused, Receive, ApiCrash
  <1>5. CASE \E t \in Txns : Accept(t)
    BY <1>1, <1>5
  <1>6. CASE \E t \in Txns : AcceptFails(t)
    BY <1>2, <1>6
  <1>7. CASE \E t \in Txns : Compensate(t)
    BY <1>3, <1>7
  <1>8. QED BY <1>4, <1>5, <1>6, <1>7 DEF RequestNext, Handle

LEMMA ServerInv == ASSUME TypeInv, ServiceInv, SubmitInv, ServerStep PROVE ServiceInv'
  <1>1. UNCHANGED <<stores, told, call>>
    BY DEF ServerStep, workerVars
  <1>2. ASSUME NEW t \in Txns PROVE Durable(t, status'[t].result)
    <2>1. StatusTypeOK
      BY DEF TypeInv, SubmitTypeInv, SubmitTypeOK
    <2>2. status'[t].result \in {status[t].result, NoResult}
      BY <2>1, ServerStatus DEF ServerStep, TypeInv, StatusTypeOK, Plain
    <2>3. QED BY <2>2 DEF ServiceInv, AnswersInv, Durable, NoResult
  <1>3. \A m \in Loops : call'[m] \in {call[m], Idle}
    BY <1>1
  <1>4. \A w \in late' : w \in late \/ w.record.result = NoResult
    BY ServerStatus DEF ServerStep, TypeInv
  <1>5. QED BY <1>1, <1>2, <1>3, <1>4, ServiceInvFrame

(* What is written late is one of the late writes. *)
LEMMA LateRecord ==
    ASSUME StatusTypeOK, RecordLands
    PROVE  \E w \in late : /\ w.txn \in Txns /\ w.record \in Records
                           /\ status' = [status EXCEPT ![w.txn] = w.record] /\ late' \subseteq late
  <1>1. PICK w \in late : status' = [status EXCEPT ![w.txn] = w.record] /\ late' = late \ {w}
    BY DEF RecordLands, LateStatus, LandStatus
  <1>2. w.txn \in Txns /\ w.record \in Records
    BY DEF StatusTypeOK, LateWrites
  <1>3. QED BY <1>1, <1>2

LEMMA RecordLandsInv == ASSUME TypeInv, ServiceInv, RecordLands PROVE ServiceInv'
  <1>a. StatusTypeOK
    BY DEF TypeInv, SubmitTypeInv, SubmitTypeOK
  <1>1. UNCHANGED <<stores, told, call>>
    BY DEF RecordLands, workerVars
  <1>2. PICK w \in late : /\ w.txn \in Txns /\ w.record \in Records
                          /\ status' = [status EXCEPT ![w.txn] = w.record] /\ late' \subseteq late
    BY <1>a, LateRecord
  <1>3. ASSUME NEW t \in Txns PROVE Durable(t, status'[t].result)
    <2>1. Durable(t, status[t].result) /\ Durable(w.txn, w.record.result)
      BY DEF ServiceInv, AnswersInv, LateInv
    <2>2. status'[t] = status[t] \/ (t = w.txn /\ status'[t] = w.record)
      BY <1>a, <1>2 DEF StatusTypeOK
    <2>3. QED BY <2>1, <2>2
  <1>4. \A m \in Loops : call'[m] \in {call[m], Idle}
    BY <1>1
  <1>5. QED BY <1>1, <1>2, <1>3, <1>4, ServiceInvFrame

(* A store that executes a write late only grows, and no call enrolls the  *)
(* identity that is written.                                               *)
LEMMA LandGrows ==
    ASSUME Land
    PROVE  /\ UNCHANGED <<status, late, minted, lateIdentities, worker, call, told, faults>>
           /\ facePoints \subseteq facePoints' /\ namePoints \subseteq namePoints'
           /\ identities \subseteq identities' /\ identities' \subseteq identities \cup lateIdentities
  BY DEF Land, LandFace, LandName, LandIdentity, NoFault

LEMMA StoreLandsInv == ASSUME TypeInv, ServiceInv, StoreLands PROVE ServiceInv'
  <1>1. /\ UNCHANGED <<status, late, minted, lateIdentities, call, told>>
        /\ facePoints \subseteq facePoints' /\ namePoints \subseteq namePoints'
        /\ identities \subseteq identities' /\ identities' \subseteq identities \cup lateIdentities
    BY LandGrows DEF StoreLands
  <1>2. \A t, result : Durable(t, result) => Durable(t, result)'
    BY <1>1 DEF Durable
  <1>3. ASSUME NEW l \in Loops PROVE CallInv(l)'
    <2>1. CallInv(l) /\ call'[l] = call[l]
      BY <1>1 DEF ServiceInv
    <2>2. call[l] # Idle => Durable(call[l].txn, call[l].result)'
      BY <1>1, <1>2, <2>1 DEF CallInv
    <2>3. QED BY <1>1, <2>1, <2>2 DEF CallInv
  <1>4. OwnIds'
    BY <1>1 DEF ServiceInv, OwnIds
  <1>5. AnswersInv'
    BY <1>1, <1>2 DEF ServiceInv, AnswersInv
  <1>6. IdentityHasVectors'
    BY <1>1 DEF ServiceInv, LateInv, IdentityHasVectors
  <1>7. LateInv'
    BY <1>1, <1>2 DEF ServiceInv, LateInv
  <1>8. QED BY <1>3, <1>4, <1>5, <1>6, <1>7 DEF ServiceInv
-----------------------------------------------------------------------------
(* Every step of the pipeline keeps record and job in step. *)
LEMMA WorkerKeepsSubmitInv ==
    ASSUME SubmitInv, StatusTypeOK, UNCHANGED <<topic, serverVars>>,
           \A t \in Txns : \/ status'[t] = status[t]
                           \/ Published(t) /\ status'[t].state # "MISSING",
           \A w \in late' : \/ w \in late
                            \/ /\ w.txn \in Txns /\ Published(w.txn)
                               /\ w.record.state \notin {"MISSING", "ACCEPTED"}
    PROVE  SubmitInv'
  <1>1. \A t \in Txns : Published(t)' <=> Published(t)
    BY DEF Published
  <1>2. UNCHANGED <<request, reply>>
    BY DEF serverVars
  <1>3. \A w \in late : w.txn \in Txns
    BY DEF StatusTypeOK, LateWrites
  <1>4. LateIsRecord'
    <2>1. ASSUME NEW w \in late'
          PROVE  w.record.state # "MISSING" /\ request'[w.txn] \notin {"idle", "accepting"}
      BY <1>2 DEF SubmitInv, LateIsRecord, RecordBeforeJob
    <2>2. ASSUME NEW w \in late', w.record.state = "ACCEPTED"
          PROVE  /\ request'[w.txn] = "done" /\ ~Published(w.txn)'
                 /\ status'[w.txn].state \in {"MISSING", "ACCEPTED"}
                 /\ \A x \in late' : x.txn = w.txn => x.record.state = "ACCEPTED"
      <3>1. w \in late /\ w.txn \in Txns
        BY <2>2, <1>3
      <3>2. /\ request[w.txn] = "done" /\ ~Published(w.txn)
            /\ status[w.txn].state \in {"MISSING", "ACCEPTED"}
            /\ \A x \in late : x.txn = w.txn => x.record.state = "ACCEPTED"
        BY <2>2, <3>1 DEF SubmitInv, LateIsRecord
      <3>3. QED BY <1>1, <1>2, <3>1, <3>2
    <2>3. QED BY <2>1, <2>2 DEF LateIsRecord
  <1>5. QED
    BY <1>1, <1>2, <1>4 DEF SubmitInv, RecordBeforeJob, PublishedHasRecord, AcceptedIsPublished

LEMMA CallSubmitInv ==
    ASSUME TypeInv, ServiceInv, SubmitInv, Delivered, CallStep
    PROVE  SubmitInv'
  <1>1. PICK l \in Loops : Work(l) /\ UNCHANGED <<topic, groupVars, batch, serverVars>>
    BY DEF CallStep
  <1>2. StatusTypeOK /\ FaultsTypeOK /\ ServiceTypeOK
    BY DEF TypeInv, SubmitTypeInv, SubmitTypeOK, WorkerTypeOK
  <1>3. call[l] # Idle /\ Published(call[l].txn) /\ call[l].txn \in Txns
    BY <1>1, <1>2, WorkStatus DEF Delivered, Calls
  <1>4. ASSUME NEW t \in Txns
        PROVE  \/ status'[t] = status[t]
               \/ Published(t) /\ status'[t].state # "MISSING"
    BY <1>1, <1>2, <1>3, WorkStatus DEF StatusTypeOK
  <1>5. ASSUME NEW w \in late'
        PROVE  \/ w \in late
               \/ /\ w.txn \in Txns /\ Published(w.txn)
                  /\ w.record.state \notin {"MISSING", "ACCEPTED"}
    BY <1>1, <1>2, <1>3, WorkStatus
  <1>6. QED BY <1>1, <1>2, <1>4, <1>5, WorkerKeepsSubmitInv

LEMMA RestSubmitInv ==
    ASSUME TypeInv, SubmitInv, RestStep
    PROVE  SubmitInv'
  <1>1. UNCHANGED <<status, late, topic, serverVars>> /\ StatusTypeOK
    BY OtherFrame DEF RestStep, TypeInv, SubmitTypeInv, SubmitTypeOK
  <1>2. QED BY <1>1, WorkerKeepsSubmitInv

LEMMA StoreLandsSubmitInv ==
    ASSUME TypeInv, SubmitInv, StoreLands
    PROVE  SubmitInv'
  <1>1. UNCHANGED <<status, late, topic, serverVars>> /\ StatusTypeOK
    BY LandGrows DEF StoreLands, TypeInv, SubmitTypeInv, SubmitTypeOK
  <1>2. QED BY <1>1, WorkerKeepsSubmitInv
-----------------------------------------------------------------------------
(* A call is about one transaction from its start to its end. *)
LEMMA WorkTxn ==
    ASSUME CallsType, NEW l \in Loops, Work(l)
    PROVE  call'[l] = Idle \/ call'[l].txn = call[l].txn
  <1> DEFINE c == call[l]
  <1>1. c \in Calls
    BY InCall DEF Work, Start, Embed, SearchFace, SearchName, Rank, Decide, UpsertFace, UpsertName,
                  SaveIdentity, Complete, Notify, Fail, FailAgain, Steps
  <1>2. ASSUME NEW step \in Steps, Step(l, step) PROVE call'[l].txn = c.txn
    BY <1>1, <1>2, StepType DEF Calls
  <1>3. ASSUME NEW d, Set(l, d) PROVE call'[l] = d
    BY <1>3 DEF Set, CallsType
  <1>4. CASE Start(l) \/ Embed(l) \/ UpsertFace(l) \/ UpsertName(l) \/ Complete(l) \/ Fail(l)
    BY <1>2, <1>4 DEF Start, Embed, UpsertFace, UpsertName, Complete, Fail, Steps
  <1>5. CASE Notify(l) \/ FailAgain(l)
    BY <1>3, <1>5 DEF Notify, FailAgain
  <1>6. CASE SearchFace(l)  BY <1>1, <1>2, <1>3, <1>6 DEF SearchFace, Calls, Steps
  <1>7. CASE SearchName(l)  BY <1>1, <1>2, <1>3, <1>7 DEF SearchName, Calls, Steps
  <1>8. CASE Rank(l)  BY <1>1, <1>3, <1>8 DEF Rank, Calls
  <1>9. CASE Decide(l)
    <2>1. \A id : Set(l, [c EXCEPT !.id = id, !.step = "upsertFace"]) => call'[l].txn = c.txn
      BY <1>1 DEF Set, CallsType, Calls
    <2>2. \A result : Set(l, [c EXCEPT !.result = result, !.step = "complete"]) => call'[l].txn = c.txn
      BY <1>1 DEF Set, CallsType, Calls
    <2>3. QED BY <1>9, <2>1, <2>2 DEF Decide
  <1>10. CASE SaveIdentity(l)  BY <1>1, <1>2, <1>3, <1>10 DEF SaveIdentity, Calls, Steps
  <1>11. QED BY <1>4, <1>5, <1>6, <1>7, <1>8, <1>9, <1>10 DEF Work

(* What workers hold was published. *)
LEMMA CallDelivered ==
    ASSUME TypeInv, ServiceInv, Delivered, CallStep
    PROVE  Delivered'
  <1>1. PICK l \in Loops : Work(l) /\ UNCHANGED <<topic, groupVars, batch, serverVars>>
    BY DEF CallStep
  <1>2. ServiceTypeOK /\ StatusTypeOK /\ FaultsTypeOK /\ CallsType
    BY DEF TypeInv, SubmitTypeInv, SubmitTypeOK, WorkerTypeOK, ServiceTypeOK, CallsType
  <1>3. /\ call[l] # Idle
        /\ call'[l] = Idle \/ call'[l].txn = call[l].txn
    BY <1>1, <1>2, WorkStatus, WorkTxn
  <1>4. \A m \in Loops \ {l} : call'[m] = call[m]
    BY <1>1, <1>2, WorkGrows
  <1>5. \A t : Published(t)' <=> Published(t)
    BY <1>1 DEF Published
  <1>6. QED BY <1>1, <1>3, <1>4, <1>5 DEF Delivered

LEMMA RestDelivered ==
    ASSUME TypeInv, Delivered, RestStep
    PROVE  Delivered'
  <1>1. OtherStep /\ topic' = topic
    BY OtherFrame DEF RestStep
  <1>2. \A t : Published(t)' <=> Published(t)
    BY <1>1 DEF Published
  <1>3. ASSUME NEW m \in Loops, call'[m] # Idle PROVE Published(call'[m].txn)
    <2>1. CASE call'[m] = call[m]
      BY <1>3, <2>1 DEF Delivered
    <2>2. CASE \E p \in Partitions, step \in {"start", "failAgain"} :
                 /\ batch[m][p] \in Seq(Txns) /\ batch[m][p] # <<>>
                 /\ call'[m] = NewCall(Head(batch[m][p]), step)
      <3>1. PICK p \in Partitions, step \in {"start", "failAgain"} :
                 /\ batch[m][p] \in Seq(Txns) /\ batch[m][p] # <<>>
                 /\ call'[m] = NewCall(Head(batch[m][p]), step)
        BY <2>2
      <3>2. Head(batch[m][p]) \in Entries(batch[m][p])
        BY <3>1 DEF Entries
      <3>3. call'[m].txn = Head(batch[m][p])
        BY <3>1 DEF NewCall
      <3>4. QED BY <3>2, <3>3 DEF Delivered
    <2>3. QED BY <1>1, <1>3, <2>1, <2>2, OtherCall
  <1>4. ASSUME NEW m \in Loops, NEW p \in Partitions, NEW t \in Entries(batch'[m][p]) PROVE Published(t)
    <2>1. t \in Entries(batch[m][p]) \/ t \in Entries(topic[p])
      BY <1>1, <1>4, OtherBatch
    <2>2. CASE t \in Entries(topic[p])
      <3>1. PartitionOf[t] = p  BY <2>2 DEF Delivered
      <3>2. QED BY <2>2, <3>1 DEF Published, Entries
    <2>3. QED BY <2>1, <2>2 DEF Delivered
  <1>5. QED BY <1>1, <1>2, <1>3, <1>4 DEF Delivered

LEMMA ServerDelivered ==
    ASSUME TypeInv, Delivered, ServerStep
    PROVE  Delivered'
  <1>a. TopicTypeOK /\ call' = call /\ batch' = batch /\ CallsType
        /\ batch \in [Loops -> [Partitions -> Seq(Txns)]]
    BY DEF ServerStep, workerVars, TypeInv, SubmitTypeInv, SubmitTypeOK, WorkerTypeOK, ServiceTypeOK, CallsType
  <1>1. topic' = topic \/ \E t \in Txns : Produce(t)
    BY DEF ServerStep, RequestNext, Handle, Receive, ApiCrash, Accept, AcceptFails, Publish, PublishRetried,
           ProduceFails, PublishRefused, Compensate
  <1>2. \A t \in Txns : Published(t) => Published(t)'
    BY <1>1, <1>a, ProduceType DEF Published
  <1>3. ASSUME NEW p \in Partitions, NEW t \in Entries(topic'[p]) PROVE PartitionOf[t] = p
    <2>1. CASE topic' = topic
      BY <1>3, <2>1 DEF Delivered
    <2>2. CASE \E u \in Txns : Produce(u)
      <3>1. PICK u \in Txns : Produce(u)
        BY <2>2
      <3>2. topic[p] \in Seq(Txns)
        BY <1>a DEF TopicTypeOK
      <3>3. \/ topic'[p] = topic[p]
            \/ PartitionOf[u] = p /\ topic'[p] = Append(topic[p], u)
        BY <1>a, <3>1 DEF Produce, TopicTypeOK
      <3>4. Entries(Append(topic[p], u)) \subseteq Entries(topic[p]) \cup {u}
        BY <3>2 DEF Entries
      <3>5. QED BY <1>3, <3>3, <3>4 DEF Delivered
    <2>3. QED BY <1>1, <2>1, <2>2
  <1>4. ASSUME NEW l \in Loops, call[l] # Idle PROVE call[l].txn \in Txns
    BY <1>4, <1>a DEF CallsType, Calls
  <1>5. ASSUME NEW l \in Loops, NEW p \in Partitions, NEW t \in Entries(batch[l][p]) PROVE t \in Txns
    <2>1. batch[l][p] \in Seq(Txns)  BY <1>a
    <2>2. QED BY <2>1, <1>5 DEF Entries
  <1>6. QED BY <1>a, <1>2, <1>3, <1>4, <1>5 DEF Delivered

LEMMA LandsDelivered ==
    ASSUME Delivered, RecordLands \/ StoreLands
    PROVE  Delivered'
  <1>1. UNCHANGED <<topic, call, batch>>
    BY LandGrows DEF RecordLands, LateStatus, workerVars, StoreLands
  <1>2. \A t : Published(t)' <=> Published(t)
    BY <1>1 DEF Published
  <1>3. QED BY <1>1, <1>2 DEF Delivered
-----------------------------------------------------------------------------
(* The invariant holds initially, and every step preserves it. *)
LEMMA PipelineInvInit == Init => PipelineInv
  <1> SUFFICES ASSUME Init PROVE PipelineInv
    OBVIOUS
  <1>1. SubmitTypeInv /\ SubmitInv
    BY SubmitTypeInit, SubmitInvInit DEF Init
  <1>2. ServiceTypeOK
    BY EmptySeq DEF Init, WorkerInit, ServiceInit, ServiceTypeOK
  <1>3. WorkerTypeOK
    <2>1. Groups!GroupTypeOK
      BY DEF Init, WorkerInit, Groups!GroupInit, Groups!GroupTypeOK
    <2>2. NoEvents \in [Partitions -> Seq(Txns)]
      BY EmptySeq DEF NoEvents
    <2>3. QED BY <1>2, <2>1, <2>2 DEF Init, WorkerInit, WorkerTypeOK
  <1>4. \A l \in Loops : call[l] = Idle
    BY DEF Init, WorkerInit, ServiceInit
  <1>5. ServiceInv
    <2>1. OwnIds  BY <1>4, IdleFact DEF OwnIds, Enrolling
    <2>2. AnswersInv
      BY DEF Init, WorkerInit, ServiceInit, SubmitInit, StatusInit, Plain, NoResult, AnswersInv, Durable
    <2>3. IdentityHasVectors  BY DEF Init, WorkerInit, ServiceInit, IdentityHasVectors
    <2>4. LateInv
      BY DEF Init, WorkerInit, ServiceInit, SubmitInit, StatusInit, LateInv
    <2>5. QED BY <1>4, <2>1, <2>2, <2>3, <2>4 DEF ServiceInv, CallInv
  <1>6. Delivered
    <2>1. \A p \in Partitions : Entries(topic[p]) = {}
      BY DEF Init, SubmitInit, TopicInit, Entries
    <2>2. \A l \in Loops, p \in Partitions : Entries(batch[l][p]) = {}
      BY DEF Init, WorkerInit, NoEvents, Entries
    <2>3. QED BY <1>4, <2>1, <2>2 DEF Delivered
  <1>7. QED BY <1>1, <1>3, <1>5, <1>6 DEF PipelineInv, TypeInv

LEMMA PipelineInvStep ==
    ASSUME PipelineInv, [Next]_vars
    PROVE  PipelineInv'
  <1> USE DEF PipelineInv
  <1>1. CASE CallStep
    <2>1. PICK l \in Loops : Work(l)
      BY <1>1 DEF CallStep
    <2>2. ServiceInv'
      BY <2>1, WorkInv DEF TypeInv, SubmitTypeInv, SubmitTypeOK, WorkerTypeOK
    <2>3. QED BY <1>1, <2>2, CallTypeStep, CallSubmitInv, CallDelivered
  <1>2. CASE RestStep
    BY <1>2, RestTypeStep, RestInv, RestSubmitInv, RestDelivered
  <1>3. CASE ServerStep
    <2>1. SubmitInv'
      BY <1>3, SubmitInvStep DEF ServerStep, RequestNext, SubmitNext, TypeInv
    <2>2. QED BY <1>3, <2>1, ServerTypeStep, ServerInv, ServerDelivered
  <1>4. CASE RecordLands
    <2>1. SubmitInv'
      BY <1>4, SubmitInvStep DEF RecordLands, SubmitNext, TypeInv
    <2>2. QED BY <1>4, <2>1, ServerTypeStep, RecordLandsInv, LandsDelivered
  <1>5. CASE StoreLands
    BY <1>5, StoreLandsType, StoreLandsInv, StoreLandsSubmitInv, LandsDelivered
  <1>6. CASE UNCHANGED vars
    <2>1. UNCHANGED <<status, late, faults, topic, stores, told, worker, call, groupVars, batch, serverVars>>
      BY <1>6 DEF vars, workVars, stores, groupVars, serverVars
    <2>2. TypeInv'
      BY <2>1 DEF TypeInv, SubmitTypeInv, SubmitTypeOK, StatusTypeOK, FaultsTypeOK, TopicTypeOK, AttemptLeft,
                  WorkerTypeOK, ServiceTypeOK, Groups!GroupTypeOK, stores, groupVars, serverVars
    <2>3. ServiceInv'
      BY <2>1 DEF ServiceInv, CallInv, OwnIds, AnswersInv, IdentityHasVectors, LateInv, Durable, stores
    <2>4. \A t : Published(t)' <=> Published(t)
      BY <2>1 DEF Published
    <2>5. SubmitInv' /\ Delivered'
      BY <2>1, <2>4 DEF SubmitInv, RecordBeforeJob, LateIsRecord, PublishedHasRecord, AcceptedIsPublished,
                        Delivered, serverVars
    <2>6. QED BY <2>2, <2>3, <2>5
  <1>7. QED BY <1>1, <1>2, <1>3, <1>4, <1>5, <1>6, StepCases

LEMMA Invariance == Spec => []PipelineInv
  BY PipelineInvInit, PipelineInvStep, PTL DEF Spec

(* The state of the pipeline is of the right shape in every state: no      *)
(* identity is stored that was not made, no call mixes two transactions.   *)
THEOREM TypeCorrect == Spec => []TypeOK
  <1>1. PipelineInv => TypeOK
    BY DEF PipelineInv, TypeInv, SubmitTypeInv, TypeOK
  <1>2. QED BY <1>1, Invariance, PTL

(* However many workers, transactions and failures there are, an identity  *)
(* that has a metadata record has its vectors in both collections.         *)
THEOREM IdentitiesAreSearchable == Spec => []IdentityHasVectors
  <1>1. PipelineInv => IdentityHasVectors
    BY DEF PipelineInv, ServiceInv
  <1>2. QED BY <1>1, Invariance, PTL

(* No answer a client reads or is posted names an identity that is not     *)
(* stored, and only the job that made an identity answers NEW_USER with it.*)
THEOREM AnswersLast == Spec => []AnswersAreDurable
  <1>1. PipelineInv => AnswersAreDurable
    BY DEF PipelineInv, ServiceInv, AnswersInv, AnswersAreDurable
  <1>2. QED BY <1>1, Invariance, PTL

(* What the API promises with a 202 survives what the workers do.          *)
THEOREM AcceptedStaysPublished == Spec => [](AcceptedIsPublished /\ PublishedHasRecord)
  <1>1. PipelineInv => AcceptedIsPublished /\ PublishedHasRecord
    BY DEF PipelineInv, SubmitInv
  <1>2. QED BY <1>1, Invariance, PTL
-----------------------------------------------------------------------------
(* No step writes ACCEPTED over what a worker wrote. *)
THEOREM AcceptedIsFirst == Spec => NoReturnToAccepted
  <1>1. ASSUME PipelineInv, [Next]_vars, NEW t \in Txns, status'[t].state = "ACCEPTED"
        PROVE  status[t].state \in {"MISSING", "ACCEPTED"}
    <2>a. StatusTypeOK /\ FaultsTypeOK /\ ServiceTypeOK /\ ServiceInv /\ SubmitTypeInv /\ SubmitInv
      BY <1>1 DEF PipelineInv, TypeInv, SubmitTypeInv, SubmitTypeOK, WorkerTypeOK
    <2>1. CASE CallStep
      BY <2>1, <2>a, <1>1, WorkStatus DEF CallStep, StatusTypeOK
    <2>2. CASE RestStep
      BY <2>2, <1>1, OtherFrame DEF RestStep
    <2>3. CASE ServerStep
      <3>1. CASE status' = status  BY <3>1, <1>1
      <3>2. CASE \E u \in Txns, state \in {"ACCEPTED", "FAILED"} :
                   /\ status' = [status EXCEPT ![u] = Plain(state)]
                   /\ state = "ACCEPTED" => status[u].state = "MISSING"
        BY <3>2, <2>a, <1>1 DEF StatusTypeOK, Plain
      <3>3. QED BY <3>1, <3>2, <2>3, <2>a, ServerStatus DEF ServerStep
    <2>4. CASE UNCHANGED vars
      BY <2>4, <1>1 DEF vars, workVars
    <2>5. CASE RecordLands
      <3>1. PICK w \in late : w.txn \in Txns /\ status' = [status EXCEPT ![w.txn] = w.record]
        BY <2>5, <2>a, LateRecord
      <3>2. w.record.state = "ACCEPTED" => status[w.txn].state \in {"MISSING", "ACCEPTED"}
        BY <2>a DEF SubmitInv, LateIsRecord
      <3>3. QED BY <3>1, <3>2, <2>a, <1>1 DEF StatusTypeOK
    <2>6. CASE StoreLands
      BY <2>6, <1>1, LandGrows DEF StoreLands
    <2>7. QED BY <1>1, <2>1, <2>2, <2>3, <2>4, <2>5, <2>6, StepCases
  <1>2. PipelineInv /\ [Next]_vars =>
          [\A t \in Txns : status'[t].state = "ACCEPTED" => status[t].state \in {"MISSING", "ACCEPTED"}]_submitVars
    BY <1>1
  <1>3. QED BY <1>2, Invariance, PTL DEF Spec, NoReturnToAccepted
-----------------------------------------------------------------------------
\* The state of the register, as Pipeline maps it.
Entry(n) == [id |-> n, maker |-> minted[n]]
RegisterEntries == {[id |-> n, maker |-> minted[n]] : n \in identities}
RegisterAnswers == [t \in Txns |-> status[t].result]

(* A step of a call writes a status record or the stores, never both. *)
LEMMA OneStoreAtATime == ASSUME NEW l \in Loops, Work(l) PROVE status' = status \/ UNCHANGED stores
  BY DEF Work, Start, Embed, SearchFace, SearchName, Rank, Decide, UpsertFace, UpsertName, SaveIdentity,
         Complete, Notify, Fail, FailAgain

(* The register keeps its entries when identities are made or stores are   *)
(* left alone.                                                             *)
LEMMA RegisterKept ==
    ASSUME identities' = identities, \A n \in identities : minted'[n] = minted[n]
    PROVE  RegisterEntries' = RegisterEntries
  BY DEF RegisterEntries

(* Writing a record is an answer that the register allows, or withdraws    *)
(* one.                                                                    *)
LEMMA WriteMaps ==
    ASSUME StatusTypeOK, NEW t \in Txns, NEW r \in Records, Durable(t, r.result), UNCHANGED stores,
           status' = [status EXCEPT ![t] = r]
    PROVE  Register!Next
  <1>1. UNCHANGED RegisterEntries
    BY RegisterKept DEF stores
  <1>2. /\ RegisterAnswers' = [RegisterAnswers EXCEPT ![t] = r.result]
        /\ RegisterAnswers'[t] = r.result
    BY DEF RegisterAnswers, StatusTypeOK
  <1>3. CASE r.result = NoResult
    BY <1>1, <1>2, <1>3 DEF Register!Next, Register!Withdraw, RegisterEntries, RegisterAnswers
  <1>4. CASE r.result \in Results
    <2>1. r.result # NoResult
      BY <1>4 DEF Results, NoResult, Verdicts
    <2>2. r.result.id # 0 => \E entry \in RegisterEntries : entry.id = r.result.id
      <3>1. \A n : Entry(n).id = n /\ (n \in identities => Entry(n) \in RegisterEntries)
        BY DEF Entry, RegisterEntries
      <3>2. QED BY <3>1 DEF Durable
    <2>3. r.result.verdict = "NEW_USER" => [id |-> r.result.id, maker |-> t] \in RegisterEntries
      BY DEF Durable, RegisterEntries
    <2>4. Register!Answer(t)
      BY <1>1, <1>2, <2>1, <2>2, <2>3
      DEF Register!Answer, Register!Registered, RegisterEntries, RegisterAnswers
    <2>5. QED BY <2>4 DEF Register!Next
  <1>5. QED BY <1>3, <1>4 DEF Records

(* Saving the record of a new identity registers it. *)
LEMMA SaveMaps ==
    ASSUME NEW t \in Txns, NEW n, minted[n] = t, n \notin identities,
           identities' = identities \cup {n}, minted' = minted, status' = status
    PROVE  Register!Next
  <1>1. RegisterEntries' = RegisterEntries \cup {Entry(n)}
    BY DEF RegisterEntries, Entry
  <1>2. Entry(n).id = n /\ Entry(n).maker = t /\ ~\E entry \in RegisterEntries : entry.id = n
    BY DEF Entry, RegisterEntries
  <1>3. RegisterAnswers' = RegisterAnswers
    BY DEF RegisterAnswers
  <1>4. Register!Register(t)
    BY <1>1, <1>2, <1>3
    DEF Register!Register, Register!Registered, RegisterEntries, RegisterAnswers, Entry
  <1>5. QED BY <1>4 DEF Register!Next

(* Every step of the pipeline is a step of the register, or none. *)
LEMMA StepMaps ==
    ASSUME PipelineInv, [Next]_vars
    PROVE  Register!Next \/ UNCHANGED <<RegisterEntries, RegisterAnswers>>
  <1>a. StatusTypeOK /\ FaultsTypeOK /\ ServiceTypeOK /\ ServiceInv /\ SubmitTypeInv /\ SubmitInv
    BY DEF PipelineInv, TypeInv, SubmitTypeInv, SubmitTypeOK, WorkerTypeOK
  <1>b. ASSUME UNCHANGED <<status, stores>> PROVE UNCHANGED <<RegisterEntries, RegisterAnswers>>
    BY <1>b DEF stores, RegisterEntries, RegisterAnswers
  <1>1. CASE CallStep
    <2>1. PICK l \in Loops : Work(l)
      BY <1>1 DEF CallStep
    <2>2. CASE status' # status
      <3>1. UNCHANGED stores
        BY <2>1, <2>2, OneStoreAtATime
      <3>2. PICK r \in Records : /\ Durable(call[l].txn, r.result)
                                 /\ status' = [status EXCEPT ![call[l].txn] = r]
        BY <1>a, <2>1, <2>2, WorkStatus
      <3>3. call[l].txn \in Txns
        BY <1>a, <2>1, WorkStatus DEF Calls
      <3>4. QED BY <1>a, <3>1, <3>2, <3>3, WriteMaps
    <2>3. CASE status' = status /\ identities' = identities
      <3>1. \A n \in identities : minted'[n] = minted[n]
        BY <1>a, <2>1, WorkGrows DEF ServiceTypeOK
      <3>2. QED BY <2>3, <3>1, RegisterKept DEF RegisterAnswers
    <2>4. CASE status' = status /\ identities' # identities
      <3>1. call[l].step = "saveIdentity" /\ identities' = identities \cup {call[l].id}
        BY <1>a, <2>1, <2>4, WorkGrows
      <3>2. /\ call[l].txn \in Txns /\ minted[call[l].id] = call[l].txn
            /\ call[l].id \notin identities
        BY <1>a, <2>1, <3>1, WorkStatus DEF Calls, ServiceInv, CallInv, Enrolling
      <3>3. minted' = minted
        BY <2>1, <2>4 DEF Work, Start, Embed, SearchFace, SearchName, Rank, Decide, UpsertFace, UpsertName,
               SaveIdentity, Complete, Notify, Fail, FailAgain, stores
      <3>4. QED BY <2>4, <3>1, <3>2, <3>3, SaveMaps
    <2>5. QED BY <2>2, <2>3, <2>4
  <1>2. CASE RestStep
    BY <1>2, <1>b, OtherFrame DEF RestStep
  <1>3. CASE ServerStep
    <2>1. UNCHANGED stores
      BY <1>3 DEF ServerStep, workerVars, stores
    <2>2. CASE status' = status
      BY <1>b, <2>1, <2>2
    <2>3. CASE \E t \in Txns, state \in {"ACCEPTED", "FAILED"} : status' = [status EXCEPT ![t] = Plain(state)]
      <3>1. PICK t \in Txns, state \in {"ACCEPTED", "FAILED"} : status' = [status EXCEPT ![t] = Plain(state)]
        BY <2>3
      <3>2. Plain(state) \in Records /\ Durable(t, Plain(state).result)
        BY PlainRecord DEF Plain, NoResult, Durable, States
      <3>3. QED BY <1>a, <2>1, <3>1, <3>2, WriteMaps
    <2>4. QED BY <1>3, <1>a, <2>2, <2>3, ServerStatus DEF ServerStep
  <1>4. CASE UNCHANGED vars
    BY <1>4, <1>b DEF vars, workVars, stores
  <1>5. CASE RecordLands
    <2>1. UNCHANGED stores
      BY <1>5 DEF RecordLands, workerVars
    <2>2. PICK w \in late : /\ w.txn \in Txns /\ w.record \in Records
                            /\ status' = [status EXCEPT ![w.txn] = w.record]
      BY <1>5, <1>a, LateRecord
    <2>3. Durable(w.txn, w.record.result)
      BY <1>a DEF ServiceInv, LateInv
    <2>4. QED BY <1>a, <2>1, <2>2, <2>3, WriteMaps
  <1>6. CASE StoreLands
    <2>1. status' = status /\ minted' = minted
      BY <1>6, LandGrows DEF StoreLands
    <2>2. CASE identities' = identities
      BY <2>1, <2>2, RegisterKept DEF RegisterAnswers
    <2>3. CASE identities' # identities
      <3>1. PICK n \in lateIdentities \ identities : identities' = identities \cup {n}
        BY <1>6, <2>3 DEF StoreLands, Land, LandFace, LandName, LandIdentity
      <3>2. minted[n] \in Txns
        <4>1. n \in 1..Len(minted) /\ minted \in Seq(Txns)
          BY <1>a DEF ServiceTypeOK
        <4>2. QED BY <4>1, ElementOfSeq
      <3>3. QED BY <2>1, <3>1, <3>2, SaveMaps
    <2>4. QED BY <2>2, <2>3
  <1>7. QED BY <1>1, <1>2, <1>3, <1>4, <1>5, <1>6, StepCases

(* The pipeline implements the register: whatever fails, identities are    *)
(* only added, each by one job, and every answer is one the register       *)
(* allows.                                                                 *)
THEOREM RegistryImplemented == Spec => ImplementsRegistry
  <1>1. Init => Register!Init
    BY DEF Init, WorkerInit, ServiceInit, SubmitInit, StatusInit, Plain, Register!Init
  <1>2. PipelineInv /\ [Next]_vars => [Register!Next]_<<RegisterEntries, RegisterAnswers>>
    BY StepMaps
  <1>3. PipelineInv /\ [Next]_vars =>
          [Register!Next]_<<{[id |-> n, maker |-> minted[n]] : n \in identities}, [t \in Txns |-> status[t].result]>>
    BY <1>2 DEF RegisterEntries, RegisterAnswers
  <1>4. QED BY <1>1, <1>3, Invariance, PTL DEF Spec, ImplementsRegistry, Register!Spec
=============================================================================
