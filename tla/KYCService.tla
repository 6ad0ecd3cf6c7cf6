------------------------------ MODULE KYCService ------------------------------
(***************************************************************************)
(* ProcessEnroll and ProcessVerify, as the consumer loops of the workers   *)
(* call them: one step per call to the embedder, the vector store and the  *)
(* metadata store, all of which other workers use between any two steps.   *)
(*                                                                         *)
(* What the searches compare is the person behind a transaction, so the    *)
(* similarity of two transactions' inputs is a constant.  An identity is a *)
(* number, the n-th UUID made; minted[n] is the transaction that made it,  *)
(* whose vectors and demographic hash it carries.                          *)
(***************************************************************************)
EXTENDS StatusRecords, Scoring, Sequences, FiniteSets

CONSTANTS
    Workers,     \* worker processes
    FaceSim,     \* FaceSim[t][u]: face similarity of the inputs of t and u
    NameSim,     \* NameSim[t][u]: name similarity
    SameDemo,    \* SameDemo[t][u]: equal date of birth and gender
    Live,        \* Live[t]: the liveness check of t's image passes
    TopK         \* length of a shortlist

ASSUME ServiceAssumption ==
    /\ FaceSim \in [Txns -> [Txns -> Scores]]
    /\ NameSim \in [Txns -> [Txns -> Scores]]
    /\ SameDemo \in [Txns -> [Txns -> BOOLEAN]]
    /\ Live \in [Txns -> BOOLEAN]
    /\ TopK \in Nat \ {0}

\* A worker runs one consumer loop per topic, each with a call of its own.
Loops == Workers \X Types

VARIABLES
    facePoints,    \* identities with a vector in the face collection
    namePoints,    \* identities with a vector in the name collection
    identities,    \* identities with a metadata record
    minted,        \* minted[n]: the transaction that made identity n
    worker,        \* worker[w]: "running", "stopping" (SIGTERM came, ctx cancelled) or "down"
    call,          \* call[l]: the call loop l is in
    told,          \* told[t]: results posted to the callback URL of t
    lateFaces,     \* identities whose face vector may be written yet, its caller gone
    lateNames,     \* identities whose name vector may be written yet, its caller gone
    lateIdentities \* identities whose metadata may be, or was, written when its caller was gone

stores == <<facePoints, namePoints, identities, minted, lateFaces, lateNames, lateIdentities>>

Steps == {"start", "embed", "searchFace", "searchName", "rank", "upsertFace",
          "upsertName", "saveIdentity", "complete", "notify", "fail", "failAgain"}

\* faces: candidates not looked up yet; names: the name shortlist; best: the
\* best candidate so far; id: the identity being enrolled; result: the answer.
Calls == [step : Steps, txn : Txns, faces : Seq(Nat), names : SUBSET Nat,
          best : Nat, id : Nat, result : Results \cup {NoResult}]
Idle == [step |-> "idle"]
NewCall(t, step) == [step |-> step, txn |-> t, faces |-> <<>>, names |-> {},
                     best |-> 0, id |-> 0, result |-> NoResult]

ServiceTypeOK ==
    /\ facePoints \subseteq 1..Len(minted)
    /\ namePoints \subseteq 1..Len(minted)
    /\ identities \subseteq 1..Len(minted)
    /\ lateFaces \subseteq 1..Len(minted)
    /\ lateNames \subseteq 1..Len(minted)
    /\ lateIdentities \subseteq 1..Len(minted)
    /\ minted \in Seq(Txns)
    /\ worker \in [Workers -> {"running", "stopping", "down"}]
    /\ call \in [Loops -> Calls \cup {Idle}]
    /\ told \in [Txns -> SUBSET Results]

ServiceInit ==
    /\ facePoints = {} /\ namePoints = {} /\ identities = {} /\ minted = <<>>
    /\ lateFaces = {} /\ lateNames = {} /\ lateIdentities = {}
    /\ worker = [w \in Workers |-> "running"]
    /\ call = [l \in Loops |-> Idle]
    /\ told = [t \in Txns |-> {}]

At(l, step) == call[l].step = step
Txn(l) == call[l].txn
Set(l, c) == call' = [call EXCEPT ![l] = c]
Step(l, step) == call' = [call EXCEPT ![l].step = step]
-----------------------------------------------------------------------------
\* Calls that take the context fail once it is cancelled.
Cancelled(l) == worker[l[1]] = "stopping"
CallSucceeds(l) == ~Cancelled(l) /\ NoFault
CallFails(l, kind) == IF Cancelled(l) THEN NoFault ELSE Fault(kind)

\* How an identity looks to the transaction t.
Face(t, n) == FaceSim[t][minted[n]]
Demo(t, n) == SameDemo[t][minted[n]]
\* The name score counts when the identity is in the name shortlist and positive.
Name(t, n, names) ==
    IF n \in names /\ NameSim[t][minted[n]] > 0 THEN NameSim[t][minted[n]] ELSE 0
Confidence(t, n, names) == ComputeConfidence(Face(t, n), Name(t, n, names), Demo(t, n))

Entries(s) == {s[a] : a \in DOMAIN s}

\* Mutant of Shortlists: one entry less than asked for.
ShortlistsOneShort(points, sim) ==
    LET size == IF Cardinality(points) < TopK - 1 THEN Cardinality(points) ELSE TopK - 1
    IN {s \in [1..size -> points] :
          /\ \A a, b \in 1..size : a < b => s[a] # s[b] /\ sim[minted[s[a]]] >= sim[minted[s[b]]]
          /\ \A n \in points \ Entries(s) :
               \A a \in 1..size : sim[minted[s[a]]] >= sim[minted[n]]}

\* The answers of a search for the TopK of points with the highest similarity
\* sim to t: sorted, ties in any order.
Shortlists(points, sim) ==
    LET size == IF Cardinality(points) < TopK THEN Cardinality(points) ELSE TopK
    IN {s \in [1..size -> points] :
          /\ \A a, b \in 1..size : a < b => s[a] # s[b] /\ sim[minted[s[a]]] >= sim[minted[s[b]]]
          /\ \A n \in points \ Entries(s) :
               \A a \in 1..size : sim[minted[s[a]]] >= sim[minted[n]]}

\* Mutants of Verdict: a verification does not compare the demographics; a
\* duplicate is answered NEW_USER.
VerdictWithoutDemo(t, n, names) ==
    IF JobType[t] = "enroll"
    THEN DuplicateVerdict(Name(t, n, names), Demo(t, n))
    ELSE VerifyVerdict(TRUE, Live[t], Face(t, n), Name(t, n, names), TRUE)

VerdictDuplicateIsNew(t, n, names) ==
    IF JobType[t] = "enroll"
    THEN "NEW_USER"
    ELSE VerifyVerdict(TRUE, Live[t], Face(t, n), Name(t, n, names), Demo(t, n))

\* The verdict of a transaction on its best candidate.
Verdict(t, n, names) ==
    IF JobType[t] = "enroll"
    THEN DuplicateVerdict(Name(t, n, names), Demo(t, n))
    ELSE VerifyVerdict(TRUE, Live[t], Face(t, n), Name(t, n, names), Demo(t, n))
-----------------------------------------------------------------------------
\* The status becomes PROCESSING; a failure to write it is dropped.
Start(l) ==
    /\ At(l, "start")
    /\ SaveStatusQuietly(Txn(l), Plain("PROCESSING"))
    /\ Step(l, "embed")
    /\ UNCHANGED <<stores, worker, told>>

\* Mutant of Embed: a cancelled job is dropped as it is.
EmbedDropsCancelled(l) ==
    /\ At(l, "embed")
    /\ \/ CallSucceeds(l) /\ Step(l, "searchFace")
       \/ CallFails(l, "embed") /\ IF Cancelled(l) THEN Set(l, Idle) ELSE Step(l, "fail")
    /\ UNCHANGED <<status, late, stores, worker, told>>

Embed(l) ==
    /\ At(l, "embed")
    /\ \/ CallSucceeds(l) /\ Step(l, "searchFace")
       \/ CallFails(l, "embed") /\ Step(l, "fail")
    /\ UNCHANGED <<status, late, stores, worker, told>>

SearchFace(l) ==
    /\ At(l, "searchFace")
    /\ \/ /\ CallSucceeds(l)
          /\ \E s \in Shortlists(facePoints, FaceSim[Txn(l)]) :
               Set(l, [call[l] EXCEPT !.faces = s, !.step = "searchName"])
       \/ CallFails(l, "search") /\ Step(l, "fail")
    /\ UNCHANGED <<status, late, stores, worker, told>>

SearchName(l) ==
    /\ At(l, "searchName")
    /\ \/ /\ CallSucceeds(l)
          /\ \E s \in Shortlists(namePoints, NameSim[Txn(l)]) :
               Set(l, [call[l] EXCEPT !.names = Entries(s), !.step = "rank"])
       \/ CallFails(l, "search") /\ Step(l, "fail")
    /\ UNCHANGED <<status, late, stores, worker, told>>

\* One candidate of bestCandidate: an identity whose metadata is missing or
\* cannot be read is passed over.
Rank(l) ==
    LET c == call[l]
        n == Head(c.faces)
        better == \/ c.best = 0
                  \/ Confidence(c.txn, n, c.names) > Confidence(c.txn, c.best, c.names)
        rest == [c EXCEPT !.faces = Tail(@)]
    IN /\ At(l, "rank") /\ c.faces # <<>>
       /\ \/ n \in identities /\ NoFault /\ Set(l, IF better THEN [rest EXCEPT !.best = n] ELSE rest)
          \/ n \notin identities /\ NoFault /\ Set(l, rest)
          \/ n \in identities /\ Fault("identityRead") /\ Set(l, rest)
       /\ UNCHANGED <<status, late, stores, worker, told>>

\* Mutant of NewId: identities are counted instead.
NewIdByCount == Cardinality(identities) + 1

\* NewUUID: an id no call has had before.
NewId == Len(minted) + 1

\* All candidates seen: an enrollment without a duplicate makes an identity,
\* anything else has its answer.
Decide(l) ==
    LET c == call[l]
        isNew == JobType[c.txn] = "enroll" /\ ~IsDuplicate(c.best # 0, IF c.best = 0 THEN 0 ELSE Face(c.txn, c.best))
        verdict == IF c.best = 0 THEN "NO_MATCH" ELSE Verdict(c.txn, c.best, c.names)
    IN /\ At(l, "rank") /\ c.faces = <<>>
       /\ IF isNew
          THEN /\ minted' = Append(minted, c.txn)
               /\ Set(l, [c EXCEPT !.id = NewId, !.step = "upsertFace"])
          ELSE /\ UNCHANGED minted
               /\ Set(l, [c EXCEPT !.result = [verdict |-> verdict, id |-> c.best], !.step = "complete"])
       /\ NoFault
       /\ UNCHANGED <<status, late, facePoints, namePoints, identities,
                      lateFaces, lateNames, lateIdentities, worker, told>>

\* Mutant of UpsertFace: its error is ignored.
UpsertFaceIgnoresError(l) ==
    LET stored == facePoints' = facePoints \cup {call[l].id} IN
    /\ At(l, "upsertFace")
    /\ \/ CallSucceeds(l) /\ stored
       \/ CallFails(l, "upsert") /\ (stored \/ UNCHANGED facePoints)
    /\ Step(l, "upsertName")
    /\ UNCHANGED <<status, late, namePoints, identities, minted,
                   lateFaces, lateNames, lateIdentities, worker, told>>

\* Mutant of UpsertFace: an upsert that fails is tried again under a new id.
UpsertFaceAgainAsNew(l) ==
    LET stored == facePoints' = facePoints \cup {call[l].id} IN
    /\ At(l, "upsertFace")
    /\ \/ CallSucceeds(l) /\ stored /\ Step(l, "upsertName") /\ UNCHANGED minted
       \/ /\ CallFails(l, "upsert") /\ (stored \/ UNCHANGED facePoints)
          /\ minted' = Append(minted, Txn(l)) /\ Set(l, [call[l] EXCEPT !.id = NewId])
    /\ UNCHANGED <<status, late, namePoints, identities,
                   lateFaces, lateNames, lateIdentities, worker, told>>

\* The caller of an upsert is cancelled or runs into its timeout before the
\* vector store applies it.
UpsertIsLate(l) == "lateWrite" \in FaultKinds /\ CallFails(l, "lateWrite")

\* An upsert that fails has been applied, is never applied, or is applied later.
UpsertFace(l) ==
    LET id == call[l].id
        stored == facePoints' = facePoints \cup {id} /\ UNCHANGED lateFaces
    IN
    /\ At(l, "upsertFace")
    /\ \/ CallSucceeds(l) /\ stored /\ Step(l, "upsertName")
       \/ CallFails(l, "upsert") /\ (stored \/ UNCHANGED <<facePoints, lateFaces>>) /\ Step(l, "fail")
       \/ UpsertIsLate(l) /\ lateFaces' = lateFaces \cup {id} /\ UNCHANGED facePoints /\ Step(l, "fail")
    /\ UNCHANGED <<status, late, namePoints, identities, minted, lateNames, lateIdentities, worker, told>>

\* Mutant of UpsertName: its error is ignored.
UpsertNameIgnoresError(l) ==
    LET stored == namePoints' = namePoints \cup {call[l].id} IN
    /\ At(l, "upsertName")
    /\ \/ CallSucceeds(l) /\ stored
       \/ CallFails(l, "upsert") /\ (stored \/ UNCHANGED namePoints)
    /\ Step(l, "saveIdentity")
    /\ UNCHANGED <<status, late, facePoints, identities, minted,
                   lateFaces, lateNames, lateIdentities, worker, told>>

UpsertName(l) ==
    LET id == call[l].id
        stored == namePoints' = namePoints \cup {id} /\ UNCHANGED lateNames
    IN
    /\ At(l, "upsertName")
    /\ \/ CallSucceeds(l) /\ stored /\ Step(l, "saveIdentity")
       \/ CallFails(l, "upsert") /\ (stored \/ UNCHANGED <<namePoints, lateNames>>) /\ Step(l, "fail")
       \/ UpsertIsLate(l) /\ lateNames' = lateNames \cup {id} /\ UNCHANGED namePoints /\ Step(l, "fail")
    /\ UNCHANGED <<status, late, facePoints, identities, minted, lateFaces, lateIdentities, worker, told>>

\* Mutant of SaveIdentity: its error is ignored.
SaveIdentityIgnoresError(l) ==
    LET stored == identities' = identities \cup {call[l].id} IN
    /\ At(l, "saveIdentity")
    /\ \/ NoFault /\ stored
       \/ Fault("identityWrite") /\ (stored \/ UNCHANGED identities)
    /\ Set(l, [call[l] EXCEPT !.result = [verdict |-> "NEW_USER", id |-> call[l].id],
                              !.step = "complete"])
    /\ UNCHANGED <<status, late, facePoints, namePoints, minted,
                   lateFaces, lateNames, lateIdentities, worker, told>>

\* The metadata store does not take the context, but gives up after three
\* seconds: the SET may be executed after that.
SaveIdentity(l) ==
    LET id == call[l].id
        stored == identities' = identities \cup {id} /\ UNCHANGED lateIdentities
    IN
    /\ At(l, "saveIdentity")
    /\ \/ /\ NoFault /\ stored
          /\ Set(l, [call[l] EXCEPT !.result = [verdict |-> "NEW_USER", id |-> id], !.step = "complete"])
       \/ Fault("identityWrite") /\ (stored \/ UNCHANGED <<identities, lateIdentities>>) /\ Step(l, "fail")
       \/ /\ Fault("lateWrite") /\ lateIdentities' = lateIdentities \cup {id}
          /\ UNCHANGED identities /\ Step(l, "fail")
    /\ UNCHANGED <<status, late, facePoints, namePoints, minted, lateFaces, lateNames, worker, told>>

Complete(l) ==
    /\ At(l, "complete")
    /\ SaveStatusQuietly(Txn(l), Completed(call[l].result))
    /\ Step(l, "notify")
    /\ UNCHANGED <<stores, worker, told>>

\* Mutant of Notify: a callback that fails makes the job fail.
NotifyFailsJob(l) ==
    LET posted == told' = [told EXCEPT ![Txn(l)] = @ \cup {call[l].result}] IN
    /\ At(l, "notify")
    /\ \/ CallSucceeds(l) /\ posted /\ Set(l, Idle)
       \/ CallFails(l, "callback") /\ (posted \/ UNCHANGED told) /\ Step(l, "fail")
    /\ UNCHANGED <<status, late, stores, worker>>

\* The callback of processEvent (every transaction gives a URL here): posted
\* once, and a failure, after which it may have arrived, is only logged.
Notify(l) ==
    LET posted == told' = [told EXCEPT ![Txn(l)] = @ \cup {call[l].result}] IN
    /\ At(l, "notify")
    /\ \/ CallSucceeds(l) /\ posted
       \/ CallFails(l, "callback") /\ (posted \/ UNCHANGED told)
    /\ Set(l, Idle)
    /\ UNCHANGED <<status, late, stores, worker>>

\* An error of the service writes FAILED, and processEvent writes it again.
Fail(l) ==
    /\ At(l, "fail")
    /\ SaveStatusQuietly(Txn(l), Plain("FAILED"))
    /\ Step(l, "failAgain")
    /\ UNCHANGED <<stores, worker, told>>

FailAgain(l) ==
    /\ At(l, "failAgain")
    /\ SaveStatusQuietly(Txn(l), Plain("FAILED"))
    /\ Set(l, Idle)
    /\ UNCHANGED <<stores, worker, told>>

Work(l) ==
    \/ Start(l) \/ Embed(l) \/ SearchFace(l) \/ SearchName(l) \/ Rank(l) \/ Decide(l)
    \/ UpsertFace(l) \/ UpsertName(l) \/ SaveIdentity(l)
    \/ Complete(l) \/ Notify(l) \/ Fail(l) \/ FailAgain(l)

\* A store executes a write nobody waits for any more.
LandFace ==
    /\ \E n \in lateFaces : facePoints' = facePoints \cup {n} /\ lateFaces' = lateFaces \ {n}
    /\ UNCHANGED <<namePoints, identities, lateNames>>

LandName ==
    /\ \E n \in lateNames : namePoints' = namePoints \cup {n} /\ lateNames' = lateNames \ {n}
    /\ UNCHANGED <<facePoints, identities, lateFaces>>

LandIdentity ==
    /\ \E n \in lateIdentities \ identities : identities' = identities \cup {n}
    /\ UNCHANGED <<facePoints, namePoints, lateFaces, lateNames>>

Land ==
    /\ LandFace \/ LandName \/ LandIdentity
    /\ NoFault
    /\ UNCHANGED <<status, late, minted, lateIdentities, worker, call, told>>
=============================================================================
