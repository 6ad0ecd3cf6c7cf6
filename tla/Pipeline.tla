------------------------------- MODULE Pipeline -------------------------------
(***************************************************************************)
(* The whole system: the API server, the command topics, the workers and   *)
(* the stores they share.                                                  *)
(***************************************************************************)
EXTENDS Submission, Worker

vars == <<workVars, request, attempt, reply, input>>

Init == SubmitInit /\ WorkerInit

\* What the API server does not touch, and what the workers do not.
workerVars == <<stores, worker, call, told, joined, owner, position, unsettled, batch>>
serverVars == <<request, attempt, reply, input>>

Next ==
    \/ SubmitNext /\ UNCHANGED workerVars
    \/ WorkerNext /\ UNCHANGED serverVars

Spec == Init /\ [][Next]_vars

(* The runtimes keep running handlers and loops and every call has a       *)
(* timeout; the orchestrator restarts a stopped worker; the proxy assigns  *)
(* partitions that have members to own them.                               *)
Fairness ==
    /\ \A t \in Txns : WF_vars(Handle(t) /\ UNCHANGED workerVars)
    /\ \A l \in Loops : WF_vars(RunLoop(l) /\ UNCHANGED serverVars)
    /\ \A w \in Workers : WF_vars((Exit(w) \/ Restart(w)) /\ UNCHANGED serverVars)
    /\ \A type \in Types : WF_vars(Rebalance(type) /\ UNCHANGED serverVars)

FairSpec == Spec /\ Fairness
-----------------------------------------------------------------------------
TypeOK == SubmitTypeOK /\ WorkerTypeOK

(* An identity that has a metadata record can be found by every search:    *)
(* its vectors are in both collections, whatever failed or crashed before. *)
IdentityHasVectors == identities \subseteq facePoints \cap namePoints

(* What a client is told, in the status record or by callback, names an    *)
(* identity that is stored, and NEW_USER names one its own job created.    *)
Durable(t, result) ==
    /\ result.id # 0 => result.id \in identities
    /\ result.verdict = "NEW_USER" => result.id # 0 /\ minted[result.id] = t
AnswersAreDurable ==
    \A t \in Txns :
        /\ status[t].state = "COMPLETED" => Durable(t, status[t].result)
        /\ \A result \in told[t] : Durable(t, result)

(* The pipeline implements the register of identities: the metadata        *)
(* records are its entries, the results of COMPLETED records its answers.  *)
Register == INSTANCE Registry WITH
    NoAnswer <- NoResult,
    registered <- {[id |-> n, maker |-> minted[n]] : n \in identities},
    answer <- [t \in Txns |-> status[t].result]
ImplementsRegistry == Register!Spec

(* Each worker, through all that goes on around it, keeps to the abstract  *)
(* life of a process: it loses its consumers when it ends, and gains none  *)
(* while it runs.  Consumer instances left in the proxy are not part of it *)
(* (ConsumerLifecycle has them).                                           *)
Process(w) == INSTANCE ProcessLife WITH
    Consumers <- LoopsOf(w), state <- worker[w], members <- joined \cap LoopsOf(w)
WorkersAreProcesses ==
    /\ \A w \in Workers : Process(w)!Init
    /\ [][\A w \in Workers : [Process(w)!Next]_(Process(w)!vars)]_vars

(* A verdict about an existing person is about inputs that match that      *)
(* person's own, however the stores changed while the searches ran: the    *)
(* answer's identity was made from a face as similar as the verdict needs, *)
(* and for a verification from a name and demographics as similar.         *)
Supported(t, result) ==
    LET n == result.id
        name == NameSim[t][minted[n]]
    IN  /\ result.verdict = "MATCHED" => n # 0 /\ Live[t] /\ FullMatch(Face(t, n), name, Demo(t, n))
        /\ result.verdict \in {"ALREADY_EXISTS", "POTENTIAL_FRAUD"} =>
             n # 0 /\ Face(t, n) >= FaceDupThreshold
        /\ result.verdict = "PARTIAL_MATCH" =>
             n # 0 /\ IF JobType[t] = "enroll" THEN Face(t, n) >= FaceDupThreshold
                      ELSE Live[t] /\ PartialMatch(Face(t, n), name, Demo(t, n))
AnswersAreSupported ==
    \A t \in Txns : status[t].state = "COMPLETED" => Supported(t, status[t].result)

(* While no job is delivered twice and status writes succeed, the result   *)
(* posted to the callback URL is the one GET /kyc/status answers.          *)
CallbackAgreesWithStatus ==
    \A t \in Txns : \A result \in told[t] : status[t] = Completed(result)

(* working.md "Repeating the same enrollment should return                 *)
(* ALREADY_EXISTS": two enrollments of the same person never both make an  *)
(* identity.                                                               *)
SamePerson(t, u) == FaceSim[t][u] = 10000 /\ NameSim[t][u] = 10000 /\ SameDemo[t][u]
OneIdentityPerPerson ==
    \A m, n \in identities : m # n => ~SamePerson(minted[m], minted[n])

(* A second identity of a person is made only when the first was not there *)
(* to be found: a shortlist had no room for it (more than TopK vectors,    *)
(* those of failed enrollments included, match the person exactly), or its *)
(* metadata was written after the job that made it had failed.             *)
ExactMatches(points, sim) == {k \in points : sim[minted[k]] = 10000}
Crowded(points, sim, n) == Cardinality({k \in ExactMatches(points, sim[minted[n]]) : k < n}) > TopK
OneIdentityUnlessCrowdedOrLate ==
    \A m, n \in identities :
        m < n /\ SamePerson(minted[n], minted[m]) =>
            \/ Crowded(facePoints, FaceSim, n) \/ Crowded(namePoints, NameSim, n)
            \/ m \in lateIdentities

(* Nothing removes the vectors of an enrollment that failed halfway, and   *)
(* they take places in the shortlists of later searches.  There are no     *)
(* more such identities than there were failures and stops, however often  *)
(* jobs are delivered: each of those ends one enrollment at most.          *)
Enrolling == {"upsertFace", "upsertName", "saveIdentity"}
Orphans ==
    {n \in (facePoints \cup namePoints) \ identities :
        ~\E l \in Loops : call[l].step \in Enrolling /\ call[l].id = n}
OrphansArePaid == Cardinality(Orphans) <= faults

(* However often jobs about a person are delivered, everything posted to   *)
(* the callback URLs that names somebody names the same identity, whether  *)
(* it answers an enrollment or a verification.                             *)
CallbacksNameOneIdentity ==
    \A t, u \in Txns : SamePerson(t, u) =>
        \A r \in told[t], q \in told[u] :
            r.verdict # "NO_MATCH" /\ q.verdict # "NO_MATCH" => r.id = q.id

(* The same promise as clients see it: of two transactions about the same  *)
(* person at most one is answered NEW_USER.                                *)
IsNewUser(t) == status[t].result.verdict = "NEW_USER"
RepeatIsRecognised ==
    \A t, u \in Txns : t # u /\ SamePerson(t, u) => ~(IsNewUser(t) /\ IsNewUser(u))

(* A transaction is PROCESSING only while a worker is at it or its job     *)
(* waits to be delivered again: neither an error, nor a stop by SIGTERM,   *)
(* nor a crash leaves it there for good.  Holds as long as status writes   *)
(* and poll replies get through.                                           *)
Pending(t) ==
    \/ \E l \in Loops : \/ call[l] # Idle /\ call[l].txn = t
                       \/ \E p \in Partitions : t \in {batch[l][p][k] : k \in DOMAIN batch[l][p]}
    \/ \E k \in DOMAIN topic[PartitionOf[t]] :
         topic[PartitionOf[t]][k] = t /\ (k > position[PartitionOf[t]] \/ JobType[t] \in unsettled)
ProcessingIsPending == \A t \in Txns : status[t].state = "PROCESSING" => Pending(t)

(* README "final decision ... COMPLETED / FAILED": once COMPLETED, the     *)
(* record of a transaction stays as it is.                                 *)
CompletedIsFinal ==
    [][\A t \in Txns : status[t].state = "COMPLETED" => status'[t] = status[t]]_vars

(* README "ACCEPTED -> PROCESSING -> COMPLETED / FAILED": an accepted job  *)
(* is decided, and stays decided.                                          *)
Decided(t) == status[t].state \in {"COMPLETED", "FAILED"}
AcceptedIsDecided == \A t \in Txns : (reply[t] = 202) ~> []Decided(t)
=============================================================================
