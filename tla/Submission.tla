------------------------------ MODULE Submission ------------------------------
(***************************************************************************)
(* The API server: the handlers of POST /kyc/enroll and /kyc/verify with   *)
(* AsyncService.submit and the Kafka REST publisher below them.  One       *)
(* handler per transaction; they run concurrently.                         *)
(***************************************************************************)
EXTENDS StatusRecords, JobTopics, FiniteSets

CONSTANTS
    InputKinds,   \* what clients send: "valid", "invalid" (a field is), "unreadable" (the form is)
    Retries       \* KAFKA_PUBLISH_RETRIES: produce attempts per job

ASSUME SubmissionAssumption ==
    /\ InputKinds \subseteq {"valid", "invalid", "unreadable"}
    /\ Retries \in Nat \ {0}

VARIABLES
    request,      \* request[t]: where the handler of t is
    attempt,      \* attempt[t]: produce attempts made so far
    reply,        \* reply[t]: HTTP status sent, 0 for none
    input         \* input[t]: what the client sent

submitVars == <<status, late, faults, topic, request, attempt, reply, input>>
clientVars == <<reply, input>>

RequestStates == {"idle", "accepting", "publishing", "compensating", "done"}

SubmitTypeOK ==
    /\ StatusTypeOK /\ FaultsTypeOK /\ TopicTypeOK
    /\ request \in [Txns -> RequestStates]
    /\ attempt \in [Txns -> 0..Retries]
    /\ reply \in [Txns -> {0, 202, 400, 503}]
    /\ input \in [Txns -> {"none"} \cup InputKinds]

SubmitInit ==
    /\ StatusInit /\ TopicInit /\ faults = 0
    /\ request = [t \in Txns |-> "idle"]
    /\ attempt = [t \in Txns |-> 0]
    /\ reply = [t \in Txns |-> 0]
    /\ input = [t \in Txns |-> "none"]

Goto(t, state) == request' = [request EXCEPT ![t] = state]
Answer(t, code) == Goto(t, "done") /\ reply' = [reply EXCEPT ![t] = code]
-----------------------------------------------------------------------------
\* What parseMultipart and ValidateInput find.
Unreadable(kind) == kind = "unreadable"
Invalid(kind) == kind = "invalid"

\* An unreadable form is a 400, an invalid field an error of the service and so
\* a 503.
Receive(t, kind) ==
    /\ request[t] = "idle"
    /\ input' = [input EXCEPT ![t] = kind]
    /\ \/ Unreadable(kind) /\ Answer(t, 400)
       \/ Invalid(kind) /\ Answer(t, 503)
       \/ ~Unreadable(kind) /\ ~Invalid(kind) /\ Goto(t, "accepting") /\ UNCHANGED reply
    /\ UNCHANGED <<status, late, faults, topic, attempt>>

\* The ACCEPTED record is written before the job is published.
Accept(t) ==
    /\ request[t] = "accepting"
    /\ SaveStatus(t, Plain("ACCEPTED")) /\ NoFault
    /\ Goto(t, "publishing")
    /\ UNCHANGED <<topic, attempt, clientVars>>

\* Mutant of AcceptFails: the error of the write is ignored.
AcceptIgnoresError(t) ==
    /\ request[t] = "accepting"
    /\ StatusWriteFails(t, Plain("ACCEPTED"))
    /\ Goto(t, "publishing")
    /\ UNCHANGED <<topic, attempt, clientVars>>

AcceptFails(t) ==
    /\ request[t] = "accepting"
    /\ StatusWriteFails(t, Plain("ACCEPTED"))
    /\ Answer(t, 503)
    /\ UNCHANGED <<topic, attempt, input>>

\* Mutant of Publish: record errors in the answer are not looked at.
PublishUnchecked(t) ==
    /\ request[t] = "publishing"
    /\ Produce(t) \/ UNCHANGED topic
    /\ NoFault
    /\ Answer(t, 202)
    /\ UNCHANGED <<status, late, attempt, input>>

\* A produce request that is acknowledged without record errors.
Publish(t) ==
    /\ request[t] = "publishing"
    /\ Produce(t) /\ NoFault
    /\ Answer(t, 202)
    /\ UNCHANGED <<status, late, attempt, input>>

\* A produce request that fails, or whose answer has record errors: the record
\* may be in the topic nevertheless.
ProduceFails(t) == Fault("publish") /\ (Produce(t) \/ UNCHANGED topic)

\* Mutants of PublishRetried: one attempt too many, and a retry that starts
\* over with the ACCEPTED record.
PublishRetriedOnceMore(t) ==
    /\ request[t] = "publishing"
    /\ ProduceFails(t)
    /\ attempt' = [attempt EXCEPT ![t] = @ + 1]
    /\ IF attempt'[t] <= Retries THEN UNCHANGED request ELSE Goto(t, "compensating")
    /\ UNCHANGED <<status, late, clientVars>>

SubmitRetried(t) ==
    /\ request[t] = "publishing"
    /\ ProduceFails(t)
    /\ attempt' = [attempt EXCEPT ![t] = @ + 1]
    /\ Goto(t, IF attempt'[t] < Retries THEN "accepting" ELSE "compensating")
    /\ UNCHANGED <<status, late, clientVars>>

\* After a network error, a 5xx or record errors the publisher sends the record
\* again until its attempts are used up.
PublishRetried(t) ==
    /\ request[t] = "publishing"
    /\ ProduceFails(t)
    /\ attempt' = [attempt EXCEPT ![t] = @ + 1]
    /\ IF attempt'[t] < Retries THEN UNCHANGED request ELSE Goto(t, "compensating")
    /\ UNCHANGED <<status, late, clientVars>>

\* A 4xx ends the attempts at once.
PublishRefused(t) ==
    /\ request[t] = "publishing"
    /\ Fault("publish")
    /\ Goto(t, "compensating")
    /\ UNCHANGED <<status, late, topic, attempt, clientVars>>

\* Mutant of Compensate: the record stays as it is.
CompensateNothing(t) ==
    /\ request[t] = "compensating"
    /\ NoFault
    /\ Answer(t, 503)
    /\ UNCHANGED <<status, late, topic, attempt, input>>

\* The job could not be published: the record is overwritten with FAILED.
Compensate(t) ==
    /\ request[t] = "compensating"
    /\ SaveStatusQuietly(t, Plain("FAILED"))
    /\ Answer(t, 503)
    /\ UNCHANGED <<topic, attempt, input>>

\* The server stops: the handlers it ran end where they are, without an answer.
ApiCrash ==
    /\ \E t \in Txns : request[t] \notin {"idle", "done"}
    /\ Fault("apiCrash")
    /\ request' = [t \in Txns |-> IF request[t] = "idle" THEN "idle" ELSE "done"]
    /\ UNCHANGED <<status, late, topic, attempt, clientVars>>

LateStatus == LandStatus /\ UNCHANGED <<topic, request, attempt, clientVars>>
-----------------------------------------------------------------------------
Handle(t) ==
    \/ Accept(t) \/ AcceptFails(t)
    \/ Publish(t) \/ PublishRetried(t) \/ PublishRefused(t)
    \/ Compensate(t)

SubmitNext ==
    \/ \E t \in Txns : Handle(t) \/ \E kind \in InputKinds : Receive(t, kind)
    \/ ApiCrash \/ LateStatus

SubmitSpec == SubmitInit /\ [][SubmitNext]_submitVars
-----------------------------------------------------------------------------
(* README "ACCEPTED means the API accepted the request and published a     *)
(* Kafka job": whoever got a 202 has a job in the topic and a record.      *)
AcceptedIsPublished ==
    \A t \in Txns : reply[t] = 202 => Published(t) /\ status[t].state # "MISSING"

(* A job is in the topic only when its ACCEPTED record was written before, *)
(* so the worker never works on a transaction a client cannot ask for.     *)
PublishedHasRecord ==
    \A t \in Txns : Published(t) => status[t].state # "MISSING"

(* Retrying a produce request whose answer was lost duplicates the job,    *)
(* but never beyond the number of attempts.                                *)
Copies(t) == {k \in DOMAIN topic[PartitionOf[t]] : topic[PartitionOf[t]][k] = t}
CopiesAreBounded == \A t \in Txns : Cardinality(Copies(t)) <= Retries

(* A record never goes back to ACCEPTED: the API's write cannot overwrite  *)
(* what the worker wrote, since the job is published only after the write  *)
(* was acknowledged.                                                       *)
NoReturnToAccepted ==
    [][\A t \in Txns : status'[t].state = "ACCEPTED" => status[t].state \in {"MISSING", "ACCEPTED"}]_submitVars

(* A client that was refused and whose job is in no topic does not find    *)
(* its transaction ACCEPTED: nothing would ever move it on.  Holds as long *)
(* as status writes succeed.                                               *)
RefusedIsNotAccepted ==
    \A t \in Txns : reply[t] \in {400, 503} /\ ~Published(t) => status[t].state # "ACCEPTED"
=============================================================================
