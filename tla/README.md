# Visual KYC: a verification project

TLA+ modules, TLC runs and TLAPS proofs about the Visual KYC system: an API
that accepts identity checks, a topic that carries them, workers that decide
them, and the stores both share. Paths below are relative to `src/`.

## 1. Inventory

| Component | State it keeps | Operations | Talks to |
|---|---|---|---|
| API server (`api/cmd/server`, `internal/httpserver`, `services/async_service.go`) | one handler per request, nothing across requests but counters and rate buckets | `POST /kyc/enroll`, `/kyc/verify`: parse, validate, save ACCEPTED, publish, on failure save FAILED; `GET /kyc/status/t` | metadata store, Kafka REST |
| Kafka REST publisher (`messaging/kafka_rest.go`) | attempt counter of a call | `Publish` with retries, `validateProduceResponse` | Redpanda's HTTP proxy |
| Redpanda (external, `scripts/redpanda-init.sh`) | records per partition, consumer groups, positions | produce, fetch, assign partitions | API, workers |
| Kafka REST consumer (`messaging/kafka_rest.go`) | name of its instance, new in every process; the proxy keeps instance and subscription | `Start`, `Poll`, `Close` | Redpanda's HTTP proxy |
| Worker (`api/cmd/worker`) | two consumer loops, the batch of each, a context that SIGTERM cancels | `consumeLoop`, `processEvent`, start, stop | consumer, service, metadata store, callback |
| KYC service (`services/kyc_service.go`) | local variables of a call | `ProcessEnroll`, `ProcessVerify`, `bestCandidate`, scoring, explanation | embedder, vector store, metadata store |
| Metadata store (`storage/redis_metadata.go`, `storage/metadata.go`): Redis, or a JSON file | status record per transaction, record per identity; the file also in memory | `SaveStatus`, `GetStatus`, `SaveIdentity`, `GetIdentity` | API and workers |
| Vector store (`storage/qdrant.go`) | a face and a name collection | `Upsert*`, `Search*`, `EnsureCollections` | workers |
| Embedder client (`services/embedder_client.go`), inference service (`inference/`) | none | `Embed`, five attempts | workers |
| Callback client (`internal/callback`) | none | `Post` | the client's URL |
| Rate limiter, counters, JWT, CORS | a bucket per forwarded address (or address and port of the connection), three counters | `Allow`, `Inc*`, `SignJWT` | API |
| Encryption, hashes, DIDs, ids (`security`, `did`, `utils`) | none | pure functions | API, workers |
| Frontend (`frontend/app.js`) | transaction id, poll timer | submit, `pollUntilDone` | API |
| Deployment (`docker-compose.yml`, `helm`, `k8s`, `monitoring`, `scripts`) | none | start and restart processes | all |

How a transaction goes: the API writes `ACCEPTED` to the metadata store, appends
a job to `kyc_enroll` or `kyc_verify`, answers 202. A worker's loop for that
topic polls the job, writes `PROCESSING`, embeds image and name, searches both
collections, ranks the candidates with `bestCandidate`, and either answers from
the best one or makes an identity in three writes (face vector, name vector,
metadata). It writes `COMPLETED` with the result and posts it to the callback
URL; any error writes `FAILED`, twice.

What is hard in it:

* **Concurrency.** API handlers and workers write the same status records with
  blind whole-record writes. Searching and inserting are separate calls, other
  workers act in between.
* **Delivery.** Produce requests are retried, so jobs are duplicated. Offsets
  are never committed and instances start at `earliest`, so every restart and
  every rebalance delivers the whole topic again. A lost poll reply skips records.
* **Partial failure.** Identities are made in three writes to two stores; errors
  of status writes and callbacks are dropped.
* **Late writes.** A write whose caller gave up waiting (`redis_metadata.go:105`) may be
  executed afterwards, over a newer record or beside a newer identity.
* **Starting.** A start is four dependencies tried up to 120 times each, in order;
  `Start` of a consumer makes two requests, either of which may be lost halfway.
* **Stopping.** SIGTERM cancels the context of the call in progress, but the loop
  still works off its batch. A crash loses calls and batches.
* **The browser.** Polls of one page overlap between their awaits and share a timer.
* **Numbers.** Thresholds, literals, rounding to four decimals, ties.

What makes each part correct: an accepted job is published and recorded and is
eventually decided (API, workers); answers name identities that exist, and an
identity that exists can be found (service); one identity per person (service,
with restarts); a save that was acknowledged is kept (stores); a worker that is started polls both topics in the end,
alone, unless the proxy drops an instance on the way (consumers);
no more than the limit is admitted and nobody is refused without cause (limiter); verdict, reasons, record and callback agree (scoring, worker).
`PROJECT.json` lists each hazard with its line and the properties aimed at it.

## 2. Modules

| Module | Models | Correspondence |
|---|---|---|
| `Faults` | the budget of failures of a behaviour | `FaultKinds` says which external calls fail and which processes stop, `MaxFaults` how often |
| `Transactions` | transaction ids and their job type | one transaction is one HTTP request |
| `StatusRecords` | status records of the metadata store | `status[t]`; `SaveStatus` replaces the record, `SaveStatusQuietly` is `saveStatus`, which drops errors; `late` holds the writes Redis has not executed when their callers give up, `LandStatus` executes one |
| `JobTopics` | the command topics as the API writes them | `topic[p]`; a copy of a job is its transaction, keyed to one partition |
| `Submission` | handlers, `submit`, `Publish` | `request[t]` is the place of the handler of `t`, `attempt[t]` the loop counter of `Publish`, `reply[t]` the HTTP status |
| `Scoring` | `computeConfidence`, thresholds, verdicts, `explainDecision` | pure operators on ten-thousandths |
| `BestCandidate` | `bestCandidate` and what is decided from it | one step per loop iteration; `i`, `j` are the loop indexes, `best` the candidate kept |
| `KYCService` | `ProcessEnroll`, `ProcessVerify`, and the end of `processEvent` | `call[l].step` is the next external call of loop `l`; one action per call; `lateFaces`, `lateNames`, `lateIdentities` are writes their callers gave up, `Land` executes one |
| `KeyValue` | the abstract metadata store | `stored[k]`; every call takes effect at one moment between its start and its answer, a failed save perhaps later |
| `StoreCalls` | the calls both stores answer | `phase[c]` is how far a call is, a value is named by the save that wrote it |
| `JSONStore` | `JSONMetadataStore` | `memory` is `s.data`, `file` and `tmp` the two files, `holder` who has the mutex; a step per `os` call |
| `RedisStore` | `RedisMetadataStore` and the server's side (external) | `inbox` the commands that reached the server, `reply` its answers, `redis` its records |
| `MetadataStore` | the store `main` chose, and its refinement of `KeyValue` | `backend` |
| `ConsumerLifecycle` | start and end of `cmd/worker`, `Start`, `Close`, `EnsureCollections` | `stage` is the dependency being tried, `attempt` the counter of `retryWithLog`, `instances` what the proxy remembers, `dropped` the groups whose instance the proxy dropped and no attempt created again |
| `ProcessLife` | the abstract life of a worker process: down, running, stopping, and which of its consumers are members of their groups | implemented by `ConsumerLifecycle` and, separately, by every worker of `Worker`; leftover instances are not part of it |
| `RateLimiter` | `rateLimiter` | `bucket[c]`, and `admitted[c]`, the times at which `c` was admitted, which the code does not keep and the properties speak of |
| `HttpServer` | the composition of `Submission` and `RateLimiter` | a request is admitted and handled, or refused |
| `StatusPolling` | `submitJob` and `pollUntilDone` of the frontend | `timers` are the running intervals, `pollTimer` the one `state.pollTimer` names, `open` the requests under way |
| `ConsumerGroups` | the proxy's consumer groups (external) | `joined`, `owner`, `position`, `unsettled` |
| `Worker` | `cmd/worker`: loops, batches, SIGTERM, exit, crash, restart | `batch[l][p]` is the rest of `events` in `consumeLoop`, by partition |
| `Pipeline` | the composition of `Submission` and `Worker` | they share `status`, `topic` and `faults` |
| `Registry` | the abstract specification | a register of identities that only grows, answers about registered identities only |
| `MCBestCandidate`, `MCPipeline`, `MCHttpServer`, `MCMetadataStore`, `MCStatusPolling` | instances for TLC | people, similarities, partitions, clients, keys |
| `SubmissionProofs`, `PipelineProofs`, `OutcomeProofs`, `HttpProofs`, `StoreProofs`, `LifecycleProofs`, `ScoringProofs`, `BestCandidateProofs` | theorems | section 5 |

How they fit: `Pipeline` composes the server with the workers and implements
`Registry`; `HttpServer` puts the limiter in front of the same server and
implements `Submission`; `MetadataStore` implements `KeyValue`, whose promise is
what `StatusRecords` and `KYCService` take for a status or identity write: a
whole record, or a failure that has had its effect, never has it, or has it later,
over newer writes. `ConsumerLifecycle` models the start and the end of a worker
request by request and stands alone: `Worker` has single steps for them. Each of the two
implements `ProcessLife`: loops begin with every consumer unless something failed, never
after a SIGTERM during the start, and a lost consumer is not regained while the process
lives. That is all they are shown to have in common. In particular `Worker` removes the
members of a process in the step that ends it, while in `ConsumerLifecycle` its
instances may stay in the proxy for a while; to the workers of `Pipeline` such a
leftover is the time before a `Rebalance`.

Operators whose comment begins with "Mutant of" are not part of any
specification: each is a plausible mistake in the code, and shows which
property would notice it.

What the abstraction leaves out, deliberately:

* Images, vectors and names are replaced by the similarity of two transactions'
  inputs (`FaceSim`, `NameSim`), hashes of date of birth and gender by whether
  they are equal (`SameDemo`). Search is exact; ties come in any order.
* Scores are integers, ten-thousandths of the code's `float64`; weighted sums are
  exact.
* An identity is the number of the UUID made for it: `NewUUID` never repeats.
* The five attempts of `Embed` are one outcome, as no attempt has an effect
  anyone sees.
* A produce request that is answered 2xx with an empty or unknown body counts as
  appended, as the code takes it. With record errors or without offsets it is a
  failure that is retried.
* An external call that fails may have had its effect or not, wherever the code
  cannot know (`Produce`, upserts, metadata writes, callbacks). The fault kind
  `lateWrite` is a write that has its effect after its caller gave it up: a status
  record, whether the caller drops the error or returns it, a face or name vector, the
  metadata of an identity. It may take effect at any later time or never. A process
  that ends with a write under way is a late failure followed by the crash. Produce requests
  and callbacks need no late case: the topic is read later anyway, and `told` is a set.
* Every transaction gives a callback URL. Only the service's result is posted.
* The events the worker writes to its local audit log, and the audit copies of
  the API, are left out: nothing reads them. Duration, logging and the fields
  `Type`, `CallbackURL` and `Error` of a record are left out.
* The second `GetIdentity`, after the best candidate is known, only fills in the
  DID and is left out.
* In `Worker` the start of a process is one step; `ConsumerLifecycle` has its
  parts. There the two collections and the groups are what later steps need; the
  time between attempts is left out. To its surroundings the process is `down` there until its loops begin
  and again from when they have returned, so instances of a start that is under way, or not deleted yet,
  count as nobody's (`EventuallyServing` is about getting rid of them).
* `JSONStore` has one process per file: the worker and the server share Redis in
  every deployment file. `json.Marshal` of records does not fail, a rename is
  atomic, and what was written is on disk.
* `RedisStore` assumes that the server keeps its records over a restart:
  `docker-compose.yml` gives it a volume (`redis-data`), the Helm chart does not, and with it a new
  pod starts empty, which is not modelled. The reply of a get is the value or, after a
  short `Read`, something no JSON parser takes.
* `RateLimiter` has a clock in ticks; its map of buckets never shrinks in the
  code, which is memory and not modelled.
* In `StatusPolling` a click on the button passes the event as `maxAttempts`, as
  the listener does, so a poll by click never times out. The answer of a
  request says what was the case when it was sent or what is when it arrives.
* The batch of a poll has its partitions in any interleaving.
* `ConsumerGroups` rests on one assumption about the proxy: it commits no offset
  unless a client asks it to. No code of the repository asks.

## 3. Runs

Every run leaves deadlock unchecked: after its finitely many requests, calls or
lives the system comes to rest, as it should.

| Run | Instance | Shows |
|---|---|---|
| `candidates` | 2 identities, shortlists up to 2, similarities -0.01, 0.70, 0.79, 0.81, 0.82, 1, any lookup failing | `bestCandidate` keeps the first maximum of what it could read; an exact repeat is always `ALREADY_EXISTS`; enrollment and verification agree on duplicates; reasons support the verdict |
| `http` | 1 client, 2 enrollments and a verification, 3 attempts, 4 failures among produce, status write, late status write, server crash; limit 2, window 2, 5 ticks | 202 means published and recorded; published means recorded; at most `Retries` copies; at most two bursts in a window, no refusal without cause |
| `recovery` | 2 enrollments of one person, 1 worker, 2 attempts, shortlists of 2, any 3 failures of 14 kinds, late writes among them | types; identities searchable; answers durable; one identity per person unless more exactly matching vectors than a shortlist has places crowd it out or its own metadata was written late; no more leftovers of unfinished enrollments than failures; no way back to `ACCEPTED`; the register and the life of a process are implemented |
| `verify` | a person, a look-alike, a verification; 3 failing calls, no redelivery | verdicts supported by the inputs; callback and record agree; `COMPLETED` stays |
| `two_workers` | 2 enrollments in 2 partitions, 2 workers, 1 failure | answers are durable, ids unique, and nothing is left `PROCESSING` for good while two workers may run the same transaction |
| `progress` | an enrollment and a verification of one person, 1 worker, shortlists of 8, 2 failures, fair | a 202 leads to `COMPLETED` or `FAILED` for good; a refused client does not find `ACCEPTED`; one identity per person, and every callback that names somebody names it |
| `stores` | 2 saves and 2 gets of a record, a save of another; 3 failures of 8 kinds, either store | both stores are the linearizable `KeyValue`; the file is whole; no acknowledged save is only in memory |
| `lifecycle` | 4 lives, 3 attempts, 3 failures among dependencies, SIGTERM, crash, expiry; fair | loops run with both collections and with a subscribed instance in exactly the groups whose instance the proxy has not dropped; the abstract life is implemented; a worker that in the end misses no dropped instance polls both topics, alone |
| `replay` | 1 job, one SIGTERM and restart | counterexample: `COMPLETED` goes back to `PROCESSING` |
| `race` | 2 enrollments, 2 workers, no failure | counterexample: both are `NEW_USER` |
| `stranded` | 1 job, one lost consumer instance, fair | counterexample: the job stays `ACCEPTED` |
| `polling` | both forms and one click, no failure, fair | counterexample: an interval that nobody remembers goes on asking after both jobs are decided |

Bounds and why they are enough. The properties relate at most two transactions
or identities, so two enrollments (and a verification, where verdicts matter)
show their violations; the theorems of section 5 need no bound. `MaxFaults` lets
a failure meet another one and its recovery: three in `recovery` is, for
example, a lost produce reply, a failed upsert and a crash. One attempt more
than needed for a retry (`Retries` 2) has both a retry and a last attempt;
`http` uses 3. `TopK` is
8, the code's default (`TOP_K`), wherever it is not the subject: more than the
points an instance can make, so shortlists are complete. `recovery` has 2, so that
the vectors of two enrollments that failed halfway can fill a shortlist; the
unconditional `OneIdentityPerPerson` fails there. Five ticks
with a window of two reach past the end of two windows, and a limit of two tells a
full bucket from a half-full one. In `stores` two saves of a key, a get on
either side and a third save that carries a failed one along give every
order the store's promise distinguishes; three failures allow a failed flush,
a crash and a failed load. Four lives leave an instance of every earlier life
behind with one failure each. `polling` needs one open request per timer.
Similarities in `candidates` hit every threshold of `explainDecision` and of the
decisions at or beside its boundary. In `MCPipeline` the twin's face (0.83) is
above the duplicate threshold and the name (0.90) above the name threshold, so
only demographics tell the two people apart.

Which failures a run leaves out is part of what it says. `OneIdentityPerPerson`
holds with one worker (see `race`) and without `identityRead`: with it, one failed
lookup of a candidate (`kyc_service.go:219`) makes a second `NEW_USER` of a known person.
`AcceptedIsDecided` holds without `instanceLost` (see `stranded`), without lost
poll replies (a skipped batch is read again only after a restart) and without
failing status writes (a dropped one may be the last). `CallbackAgreesWithStatus`
and `CompletedIsFinal` hold while nothing is delivered twice.

Late writes are in `http` and `recovery`. They are not in `verify`, `progress` and
`two_workers`, since properties of each do not hold with them: a late `PROCESSING` replaces `COMPLETED`
(against `CompletedIsFinal`, `CallbackAgreesWithStatus`, `ProcessingIsPending`,
`AcceptedIsDecided`), a late `ACCEPTED` appears after its client was refused
(`RefusedIsNotAccepted`), and an identity whose metadata is written late, when a
repeat has been enrolled, is a second identity of its person (`OneIdentityPerPerson`,
`CallbacksNameOneIdentity`). `OneIdentityUnlessCrowdedOrLate` says
that, with one worker and readable metadata, a crowd and such a write are the only ways to
two identities. `replay`, `race` and `stranded`
have only the failures their counterexamples need.

The similarities of `candidates` are multiples of 0.01, at which rounding to four
decimals makes no tie: there ties come from clamping and from equal sums.
`BestIsKept` covers every similarity.

`EventuallyServing` says of a worker that in the end lacks no instance the proxy dropped
(`<>[](dropped = {})`) that it polls both topics, as the only member of each group. Every
half-done `Start` and every leftover of the three earlier lives is covered; an instance
dropped after its `Start` is not, since nothing in the code notices it
(`main.go:113`): that is `stranded`.

An observation no run has: `submit` answers every error of the service, an
invalid field included, with 503, where `api/openapi.yaml:54` has 400, "Invalid request".
`Submission` models what the code does.

Symmetry (identities, workers, the two enrollments) is used only in runs of
invariants; the constants involved do not tell the permuted values apart.

## 4. Fairness

Only `progress`, `replay`, `stranded`, `lifecycle` and `polling` assume fairness, all of it weak:

* a handler that has begun goes on (`Handle`): the Go runtime schedules it and
  every call in it has a timeout;
* a consumer loop goes on (`RunLoop`): it polls again after at most a second, and
  all its calls have timeouts;
* a stopping worker exits once its loops have returned, a stopped one is started
  again (`Exit`, `Restart`): `restart` in `docker-compose.yml`, the Deployment in
  `helm`;
* the proxy assigns the partitions of a group that has members (`Rebalance`);
* in `lifecycle` the process runs on (`Run`: every request of the start has a timeout,
  every retry ends), is launched again after it ended (`Launch`), and the proxy
  drops instances of dead processes (`DropDead`, external: its idle timeout);
* in `polling` intervals fire, requests are answered, jobs are decided.

No fairness is assumed of clients or failures. `AcceptedIsDecided` is
`(reply = 202) ~> []Decided`: since every delivery reopens the record, it needs
that redelivery ends, which it does as failures are finitely many.

## 5. Proofs

`tlapm` proves the following for every number of transactions, partitions,
workers, attempts and failures and for every similarity and threshold, assuming
the named `ASSUME`s of the modules (types of the constants, `Retries` and `TopK` at
least 1, a job's partition belongs to its topic) and, where the last column has
one, the hypothesis of the theorem. What a hypothesis excludes is needed: see
below.

| Theorem | Statement | Hypothesis |
|---|---|---|
| `SubmitTypeCorrect` | `SubmitSpec => []SubmitTypeOK` | |
| `SubmissionSafe` | `SubmitSpec => [](AcceptedIsPublished /\ PublishedHasRecord)` | |
| `DuplicatesAreBounded` | `SubmitSpec => []CopiesAreBounded` | |
| `TypeCorrect` | `Spec => []TypeOK` | |
| `IdentitiesAreSearchable` | `Spec => []IdentityHasVectors` | |
| `AnswersLast` | `Spec => []AnswersAreDurable` | |
| `AcceptedStaysPublished` | `Spec => [](AcceptedIsPublished /\ PublishedHasRecord)` | |
| `AcceptedIsFirst` | `Spec => NoReturnToAccepted` | |
| `RegistryImplemented` | `Spec => ImplementsRegistry` | |
| `RefusalsLeaveNothing` | `SubmitSpec => []RefusedIsNotAccepted` | no `statusWrite`, `Prompt`: no `lateWrite` |
| `RefusalsStayRefusals` | `Spec => []RefusedIsNotAccepted` | no `statusWrite`, `Prompt` |
| `VerdictsAreSupported` | `Spec => []AnswersAreSupported` | `NameMatchThreshold > 0` |
| `NothingIsLeftProcessing` | `Spec => []ProcessingIsPending` | no `statusWrite`, `lateWrite`, `pollReply` |
| `RecordsAreFinal` | `Spec => CompletedIsFinal` | `Steady`: no `publish`, `sigterm`, `workerCrash`, `instanceLost`, `lateWrite` |
| `CallbacksAgree` | `Spec => []CallbackAgreesWithStatus` | `Steady`, no `statusWrite` |
| `OrphansAreBounded` | `Spec => []OrphansArePaid` | |
| `PersonsAreRecognised` | `Spec => []OneIdentityUnlessCrowdedOrLate` | `OneAtATime`: one worker, no `identityRead` |
| `OneIdentityWhileRoom` | `Spec => [](RoomFor(faults) => OneIdentityUnlessLate)` | `OneAtATime`, `Persons` |
| `NoSecondIdentity` | `Spec => []OneIdentityPerPerson` | `OneAtATime`, `Persons`, `RoomFor(MaxFaults)`, `Prompt` |
| `RepeatsAreRecognised` | `Spec => []RepeatIsRecognised` | the same |
| `CallbacksNameThePerson` | `Spec => []CallbacksNameOneIdentity` | the same, `FacesDiffer`, `NameMatchThreshold > 0` |
| `LimiterTypeCorrect` | `HttpSpec => []LimiterTypeOK` | |
| `LimiterIsTransparent` | `HttpSpec => SubmitSpec` | |
| `AcceptedThroughLimiter` | `HttpSpec => [](AcceptedIsPublished /\ PublishedHasRecord /\ CopiesAreBounded)` | |
| `BurstsAreBounded` | `HttpSpec => []AdmissionIsBounded` | |
| `RefusalsAreDeserved` | `HttpSpec => []RefusalIsDeserved` | |
| `CandidateTypeCorrect` | `Spec => []TypeOK` (`bestCandidate`) | |
| `NameMapIsMaximum` | `Spec => []NameScoresAreMaxima` | |
| `BestIsKept` | `Spec => []BestIsFirstMaximum` | |
| `RepeatIsRecognised` | `Spec => []ExactRepeatIsRecognised` | `NameMatchThreshold` at most 0.9998 |
| `VerdictsAgree` | `Spec => []EnrollAndVerifyAgree` | `DuplicateIsStrictest` |
| `ReasonsSupport` | `Spec => []ExplanationSupportsVerdict` | `ReasonsBelowThresholds` |
| `StoreTypeCorrect` | `Spec => []TypeOK` (both stores) | |
| `FileStaysWhole` | `Spec => []FileIsWhole` | |
| `AcknowledgedStays` | `Spec => []AcknowledgedIsInFile` | |
| `KeyValueImplemented` | `Spec => ImplementsKeyValue` | |
| `LifecycleTypeCorrect` | `Spec => []TypeOK` (lifecycle) | |
| `LoopsStartReady` | `Spec => []RunningIsReady` | |
| `ProcessImplemented` | `Spec => ImplementsProcess` (lifecycle) | |

Hardly one of these is inductive alone. The server's invariant `SubmitInv` adds that
before a handler writes its record there is neither a record nor a job, and from
then on there is a record; `AttemptLeft`, in `SubmitTypeInv`, that a handler
which is still publishing has an attempt left. `CopiesInv` adds that a handler
under way has no more copies of its job in the topic than attempts it made: the
acknowledged copy comes with its last step. For the whole system

    PipelineInv == TypeInv /\ ServiceInv /\ SubmitInv /\ Delivered

* `TypeInv`: the type invariants and `AttemptLeft`;
* `ServiceInv`: what a call in progress knows. A call that is past an upsert has its
  id in that collection; its best candidate is stored and a result that waits to be
  written is durable; an id being enrolled was minted by the call's own transaction
  and is not stored yet, and no two calls enroll the same id (`OwnIds`, without
  which one call could store the identity of another). What is still to be written
  late is of the same kind (`LateInv`): records whose answers are durable, identities
  that have both vectors. These are the facts
  `SaveIdentity`, `Complete`, `LandIdentity` and `LandStatus` need;
* `SubmitInv`: as above, now under workers that overwrite records;
* `Delivered`: every record is in the partition of its key, and whatever is in a
  batch or in a call was published, so a worker never writes a record the API has not written first.
  This is what makes `NoReturnToAccepted` and `PublishedHasRecord` survive the
  composition.

`PipelineProofs` has one lemma per action of `KYCService` for `ServiceInv` and the
frame facts of `Work`, joins them with the server's and the
worker's steps and proves the refinement: a step that stores an identity, in time or late, is a
`Register` of its maker, a step that writes a record is an `Answer` or a
`Withdraw`, every other step stutters.

`OutcomeProofs` adds to `PipelineInv`, for what a client ends up with, the following.
Theorems that hold without late writes only use `NothingLate` (`PromptInvariance`): nothing
is ever left to be written late.

* `RefusedInv`: a handler that refused has ended, and its record is not
  `ACCEPTED`. A compensation whose status write fails would leave it so, hence no
  `statusWrite`; that the workers cannot bring `ACCEPTED` back is `ServerStatus` and
  `WorkStatus`.
* `SupportedInv`: what `Supported` says of records and callbacks also holds of the
  results that calls still carry: `MATCHED`, `ALREADY_EXISTS` and `POTENTIAL_FRAUD`, and
  `PARTIAL_MATCH`, which means another thing of an enrollment than of a verification. It survives every interleaving as an identity's
  maker never changes (`WorkGrows`). A threshold of 0 or less would let a name count
  as matching whose similarity the code never looked up (`kyc_service.go` starts the score at 0).
* `ByType` (loops own partitions of their topic and hold jobs of their type) and
  `HeldInv`: a `PROCESSING` record belongs to a call that will write again, or its job
  is in a batch, ahead of the position of its partition, or in a topic about to be
  assigned anew. With `statusWrite` the last write may be dropped, with `pollReply` a
  position moves past records nobody got.
* `OnceInv`: while `Steady`, a job is in its topic once (`ProducedOnce`), a
  partition is assigned for the first time only (`FirstAssignment`), batches hold
  each job once and only what their loop owns (`BatchOnce`), and a call whose
  transaction is finished is at its callback (`CallOnce`, `FinishedOnce`). Each
  excluded failure delivers a job twice, and `replay` shows what follows, or writes an
  older record over a newer one. With
  `NotifyInv` (a call at its callback has written the record) it gives `CallbacksAgree`.
* `PersonInv`: the id being enrolled is the latest one made (`LatestOf`); an
  enrollment that has searched is still going to look at each identity of its
  person, or has a candidate of confidence 1, or that identity was crowded out
  (`SearchOf`); and whoever was given a second id was crowded out (`MintInv`). Both speak of the
  identities whose metadata was not left to be written late (`Kept`): one of the others may appear at
  any time, after the search it should have been found by. A vector that is written late can only add
  to a crowd. It rests on
  `ShortlistHasTop` (a sorted shortlist lacks an exact match only when it is full of
  them), on `ScoringProofs` (an exact repeat rounds to confidence 1, and only a
  face of similarity 1 reaches that, which no duplicate threshold rejects), and on
  enrollments that do not overlap: `race` has the counterexample with two workers. A lookup that
  fails (`identityRead`) passes the person's identity over.

* `BudgetInv`: what unfinished enrollments have cost is paid for by failures. What is
  owed (`Owed`) are the ids that were made and will not be stored in time, and the enrollments that
  are doomed: past their searches, on a worker that is stopping. `bestCandidate`
  does not look at the context, the upserts after it do, so such a call still makes an id and then
  fails. A step owes nothing new, or one thing more for one more
  failure, or swaps a doomed call for its id (`Accounts`); a SIGTERM or a crash meets one
  enrollment at most, because a worker has one loop for them (`OneEnrollLoop`).
  `OrphansArePaid` alone is not inductive: it does not know which calls will fail.

`PersonsAreRecognised` allows crashes, redeliveries and half-made identities; what
they leave behind counts in `Crowded`. `OrphansAreBounded` bounds it, for any number of
workers. Together they say when there is one identity per person without mention of
the stores (`OneIdentityWhileRoom`): the exact matches ahead of a new
enrollment are stored identities of pairwise different persons, orphans, and identities stored late, which are paid for like orphans, so a shortlist has them all as
long as it has room (`RoomFor`) for those who share the face or the name exactly and for
one vector per failure. `Persons` says that matching exactly in face, name and demographics is
an equivalence, as equal inputs are; `OneIdentityUnlessLate`, that only the first of two
identities can have been stored late, is its own induction hypothesis there. `NoSecondIdentity` is its
case without late writes. With the code's `TOP_K` of 8, three people of one name and five
failures fit; more of either, and a person may be enrolled twice (`recovery` shows it for `TopK` 2). `RepeatsAreRecognised` is
the sentence of `working.md` that `race` refutes for two workers. `CallbacksNameThePerson`
joins `NoSecondIdentity` with `VerdictsAreSupported`: a verdict that names somebody is backed by
a face above a threshold, with `FacesDiffer` this is the person's own, and the person has one identity.

`BestCandidateProofs` proves the loop of `bestCandidate` with `CandidateInv`: the map
built so far is the maximum over the names read (`NameScoresAreMaxima`), the
candidate kept is the first maximum over the faces read (`BestIsFirstMaximum`), and
`Scanning` ties both to the loop indexes. The three theorems about decisions
follow from it by arithmetic (`ScoringProofs`). Their hypotheses hold of the
defaults (`config.go:59-62`: 0.82, 0.80, 0.70, 0.72) and are what an operator who changes them should keep:
rounding makes a name of 0.9998 tie with 1, a duplicate must be at least as strict as
a match, and the literals of `explainDecision` are 0.80, 0.72 and 0.70.

`HttpProofs`: a step of `HttpNext` is a step of the server or leaves it alone, so
the theorems of `SubmissionProofs` carry over. For the limiter, `LimiterInv` places
every admission against the bucket (`Placed`): those the bucket counts are within
its window, earlier ones before it, and all but the last `Limit` of these before the
window before. Two windows and the stretch that overlaps both then give twice the limit at
most, and a full bucket exactly the `Limit` admissions a refusal needs.

For the stores the invariant is `StoreInv`: the types and, for the backend in use,
`JSONInv` or `RedisInv`. `JSONInv` says which call holds the mutex and in which step
(`HolderInv`), how memory and file differ at each step (`MemoryInv`: only in
failed saves between calls, and in the value being saved during one) and that the
file proper is never torn while the second file may be (`FilesInv`). `RedisInv` ties
commands and replies to the phase of their calls. The refinement maps what is
stored to the file (the rename is the moment a save takes effect) or to the
server's records (its execution of the command is), and shows for each action
which step of `KeyValue` it is: a `Rename` is an `Apply` that may carry failed saves of
other keys along, the server's execution of a command nobody waits for an
`ApplyLate`, a crash a `Fail` of everyone under way.

For the lifecycle it is `LifecycleInv`: the types; `AttemptsLeft`, that a process which
is trying a dependency has an attempt left; `DroppedIsGone`, that an instance the proxy dropped
is missing until an attempt of `Start` creates it again; and `StepsDone`, that what a stage needs was
established by the stages before it, up to what the proxy dropped meanwhile. `LoopsStartReady` follows as
an equivalence: a process whose loops run has a subscribed instance in a group unless it was dropped, and
lacks it if it was. For `ProcessImplemented`, `LifecycleInv` says which subscriptions a running
process has, and `DroppedPaid` that one it lost was dropped by a failure.

Only model-checked is liveness (`AcceptedIsDecided`, `EventuallyServing`), which the prover
does not support, and `WorkersAreProcesses`, which restates `Worker`'s own steps in the terms of `ProcessLife`;
every other safety property of a passing run is a theorem. Some need
hypotheses and are false without them: `OneIdentityPerPerson` without room in the
shortlists or with late writes (`recovery` with it fails), `RepeatIsRecognised` with two workers (`race`),
`CallbacksNameOneIdentity` when the faces of two people are above a threshold. The
other properties of the runs that expect a violation are false as they stand, or hold under the hypothesis
their run breaks (`CompletedIsFinal`: `Steady`).

## 6. Not modelled, and the plan

Not modelled: authentication, CORS and middleware, encryption and hashing,
configuration, logging, metrics, deployment files (stateless, or read once), the
inference service (stateless; its vectors are the similarities), the audit
publishers (best effort, nothing reads them), payload indexes (their errors are
dropped), the rest of the frontend (rendering), two processes that share a JSON
file (no deployment has them; the second file's name is fixed, so they would
overwrite each other's). Partly modelled: see the notes in `PROJECT.json`.

Done: the shared stores and their two implementations, `Submission` with the limiter in front,
`Scoring`, `BestCandidate`, `KYCService`, `ConsumerGroups`, `ConsumerLifecycle`,
`Worker`, `Pipeline`, `Registry`, `ProcessLife`, `StatusPolling`; late metadata and vector writes; the theorems above, one for
every safety property of the passing runs but `WorkersAreProcesses`, the three abstract specifications included.
What could be added: the batch that a lost poll reply skips, as a liveness question of its own (nothing fetches it again before
a restart), and `StatusPolling` with the rest of the page.
