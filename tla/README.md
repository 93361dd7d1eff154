# LeadVirt: a TLA+ model of the message pipeline and of the knowledge behind it

LeadVirt receives customers' messages from Telegram, a generic webhook and a
website widget, lets an AI or a human answer them from the workspace's knowledge, and
delivers the answers. This directory models the path a message takes through the system,
from the request that brings it in to the provider call that answers it, and the paths by
which content becomes knowledge: ingestion of a website, import of a business file, index
snapshots and publications. It checks them with TLC on small instances and proves their safety
properties with TLAPS for instances of any size.

Paths below are relative to the repository's root, which `PROJECT.json` calls `src/`.

## 1. The system

### 1.1 The parts that are modelled

| part | state it keeps | operations | module |
|---|---|---|---|
| Inbound intake (`apps/api/src/modules/{telegram,webhook,widget}`, `apps/api/src/common/webhook-event-claim.ts`) | `WebhookEvent`: status, lease token, completed stages | claim, persist the message, request the reply, run the workflow, complete or fail | `WebhookIntake` |
| Reply runs (`apps/worker/src/ai/ai-reply-reliability.ts`, `packages/runtime-queue`, `conversations.service.ts`) | `AiReplyRun`; `Conversation.aiGeneration / aiReplySequence / aiReplyFence` | create a run and supersede others, begin an attempt, commit the reply, fail, take over | `AiReplyRun` |
| Runtime outbox (`packages/runtime-queue/src/index.ts`) | `RuntimeOutbox`: status, attempts, lock, availability, deadline | create, claim, renew, add to BullMQ, publish, fail, dead-letter with its cascade | `RuntimeOutbox` |
| Runtime inbox (`apps/worker/src/reliability/worker-reliability.ts`, `main.ts`) | `RuntimeInbox`: status, lock, result; BullMQ's job | claim, wait, claim again, process under a timeout, store the result, capture the dead letter | `RuntimeInbox` |
| Channel delivery (`apps/worker/src/channels/channel-delivery.ts`, `operator-operations.service.ts`) | `Message.status`, `ChannelDeliveryOperation` | find or create the operation, claim it, send under row locks, commit one of five outcomes, reconcile | `ChannelDelivery` |
| Knowledge mutations (`knowledge-v2-idempotency.service.ts`) | `KnowledgeV2IdempotencyRecord`: request hash, outcome, lease | claim the key, prepare under renewals, mutate and store the outcome, replay, expire | `IdempotentMutation`, abstract: `OncePerKey` |
| Sources and ingestion (`knowledge-v2-source.service.ts`, `knowledge-ingestion-processor.ts`) | `KnowledgeV2Source`, document, revisions, chunks; `KnowledgeJob`; deletion ledger; object store; vector index | create, update, pause, sync, resume, exclude, delete; attempts at import, sync, reconciliation and deletion | `KnowledgeIngestion` |
| Index preparation (`knowledge-v2-index-preparation.service.ts`) | `KnowledgeIndexSnapshot` row, its points in the index | create, redrive, write, verify, repair, commit, compensate | `IndexSnapshot` |
| Knowledge publication (`knowledge-v2-publication*.service.ts`) | `KnowledgePublication`, the active pointer, job, outbox and inbox rows | request, roll back, lease, evaluate, activate, fail, repair | `KnowledgePublication` |
| Business import (`business-import-{upload,workflow,object-lifecycle}`, processor, sweeper) | `BusinessImport` row, quota, object ledger, object store | upload, finalize, retry, cancel, parse, expire, sweep | `BusinessImport` |

How they interact. Intake writes the message, the reply run and an outbox row in one
transaction. A dispatcher in every API and worker process moves outbox rows to BullMQ;
a worker takes the job, claims the inbox row and runs the processor. The processor of
`ai.reply.requested` is an attempt at the run; its commit creates the reply
message and a second outbox row, `channels.send-message`, whose processor is the
delivery. Humans intervene at every point: a takeover of the conversation fences the run,
dead-letters its outbox row and is looked at once more under the locks of the send.

Knowledge comes in by another path. A source's request and its job are written in one
transaction with the outbox row of `knowledge.source.*`; the worker's attempt ends in a draft
revision. A validation prepares an index snapshot for the drafts, a publication request is
validated against the active publication, and a dispatcher of its own activates it: it swaps the
pointer that retrieval reads. A business import has the same outbox and a ledger of the objects
that it stores. Every mutation of the API by which a person starts one of these runs under an
idempotency key.

What is hard about it. Every part has two executions of the same work at the same time as
a normal case: several dispatchers poll one table; BullMQ gives a stalled job to
a second worker while the first goes on; a timeout rejects while the processor keeps
running; a sender repeats a request that is still being processed. Locks
are leases in rows, so their owner may have lost them without knowing. A commit or an
HTTP answer may be lost after it took effect. Processes die between any two of these steps.
The object store and the vector index have no transaction with the database: what is written
there is described by rows (a ledger, a snapshot) that come before or after it.

### 1.2 The parts that are not modelled

`PROJECT.json` lists them with their reasons. The ones with protocols of their own are in the
plan (section 8): the application and rebase of an import, tool operations, the token budget,
one-time codes, Telegram's connection lifecycle and the operator's redrive. The rest are parsers,
retrieval and prompt code (pure functions over documents, most of the repository's lines), reads and
single-row updates (leads, dashboard, analytics, billing, settings), metrics, the web front end
and deployment.

Correctness of the planned parts, in one sentence each: an import is applied once and to the
revision that was reviewed; a tool operation has one effect; the last code that was mailed is
the one that works; no update for a bot that is not connected is accepted.

## 2. Conventions

- **Clocks** are not numbers. A timestamp that the code compares with the present is a Boolean
  that says how the comparison comes out, and an action lets it change at any moment
  (`due`, `leased`, `late`, `expired`).
- **A transaction is one step**; the code between two transactions is not. What a
  handler has read and uses later is in variables of its own (`seen...`, `token`).
- **A lock token is the execution that drew it.** Tokens are random UUIDs in the code.
  `Orphan` is the token of an execution that is gone.
- **A lost answer** is a step that takes effect (or not) and continues on the error path.
- **A crash** ends an execution where it stands and leaves its rows and leases as they are.
- **Bounds** are constants: `MaxFaults`, `MaxErrors`, `MaxStalls`, `MaxLosses`, `MaxEdits`,
  `MaxGeneration`, `MaxWorkerFaults`, `MaxTakeovers` bound what the
  environment does to the system; `MaxAttempts` and `JobAttempts` are the code's own limits,
  at smaller values.
- The operators marked `Mutant` are not part of the specification. Each is what
  the definition after it would be with a plausible mistake; replacing the definition by
  it must violate the property it was written for (`PROJECT.json`, `mutants`).

## 3. The modules

**`EventDelivery`** is the abstract specification: what an outbox promises to those
who write events. A requested event is handed to the queue at least once and then counts as
delivered, or it is abandoned together with its business object. There
are no leases, attempts or dispatchers in it.

**`RuntimeOutbox`** has the rows, the racing `dispatch()` calls (`Claim`, `ReadEvent`,
`RenewLease`, `QueueAdd`, `MarkPublished`, `FailClaimedEvent`), the timers, the human who
overtakes a reply (`FencePendingAiReply`) and a consumer reduced to what the outbox can see of it
(`Consume`). The errors of each call are actions of their own, with and without effect
(`RenewError`, `QueueAddError`, `MarkError`). A call that has lost its row keeps going and is
stopped only by the `lockedBy` guards, as in the code.

**`RuntimeInbox`** extends `RuntimeOutbox` and puts real workers in the place of `Consume`.
BullMQ is external: waiting, active with an owner, retried, stalled, finished, removed. A
handler claims (`FirstClaim`), waits for a busy row (`WaitEnds`), claims again
(`SecondClaim`), processes, and stores or fails. A processor that is timed out lives on as a
zombie. What the processor does to its business object is left open.

**`AiReplyRun`** has the runs of one conversation. A message is its rank in the order the code
compares messages by, and messages may be persisted in any order. The generation and the
sequence in the conversation row are the fence; attempts carry the number they began with.
Human actions, revocations of the admission, changes of the channel's binding, edits and the
abandonment of the event by the outbox are actions. All transactions hold the conversation row,
so each is a step.

**`ChannelDelivery`** has overlapping executions of one delivery. A route is what identifies an
operation beside the message. The send is a transaction that holds the
conversation row while the provider is called (`Authorize`, `TransactionTimesOut`), and the
request has a life of its own: it is accepted or lost while the run waits, has timed
out or is dead. Then come the outcome commits and the operator.

**`WebhookIntake`** has one event of one source and the handlers that run for it. Telegram's are
serialised by an advisory lock with a timeout (`guard`) and work under a lease with durable stages;
the webhook's claim and complete under a lease; the widget's claim with a lease and
write without looking at it. `known` says that the same message already came
with another event.

**`OncePerKey`** is the second abstract specification: what an idempotency key promises. While an
outcome is kept for the key no other execution has an effect, an effect and its outcome come
into being together, and a caller is told of the outcome that is kept.

**`IdempotentMutation`** is `executePrepared` for one key: the claim of the record, the preparation
outside any transaction with a lease that may run out under it, the transaction that checks the record,
mutates and stores the outcome, and the catch that deletes the record. Calls may carry another
request with the same key, lose their answers and die.

**`KnowledgeIngestion`** has one website source. `source.generation` is bumped by every request and
fences the attempts of older jobs; `job[g]` is the job of generation `g`, its attempt number
fences replaced attempts. An attempt prepares content under the permissions it began with
(`Prepare`), compares (`Compare`), reports its stage under the fence (`FencePut`), writes its
objects (`Put`, which nothing fences), persists a revision (`Persist`) and
processes the rows of the deletion ledger, each with fence, claim, cleaning, fence and completion
(`NextRow` ... `CompleteRow`). Reconciliation copies the draft under new permissions;
deletion has rows for the store, the content and the index. What the next two modules do to the
draft are `Upsert`, `Index`, `Compensate` and `Publish`. A preparer writes points outside of any
transaction (`upserted`, for the generation in which it began); its commit fences again and
acknowledges them (`points`); when it fails it deletes what it has written, and when it dies nobody
does. As only its own compensation deletes unacknowledged points, they are counted from the fence
before the write on, and a write that comes late is covered. The ledger's work finds acknowledged
points only, so `CleanRow` leaves the others where they are.

**`IndexSnapshot`** has the callers of `prepareManifest` for one manifest. A preparer looks at the
row and then writes to the index, partition by partition; it may be redriven when it is taken for
dead, and compensates when it fails, also when its commit was made and only the answer is lost
(`CommitUnanswered`). The compensation may fail, too (`FailCompensation`), and so may the answer to
the claim of a repair (`ClaimUnanswered`). A READY snapshot is verified, and repaired unless it is
published, which a trigger of the database enforces.

**`KnowledgePublication`** has requests to publish and to roll back, and the dispatchers that lease
their events. `Activate` is the transaction that compares the base with the pointer, supersedes
the active publication and swaps the pointer. The records of a request (event, job, inbox) are
updated in transactions of their own; an activation that was committed without them is
repaired by a later dispatch. What a request was made against may be edited meanwhile.

**`BusinessImport`** has an import with its upload, its jobs over several generations and the sweeper.
An object is stored under a row of the ledger, pending until a transaction adopts it together with the
reference; a row that left RETAINED never returns, and its object is then deleted.

The `MC` modules only add the symmetry sets. Symmetry is not used in runs that check liveness.

## 4. What the runs check

| run | instance | distinct states | shows |
|---|---|---|---|
| `outbox` | 1 event, 2 calls, 3 attempts, 3 faults | 115,499 | Events are given up for a cause; `EventDelivery` is implemented, so settled rows stay settled and a dead letter closes its object; every event settles |
| `inbox` | 1 event, 1 call, 2 workers, 2 job attempts, 2 worker faults | 225,251 | A stored result is final and real; a live claim is undisturbed; the workers are a consumer that the outbox allows; every job finishes |
| `reply` | 2 messages, 2 overlapping attempts, 2 tries, 1 takeover | 213,456 | One reply per successful run; one active run, at the fence; settled runs stay settled; no reply after a takeover; replies in order |
| `delivery` | 2 executions, 2 routes, 2 attempts | 418,380 | One live provider call per operation; what may have been delivered is not written off; a send is for what was checked; settled operations stay settled |
| `intake` | 3 sources, 2 handlers, 4 faults | 50,033 | One message; a processed event lost nothing; Telegram is not acknowledged early; only the token's owner moves the event; an update is processed in the end |
| `idempotency` | 3 calls with one key, 2 requests | 152,508 | The record belongs to a call and keeps its request; `OncePerKey` is implemented; every call is answered |
| `ingestion` | 2 workers, 2 contents, 2 generations, 2 attempts, 1 fault | 1,538,399 | Only content scanned under the current permissions can be retrieved, nothing of a source that is being deleted; a deletion is not undone; acknowledged points of denied content are on the ledger; a deleted source has neither content nor acknowledged points |
| `snapshot` | 2 callers, 2 partitions, 2 errors, 1 stall, 1 loss | 635,800 | READY means complete, unless a preparer stalled, the commit of one went unanswered or the index failed; a published snapshot stays READY; a snapshot that is asked for is prepared in the end, unless a preparer stalled |
| `publication` | 2 requests, 2 dispatchers, 2 attempts, 1 fault | 365,436 | The pointer is the active publication; one successor per base; a settled request keeps its fate |
| `publication_settles` | 1 request, 2 dispatchers, 2 faults, 2 edits | 419,300 | The records agree with the publication; every request is settled |
| `import` | 2 workers, 1 collector, 2 generations, 2 faults | 334,239 | What is referenced is stored; an ended import is final and releases its quota |
| `import_deletions` | 1 worker, 2 collectors, 3 faults | 249,580 | A row that left RETAINED never returns; every deletion is done |

The properties `OutboxTypeOK`, `PublishedWasQueued`, `DeadLetterClosesWork`, `LockBelongsToWorker`,
`SettledRowsStaySettled`, `ReplyTypeOK`, `AttemptsAreNumbered`, `DeliveryTypeOK`,
`SuccessWasAccepted`, `IntakeTypeOK` and `OneWorkflowRun` are stated in the modules and proved
(section 6); no run repeats them.

Why the bounds are enough. The interesting cases are between two executions and the row they
share: one that lost its lease and one that took over. They need two executions, and enough
faults for the first to lose what it holds. In `inbox` these are two, BullMQ's lock
and the claim's lease: with one fault no claim is ever taken over, and a missing token in the
where clauses would go unnoticed. `outbox` has three so that the successor may fail as
well; `intake` has four because a Telegram handler loses first its lock and then its lease.
Rows of different events share nothing but the poll that finds them, so one event is enough. Two routes
are enough for the channel to move away and back. `publication` needs two requests for the race for the
pointer, which leaves room for one fault; `publication_settles` has one request and
more faults. `ingestion` has one fault, which may be the stall that puts two attempts of a job
side by side; two generations are enough for every request to follow an import, two contents for
a draft to be superseded by an attempt. `MaxUpserted` is 1: one draft at a time has points that no
commit has acknowledged, and only their own commit or compensation looks at them.
`idempotency` has three calls because an expired record needs two and the third one replays. 
The safety properties are proved for any number of all of these (section 6); the runs are there
for liveness, and to show that the actions can happen at all and that a mistake in them would be
found.

`CHECK_DEADLOCK FALSE` is set everywhere: events settle, jobs finish and senders stop
repeating, and after that the system rests.

### Fairness

- `FairOutboxSpec`: a started call goes on, because Prisma and BullMQ calls return
  or throw; the drain timer claims what is due; backoff and the lease of a dead call run
  out. Nothing forces Redis to accept a job: the event then settles as a dead letter. Nothing
  forces the deadline to pass or a lease to run out under a live call.
- `FairSpec` of the inbox: a handler goes on, BullMQ hands out waiting jobs and finds stalled
  ones. A processor may take as long as it likes, but the timeout ends the handler's wait.
- `LiveSpec` of the publication: every process drains every five seconds and goes on with its
  dispatch; the lease of a dispatch that is gone runs out. Nothing forces an evaluation
  to succeed.
- `LiveSpec` of the snapshot: preparers go on, the row of a dead one ages, and somebody keeps
  asking for the snapshot while it is not ready (a validation or a dispatch is repeated).
- `Fairness` of the idempotent mutation: a call goes on, a client that was refused
  because the key is in progress repeats its request, and the lease of a call that is gone runs out.
- `Fairness` of the import: the sweeper, which runs on a timer, goes on. Uploads and jobs need not.
- `KnowledgeIngestion` has no fairness: no progress is claimed for it (section 5 says why).
- `LiveSpec` of the intake: handlers go on, Telegram repeats an update that was not acknowledged,
  and a lease whose owner is gone runs out.

Only weak fairness is used, and faults are bounded: after the last one, progress is due.

## 5. Where the code and the documentation disagree

Each of the following has a configuration with the property in question, which TLC violates within
a minute: `tlc -config <configuration>.cfg <module>`. They are not among the runs of `PROJECT.json`.

| configuration, property | what happens |
|---|---|
| `RuntimeInboxDuplicate`, `DuplicateExecutionSuppressed` | The claim after the wait is tested for `busy` only. A result stored just before that claim does not stop the processor from running again. |
| `RuntimeInboxExhausted`, `ExhaustedWorkIsClosed` | Attempts can be used up before a claim ever succeeds; the dead-letter capture then closes neither the reply run nor the message. |
| `AiReplyRunOrder`, `SupersededByNewerInput` | An older message that is persisted late supersedes the run of a newer one. Its own run is then superseded because a newer message exists, and neither is answered. |
| `ChannelDeliveryStarted`, `StartedHasAWayOn` | A run that dies after its claim leaves the operation in `STARTED`. Retries refuse it, and the operator may reconcile `UNKNOWN` only. |
| `ChannelDeliverySent`, `SentStaysSent` | `markFailed` has no condition on the status: a run that had loaded an inactive channel overwrites the `SENT` of another. |
| `WebhookIntakeWidget`, `ExpiredOwnerCannotPublish` | The widget updates its event by id alone: a handler that has lost its lease still publishes. |
| `WebhookIntakeKnown`, `KnownMessageIsNotRepeated` | A resumed update counts as new, also when its message came with another update: its workflow runs again. |
| `KnowledgePublicationGivenUp`, `GivenUpWasNotActivated` | A dispatcher with an old list gives an event up without looking at its lock while another activates the publication: event and job are `DEAD_LETTER`, the publication is active. |
| `IndexSnapshotImmutable`, `PublishedSnapshotIsImmutable` | A preparer that was redriven after fifteen minutes fails its next fence and compensates: it deletes the points of its successor's snapshot, which may be published by now. The database then forbids its repair. |
| `IndexSnapshotLostAnswer`, `PublishedSnapshotIsImmutable` | `commitReadySnapshot` commits and its answer is lost: the catch takes it for a failure and deletes the points of the snapshot that is READY, and perhaps published, without a stall and without a second caller. |
| `IndexSnapshotVerified`, `PublishedSnapshotIsImmutable` | One caller verifies the snapshot while the index fails the verification of another, which claims a repair. The first then commits without a token and publishes. A fence of the repair fails, and its compensation deletes the points. |
| `BusinessImportRetry`, `RetryableCanGoOn` | The pending row of the raw artifact expires, or an older generation takes it over and tombstones it, while the import is `FAILED_RETRYABLE`: every retry fails with `OBJECT_IDENTITY_CONFLICT`. |
| `KnowledgeIngestionErased`, `DeletedHasNoObjects` | An attempt that has passed `setStage` is replaced, and writes its objects after the source was deleted and the row of the object store completed: the objects stay. |
| `KnowledgeIngestionContent`, `LiveContentIsStored` | The commit of a revision succeeds and its answer is lost: the attempt deletes the objects that the revision names, and the retry finds the content unchanged. |
| `KnowledgeIngestionOrphans`, `DeletedHasNoPoints` | A preparer writes points, and its source is deleted before it commits. The row for the index finds no acknowledged points and completes, and the source is `DELETED`. If the preparer has died, its points stay for good. |

The comment of each property quotes the document or comment it takes its claim from;
`LiveContentIsStored` is the model's own claim.

Seen while modelling, without a configuration of its own:

- Publication: a rollback that fails for good stays `VALIDATING`, and a late dispatcher can still
  activate it; the inbox row is written without a token and may stay `PROCESSING`; an event whose
  evaluation was never queued is deferred for ever, because the evaluation is looked at before
  the deadline.
- Snapshot: the error code is written without a token, which after a stall can keep two
  preparers failing each other; that is why `PreparedInTheEnd` excludes stalls. A redrive of a
  snapshot that was once READY always fails (its expected point count is 0).
- Import: an object put after its row was deleted is an orphan.
- Idempotency: a call whose preparation is refused after it lost its lease passes the refusal on,
  although another call with the key may then succeed.
- Ingestion: the rows of an exclusion stay in their generation, so a second request before they
  are done leaves them for ever to no job (`CleanupIsProven` holds: they remain on the ledger). A
  failed deletion leaves the source `DELETING` for good. A source that is edited during its first
  import ends `SYNCING` without content, and a sync is refused in that status. The job of a
  permission review has an idempotency key that `beginAttempt` refuses, so it always fails.
- Intake and delivery: the generic webhook answers a repeated event that is still in progress as a
  duplicate; the widget looks for the message before the transaction that creates it; a webhook
  that processes a request and answers with an error counts as a refusal.

## 6. What is proved

TLAPS proves the following for all values of the constants that satisfy the assumptions named in
the modules (`OutboxAssumption` and so on). They say that the constants have the right kind, that
the code's limits are positive, that markers such as `NoCall` are not executions, and that an index
has finitely many partitions and at least one. Where two modules of section 3 belong together, as
the outbox and the inbox, so do their proofs; `KnowledgeServices_proofs` is about
`IdempotentMutation` and `IndexSnapshot`.

| module | theorem | statement |
|---|---|---|
| `Runtime_proofs` | `OutboxSafety`, `OutboxSettled` | `GivenUpForCause` and the other invariants of the outbox; settled rows stay settled |
| | `OutboxImplementsDelivery` | `RuntimeOutbox` implements `EventDelivery` |
| | `InboxSafety`, `InboxLocks` | `InboxInvariant`; a lock is that of a handler at work on the event |
| | `ResultsAreFinal`, `LiveClaims` | a stored result is final; a live claim is undisturbed |
| | `InboxImplementsOutbox`, `RuntimeImplementsDelivery` | `RuntimeInbox` implements `RuntimeOutbox`, and with it `EventDelivery` |
| `AiReplyRun_proofs` | `ReplySafety`, `ActiveRuns`, `SettledRuns` | the invariants of `reply`; settled runs stay settled |
| | `TakeOverIsFinal`, `RepliesAreOrdered` | no reply after a takeover; replies in the order of their messages |
| `ChannelDelivery_proofs` | `DeliverySafety`, `WrittenOff`, `FencedSends`, `SettledOperations` | the invariants of `delivery`; settled operations stay settled |
| `WebhookIntake_proofs` | `IntakeSafety`, `InboundMessages`, `Acknowledgements`, `TokenGuardsTheEvent` | the invariants of `intake`; only the token's owner moves the event |
| `KnowledgeServices_proofs` | `MutationSafety` | a call is told only of an outcome of its own request |
| | `MutationImplementsOncePerKey` | `IdempotentMutation` implements `OncePerKey` |
| | `SnapshotSafety`, `ReadySnapshotsAreComplete` | a published snapshot is READY; READY means complete while the preparations are undisturbed |
| `KnowledgePublication_proofs` | `PublicationSafety`, `PointerSafety`, `ActivationIsCompareAndSwap`, `FatesAreFinal` | the invariants of both runs of the publication; a settled request keeps its fate |
| `BusinessImport_proofs` | `ImportSafety`, `ReferencesAreStored`, `EndIsFinal`, `DeletionsGoOneWay` | all safety properties of both runs of the import |
| `KnowledgeIngestion_proofs` | `SourceSafety`, `CleanupSafety` | a deletion is not undone and only admitted content is live; acknowledged points of denied content are on the ledger, and what is called deleted has neither content nor such points |

So every safety property of every run is proved. Each theorem rests on
an inductive invariant, because what the properties say is not why they hold. TLC checked each of
these on the constants of the module's run before it was proved.

- **Outbox** (`OutboxInv`). A call may publish because it has queued the job, so the invariant
  says what a call knows of its row at each of its steps (`CallKnowsItsRow`): the row
  exists, the job is there once the call has added it, and the attempts it has read are not more than the
  row's, also when the call has lost the row. The refinement maps the status to the abstract state, the
  presence of the job to "handed" and the object to "open". Claims, renewals, failures
  that are retried, crashes and timers are invisible (`InvisibleRowStep`).
- **Inbox** (`InboxInv`). Every step of a handler, of BullMQ or of time is a step of the outbox's
  abstract consumer or invisible to it (`InboxStepSimulates`, by `ConsumerStep`), so `OutboxInv`
  holds here, too, and the refinements compose. For the rest the invariant says what a handler's step
  implies about its job (`HandlerHasItsJob`), that a job which may still run has attempts left
  (`AttemptsAreBounded`) and whose lock a row may carry (`InboxLockBelongsToHandler`). Both
  action properties follow from one lemma about who may move a row (`RowMoves`).
- **Replies** (`ReplyInv`). That two attempts cannot both commit is `AttemptsAreNumbered`: the commit
  compares numbers, and a number is used once. That nobody replies after a takeover needs
  to know that a run of an overtaken message is of an earlier generation (`RunsArePlaced`).
- **Delivery** (`DeliveryInv`). Why a claimed run may call the provider: its operation is `STARTED`
  (`WorkIsStarted`), a started operation is one run's (`StartedIsExclusive`), and where a run
  stands says whether its request may be alive (`RequestFitsStep`).
- **Intake** (`IntakeInv`). A handler that finds the message there must still run the workflow if this
  event brought the message. It knows this from its claim: the first handler of an event creates
  the message itself as long as it holds the lease, and every later one knows that it resumes
  (`HandlerInv`); a completed stage stands for its effect (`RowInv`).
- **Idempotency** (`MutationInv`). A replay answers what the record holds, so the record must have been
  made for the request of the call that owns it (`RecordKeepsRequest`). The refinement maps a settled
  live record to the kept outcome; claims, leases and lost answers are invisible.
- **Snapshot** (`SnapshotInv`). READY is complete because the preparer that claimed the row has it to
  itself (`ClaimantIsAlone`) and whoever else is at work verifies (`OthersVerify`), so that what it
  has done is still in the index (`DoneIsStored`). This holds only while no preparation was taken
  for dead, no commit of a claimed one went unanswered and the index has lost nothing
  (`Undisturbed`): after any of these the code itself may leave a READY snapshot without points
  (section 5). The other conjuncts hold without that condition.
- **Publication** (`PublicationInv`). The comparison with the pointer rules out a second successor
  because the pointer never returns: what a request was made over has been active
  (`BaseWasActive`), and what an activated one was made over is not active any more
  (`BaseIsPassed`). A dispatcher about to complete has seen the activation (`CompleteKnows`), which
  nobody takes back.
- **Import** (`ImportInv`). Rows of the ledger have a life cycle in which each move needs
  something (`RowMoves`), and the store changes only under it (`StoreMoves`). What upload and workers are about
  to adopt has a row, and is stored if the row is retained (`PutUnderARow`); a sweeper deletes only what has left
  RETAINED (`ClaimedIsGivenUp`); adopted objects stay until their retention has ended
  (`AdoptedIsKept`), and an import refers to such objects only (`RefersToAdopted`).

- **Ingestion** (`IngestionInv`). A step either stays in the source's generation or begins the next
  one (`SameGeneration`, `NewGeneration`), and a run either goes on with its attempt or begins one
  (`Continues`, `Begins`). That only admitted content is live needs to know that an attempt
  at the source's generation began under its permissions and does what its job is for
  (`AttemptFits`), and that only the last generation can be a deletion (`JobsFit`). For the ledger it is not
  enough that a row is open: the worker that has done the work of a row completes it later, and
  meanwhile the content of another request may be denied. So `DeniedIsCovered` asks for an open row
  whose work is not done (`IsCleaned`: claimed by a run that stands between the work and the completion),
  and `DeletionIsProven` says of the rows of a deletion that what they stand for is erased
  once they are completed or cleaned. A superseded draft may be on the ledger already only if it was
  denied before (`RowsAreOfDenied`). All of this is about acknowledged points; preparations that
  write, commit and compensate go on meanwhile, and a commit fits because it fences once more, in
  the generation in which it began. Nothing is proved about the object store, nor about points that no
  commit has acknowledged: what one would like to say of them the code does not ensure (section 5).

Only model-checked: liveness (`EveryEventSettles`, `JobsFinish`, `UpdateIsProcessed`,
`RequestIsSettled`, `PreparedInTheEnd`, `EveryCallIsAnswered`, `DeletionsAreDone`), because the
prover does not reason about fairness.

## 7. What is left out of the modelled parts

- Outbox and inbox: validation of the envelope, jobs without an envelope (which bypass the inbox),
  BullMQ's `maxStalledCount`, the operator's redrive.
- Replies: the graph between the beginning of an attempt and its commit (model calls and
  retrieval); the statuses `CANCEL_REQUESTED` and `FAILED`, which no code writes.
- Delivery: the adapters' formats, and the policies behind admission (a Boolean that may
  change). A webhook's answer other than 2xx is taken for a refusal without effect.
- Intake: signatures and normalisation, the conversation and the lead (data), the welcome message
  on activation, the synchronous reply mode, several workflows for one event. An edited message
  that is new to the system loses its workflow when its first attempt fails after the
  message was persisted; `ProcessedIsComplete` leaves it out, because no document says that edits
  run workflows.
- Idempotency: the redaction of stored responses and the clean-up job.
- Ingestion: sources from files, QUARANTINED revisions (which have no chunks), several documents per
  source, legal holds, the rows of the cache, rollbacks of publications. The raw and the extracted
  object of an attempt are one. A `FAILED` source whose error code says that no index is configured
  may be prepared, too, but nothing sets that code. Acknowledged points that a compensation or the
  repair of a snapshot deletes again stay in `points`: fewer in the index disturb neither property.
- Snapshot: chunks, embeddings and their cache; a change of the sources is an error of the preparer.
  A request to the index that a preparer has given up is taken to be applied by then or not at all.
- Publication: manifests, policies, capabilities and test cases, which are reduced to whether they have
  changed; the evaluation is a verdict that comes at some point.
- Import: the second job after a confirmed mapping, legal holds, and what a file contains.

`PROJECT.json` lists the hazards of all of these with the properties that cover them, and for the
uncovered ones the reason.

## 8. Plan

In this order, each with its safety properties proved as those above.

1. **Import application**: preview, rebase and apply against a moving revision.
2. **Pipeline**: `AiReplyRun` and `ChannelDelivery` as the processors of `RuntimeInbox`. A message is
   answered, superseded or handed to a human in the end, and sent at most once per account.
3. **ToolOperations**, **TokenBudget**, **OneTimeCodes**, **TelegramConnection** and the
   operator's redrive, each as a small module.
