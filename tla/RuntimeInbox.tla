---------------------------- MODULE RuntimeInbox -----------------------------
(***************************************************************************)
(* The consuming side of the runtime queue: BullMQ hands the job of an     *)
(* outbox event to a worker, and processLeadVirtJobWithReliability wraps   *)
(* the job's processor in a claim on the RuntimeInbox row, a timeout, and  *)
(* the recording of the result.  Composes with RuntimeOutbox, whose rows   *)
(* the claim reads, and replaces its abstract consumer.                    *)
(*                                                                         *)
(* A worker here is one run of the job handler.  BullMQ gives a job to one *)
(* worker at a time, but a worker that stalls loses the job to another one *)
(* and keeps running: two handlers of one event overlap.  As in            *)
(* RuntimeOutbox, inboxLeased is "lockExpiresAt > now".  What a processor  *)
(* does to the business object is left open here; AiReplyRun and           *)
(* ChannelDelivery model two of them.                                      *)
(***************************************************************************)
EXTENDS RuntimeOutbox

CONSTANTS
    Workers,         \* concurrent handler runs, each one lockId
    JobAttempts,     \* envelope.attempts
    DlqCloses,       \* events whose business object captureDeadLetterJob closes
    TimeoutCloses,   \* events whose business object the timeout fence may close
    MaxWorkerFaults, \* bound: dead or stalled workers and lost answers
    NoWorker

ASSUME InboxAssumption ==
    /\ DlqCloses \subseteq Events /\ TimeoutCloses \subseteq Events
    /\ JobAttempts \in Nat \ {0} /\ MaxWorkerFaults \in Nat
    /\ NoWorker \notin Workers /\ Orphan \notin Workers /\ NoWorker # Orphan

VARIABLES
    inbox, inboxLeased, inboxBy,   \* the RuntimeInbox rows
    owner, attemptsMade,           \* BullMQ: who has the job, failed attempts
    dlq,                           \* "failed" events whose capture is pending
    step, job, claimed, fatal,     \* handler runs: where, which event, holds a
                                   \* claim, about to throw UnrecoverableError
    zombies,                       \* processors running on after a timeout
    returned,                      \* events a processor has returned for in time
    workerFaults

dispatcher == <<rowVars, callVars, revoked, faults>>
inboxRow == <<inbox, inboxLeased, inboxBy>>
bull == <<owner, attemptsMade, dlq>>
handler == <<step, job, claimed, fatal>>
rest == <<zombies, returned, workerFaults>>
inboxVars == <<inboxRow, bull, handler, rest>>
vars == <<outboxVars, inboxVars>>

InboxStatus == {"NONE", "PROCESSING", "SUCCEEDED", "FAILED"}
HandlerStep == {"idle", "claiming", "waiting", "reclaiming", "processing",
                "completing", "failing"}

Init ==
    /\ OutboxInit
    /\ inbox = [e \in Events |-> "NONE"]
    /\ inboxLeased = [e \in Events |-> FALSE]
    /\ inboxBy = [e \in Events |-> NoWorker]
    /\ owner = [e \in Events |-> NoWorker]
    /\ attemptsMade = [e \in Events |-> 0]
    /\ dlq = {}
    /\ step = [w \in Workers |-> "idle"]
    /\ job = [w \in Workers |-> NoEvent]
    /\ claimed = [w \in Workers |-> FALSE]
    /\ fatal = [w \in Workers |-> FALSE]
    /\ zombies = {} /\ returned = {} /\ workerFaults = 0

WorkerFault == /\ workerFaults < MaxWorkerFaults
               /\ workerFaults' = workerFaults + 1

Go(w, s) == /\ step' = [step EXCEPT ![w] = s]
            /\ UNCHANGED <<job, claimed, fatal>>

End(w) ==
    /\ step' = [step EXCEPT ![w] = "idle"]
    /\ job' = [job EXCEPT ![w] = NoEvent]
    /\ claimed' = [claimed EXCEPT ![w] = FALSE]
    /\ fatal' = [fatal EXCEPT ![w] = FALSE]

SetInbox(e, s, leasedNow, by) ==
    /\ inbox' = [inbox EXCEPT ![e] = s]
    /\ inboxLeased' = [inboxLeased EXCEPT ![e] = leasedNow]
    /\ inboxBy' = [inboxBy EXCEPT ![e] = by]

-----------------------------------------------------------------------------
(* BullMQ, external: what its worker does with a job.                       *)

TakeJob(w, e) ==
    /\ step[w] = "idle"
    /\ jobs[e] = "waiting"
    /\ jobs' = [jobs EXCEPT ![e] = "active"]
    /\ owner' = [owner EXCEPT ![e] = w]
    /\ step' = [step EXCEPT ![w] = "claiming"]
    /\ job' = [job EXCEPT ![w] = e]
    /\ UNCHANGED <<dispatcher, work, inboxRow, attemptsMade, dlq, claimed, fatal, rest>>

\* The handler returned.  A worker that lost the job to another one is ignored.
JobReturns(w) ==
    LET e == job[w] IN
    /\ IF owner[e] = w
         THEN /\ jobs' = [jobs EXCEPT ![e] = "completed"]
              /\ owner' = [owner EXCEPT ![e] = NoWorker]
         ELSE UNCHANGED <<jobs, owner>>
    /\ End(w)
    /\ UNCHANGED <<attemptsMade, dlq>>

\* isFinalAttempt: an UnrecoverableError, or no attempts left.
FinalAttempt(w, e) == fatal[w] \/ attemptsMade[e] + 1 >= JobAttempts

\* The handler threw: retry, or fail for good and emit "failed".
JobThrows(w) ==
    LET e == job[w] IN
    /\ IF owner[e] = w
         THEN /\ attemptsMade' = [attemptsMade EXCEPT ![e] = @ + 1]
              /\ owner' = [owner EXCEPT ![e] = NoWorker]
              /\ jobs' = [jobs EXCEPT ![e] = IF FinalAttempt(w, e) THEN "failed" ELSE "waiting"]
              /\ dlq' = IF FinalAttempt(w, e) THEN dlq \cup {e} ELSE dlq
         ELSE UNCHANGED <<attemptsMade, owner, jobs, dlq>>
    /\ End(w)

\* The job's lock runs out because its worker died (owner gone) or stalled.
StallDetected(e) ==
    /\ jobs[e] = "active"
    /\ owner[e] = NoWorker
    /\ jobs' = [jobs EXCEPT ![e] = "waiting"]
    /\ UNCHANGED <<dispatcher, work, inboxVars>>

JobLockLost(e) ==
    /\ owner[e] # NoWorker
    /\ WorkerFault
    /\ owner' = [owner EXCEPT ![e] = NoWorker]
    /\ UNCHANGED <<outboxVars, inboxRow, attemptsMade, dlq, handler, zombies, returned>>

\* removeOnComplete / removeOnFail; a later add starts the job afresh.
RemoveJob(e) ==
    /\ jobs[e] \in {"completed", "failed"}
    /\ e \notin dlq
    /\ jobs' = [jobs EXCEPT ![e] = "removed"]
    /\ attemptsMade' = [attemptsMade EXCEPT ![e] = 0]
    /\ UNCHANGED <<dispatcher, work, inboxRow, owner, dlq, handler, rest>>

-----------------------------------------------------------------------------
(* claimRuntimeInbox: one serializable transaction.                        *)

Busy(e) == inbox[e] = "PROCESSING" /\ inboxLeased[e]

\* Mutants: a stored result does not count; a lease does not count.
AnswerIgnoringResult(e) ==
    IF status[e] \notin {"PUBLISHED", "PUBLISHING", "FAILED"} THEN "outbox_pending"
    ELSE IF late[e] THEN "expired"
    ELSE IF Busy(e) THEN "busy" ELSE "claimed"

AnswerIgnoringLease(e) ==
    IF status[e] \notin {"PUBLISHED", "PUBLISHING", "FAILED"} THEN "outbox_pending"
    ELSE IF late[e] THEN "expired"
    ELSE IF inbox[e] = "SUCCEEDED" THEN "replayed" ELSE "claimed"

ClaimAnswer(e) ==
    IF status[e] \notin {"PUBLISHED", "PUBLISHING", "FAILED"} THEN "outbox_pending"
    ELSE IF late[e] THEN "expired"
    ELSE IF inbox[e] = "SUCCEEDED" THEN "replayed"
    ELSE IF Busy(e) THEN "busy" ELSE "claimed"

\* Mutant: an expired event also fails the outbox row it came from.
ClaimWritesFailRow(lockId, e) ==
    /\ work' = IF ClaimAnswer(e) = "expired" THEN CloseWork(e) ELSE work
    /\ status' = IF ClaimAnswer(e) = "expired" THEN [status EXCEPT ![e] = "FAILED"] ELSE status
    /\ IF ClaimAnswer(e) = "claimed" THEN SetInbox(e, "PROCESSING", TRUE, lockId)
                                     ELSE UNCHANGED inboxRow
    /\ UNCHANGED <<attemptCount, due, lockVars, late>>

\* The transaction's writes for each answer: an expired event closes its
\* business object, a claim takes the inbox row over.
ClaimWrites(lockId, e) ==
    /\ work' = IF ClaimAnswer(e) = "expired" THEN CloseWork(e) ELSE work
    /\ IF ClaimAnswer(e) = "claimed" THEN SetInbox(e, "PROCESSING", TRUE, lockId)
                                     ELSE UNCHANGED inboxRow
    /\ UNCHANGED rowVars

\* The first claim, with its polling of a row that is not published.
FirstClaim(w) ==
    LET answer == ClaimAnswer(job[w]) IN
    /\ step[w] = "claiming"
    /\ ClaimWrites(w, job[w])
    /\ \/ /\ answer = "replayed"
          /\ JobReturns(w)
       \/ /\ answer # "replayed"
          /\ step' = [step EXCEPT ![w] =
                        CASE answer \in {"outbox_pending", "expired"} -> "failing"
                          [] answer = "busy"                          -> "waiting"
                          [] answer = "claimed"                       -> "processing"]
          /\ claimed' = [claimed EXCEPT ![w] = answer = "claimed"]
          /\ fatal' = [fatal EXCEPT ![w] = answer = "expired"]
          /\ UNCHANGED <<job, jobs, bull>>
    /\ UNCHANGED <<callVars, revoked, faults, rest>>

\* Mutant: the wait has no deadline of its own.
WaitForRowOnly(w) ==
    LET e == job[w] IN
    /\ step[w] = "waiting"
    /\ \/ inbox[e] = "SUCCEEDED" /\ JobReturns(w)
       \/ inbox[e] # "SUCCEEDED" /\ ~Busy(e) /\ Go(w, "reclaiming") /\ UNCHANGED <<jobs, bull>>
    /\ UNCHANGED <<dispatcher, work, inboxRow, rest>>

\* waitForRuntimeInbox: the result appears, the row becomes claimable again, or
\* the wait runs out while another claim is live.
WaitEnds(w) ==
    LET e == job[w] IN
    /\ step[w] = "waiting"
    /\ \/ inbox[e] = "SUCCEEDED" /\ JobReturns(w)
       \/ /\ inbox[e] # "SUCCEEDED"
          /\ Go(w, IF Busy(e) THEN "failing" ELSE "reclaiming")
          /\ UNCHANGED <<jobs, bull>>
    /\ UNCHANGED <<dispatcher, work, inboxRow, rest>>

\* The claim after the wait.  Only "busy" is looked at: any other answer goes on
\* to the processor, with a claim if the answer was "claimed" and without one
\* if it was "replayed", "expired" or "outbox_pending".
SecondClaim(w) ==
    LET answer == ClaimAnswer(job[w]) IN
    /\ step[w] = "reclaiming"
    /\ ClaimWrites(w, job[w])
    /\ step' = [step EXCEPT ![w] = IF answer = "busy" THEN "failing" ELSE "processing"]
    /\ claimed' = [claimed EXCEPT ![w] = answer = "claimed"]
    /\ UNCHANGED <<jobs, callVars, revoked, faults, bull, job, fatal, rest>>

\* A claim throws: the database is away, or three serialization failures; or
\* it committed and the answer was lost, leaving a lock nobody holds.
ClaimError(w) ==
    /\ step[w] \in {"claiming", "reclaiming"}
    /\ Go(w, "failing")
    /\ \/ UNCHANGED <<rowVars, work, inboxRow, workerFaults>>
       \/ WorkerFault /\ ClaimWrites(Orphan, job[w])
    /\ UNCHANGED <<jobs, callVars, revoked, faults, bull, zombies, returned>>

-----------------------------------------------------------------------------
(* withWorkerJobTimeout around the processor, external to this module: it   *)
(* may close the business object, leave it, or overwrite a cascade's        *)
(* verdict (a FAILED message may still be sent).                            *)

Process(e) == \E s \in {work[e], "DONE"} : work' = [work EXCEPT ![e] = s]

ProcessorReturns(w) ==
    /\ step[w] = "processing"
    /\ Process(job[w])
    /\ returned' = returned \cup {job[w]}
    /\ Go(w, "completing")
    /\ UNCHANGED <<dispatcher, jobs, inboxRow, bull, zombies, workerFaults>>

ProcessorThrows(w, unrecoverable) ==
    /\ step[w] = "processing"
    /\ Process(job[w])
    /\ step' = [step EXCEPT ![w] = "failing"]
    /\ fatal' = [fatal EXCEPT ![w] = unrecoverable]
    /\ UNCHANGED <<dispatcher, jobs, inboxRow, bull, job, claimed, rest>>

\* Mutant: the timeout resolves instead of rejecting.
TimeoutResolves(w) ==
    /\ step[w] = "processing"
    /\ zombies' = zombies \cup {job[w]}
    /\ Go(w, "completing")
    /\ UNCHANGED <<dispatcher, work, jobs, inboxRow, bull, returned, workerFaults>>

\* The timeout fires: abort, fence the business object, reject.  The processor
\* is not stopped; what it still does happens behind the handler's back.
Timeout(w) ==
    LET e == job[w] IN
    /\ step[w] = "processing"
    /\ \/ UNCHANGED work
       \/ /\ e \in TimeoutCloses /\ work[e] = "OPEN"
          /\ work' = [work EXCEPT ![e] = "DEAD"]
    /\ zombies' = zombies \cup {e}
    /\ Go(w, "failing")
    /\ UNCHANGED <<dispatcher, jobs, inboxRow, bull, returned, workerFaults>>

ZombieEnds(e) ==
    /\ e \in zombies
    /\ zombies' = zombies \ {e}
    /\ Process(e)
    /\ UNCHANGED <<dispatcher, jobs, inboxRow, bull, handler, returned, workerFaults>>

-----------------------------------------------------------------------------
(* Recording the outcome.                                                  *)

\* Mutant: the lock is not compared.
HoldsAnyInbox(w) == claimed[w] /\ inbox[job[w]] = "PROCESSING"

\* The where clause of completeRuntimeInbox and failRuntimeInbox: the lock must
\* be this run's; its expiry is not looked at.
HoldsInbox(w) == claimed[w] /\ inbox[job[w]] = "PROCESSING" /\ inboxBy[job[w]] = w

\* With a claim: store the result and return, or find the lease lost and throw.
\* The update itself may throw, with or without effect.
CompleteRuntimeInbox(w) ==
    LET Store == SetInbox(job[w], "SUCCEEDED", FALSE, NoWorker)
        Throw == Go(w, "failing") /\ UNCHANGED <<jobs, bull>> IN
    /\ step[w] = "completing"
    /\ \/ ~claimed[w] /\ UNCHANGED <<inboxRow, workerFaults>> /\ JobReturns(w)
       \/ HoldsInbox(w) /\ Store /\ UNCHANGED workerFaults /\ JobReturns(w)
       \/ claimed[w] /\ ~HoldsInbox(w) /\ UNCHANGED <<inboxRow, workerFaults>> /\ Throw
       \/ HoldsInbox(w) /\ WorkerFault /\ (Store \/ UNCHANGED inboxRow) /\ Throw
    /\ UNCHANGED <<dispatcher, work, zombies, returned>>

\* failRuntimeInbox, whose error is swallowed, and the rethrow.
FailRuntimeInbox(w) ==
    /\ step[w] = "failing"
    /\ \/ /\ HoldsInbox(w)
          /\ SetInbox(job[w], "FAILED", FALSE, NoWorker)
          /\ UNCHANGED workerFaults
       \/ /\ HoldsInbox(w)
          /\ WorkerFault
          /\ SetInbox(job[w], "PROCESSING", inboxLeased[job[w]], Orphan)
       \/ ~HoldsInbox(w) /\ UNCHANGED <<inboxRow, workerFaults>>
    /\ JobThrows(w)
    /\ UNCHANGED <<dispatcher, work, zombies, returned>>

\* The worker process dies; so does the processor.
WorkerCrash(w) ==
    /\ step[w] # "idle"
    /\ WorkerFault
    /\ inboxBy' = [e \in Events |-> IF inboxBy[e] = w THEN Orphan ELSE inboxBy[e]]
    /\ owner' = [e \in Events |-> IF owner[e] = w THEN NoWorker ELSE owner[e]]
    /\ End(w)
    /\ UNCHANGED <<outboxVars, inbox, inboxLeased, attemptsMade, dlq, zombies, returned>>

\* captureDeadLetterJob, fired and forgotten by the "failed" listener.  It
\* closes knowledge jobs; for a reply run or a channel message it only writes
\* the audit log.  Its own failure is logged, the process may die before it.
CaptureDeadLetter(e) ==
    /\ e \in dlq
    /\ dlq' = dlq \ {e}
    /\ work' = IF e \in DlqCloses /\ work[e] = "OPEN" THEN [work EXCEPT ![e] = "DEAD"] ELSE work
    /\ UNCHANGED <<dispatcher, jobs, inboxRow, owner, attemptsMade, handler, rest>>

CaptureLost(e) ==
    /\ e \in dlq
    /\ WorkerFault
    /\ dlq' = dlq \ {e}
    /\ UNCHANGED <<outboxVars, inboxRow, owner, attemptsMade, handler, zombies, returned>>

\* An orphaned lease runs out; a held one when its process stalls.
OrphanInboxLeaseExpires(e) ==
    /\ inboxLeased[e] /\ inboxBy[e] = Orphan
    /\ inboxLeased' = [inboxLeased EXCEPT ![e] = FALSE]
    /\ UNCHANGED <<outboxVars, inbox, inboxBy, bull, handler, rest>>

HeldInboxLeaseExpires(e) ==
    /\ inboxLeased[e] /\ inboxBy[e] \in Workers
    /\ WorkerFault
    /\ inboxLeased' = [inboxLeased EXCEPT ![e] = FALSE]
    /\ UNCHANGED <<outboxVars, inbox, inboxBy, bull, handler, zombies, returned>>

-----------------------------------------------------------------------------

\* processLeadVirtJobWithReliability
Handle(w) ==
    \/ FirstClaim(w) \/ WaitEnds(w) \/ SecondClaim(w) \/ ClaimError(w)
    \/ ProcessorReturns(w) \/ Timeout(w)
    \/ \E unrecoverable \in BOOLEAN : ProcessorThrows(w, unrecoverable)
    \/ CompleteRuntimeInbox(w) \/ FailRuntimeInbox(w)

Bull(e) ==
    \/ \E w \in Workers : TakeJob(w, e)
    \/ StallDetected(e) \/ JobLockLost(e) \/ RemoveJob(e)

InboxTimers(e) ==
    \/ OrphanInboxLeaseExpires(e) \/ HeldInboxLeaseExpires(e)
    \/ CaptureDeadLetter(e) \/ CaptureLost(e) \/ ZombieEnds(e)

Next ==
    \/ DispatcherNext /\ UNCHANGED inboxVars
    \/ \E w \in Workers : Handle(w) \/ WorkerCrash(w)
    \/ \E e \in Events : Bull(e) \/ InboxTimers(e)

Spec == Init /\ [][Next]_vars

\* A live worker takes waiting jobs and runs its handler on (the timeout bounds
\* the processor, the wait is bounded); a job whose owner is gone is found
\* stalled.
ConsumerFairness ==
    /\ \A w \in Workers : WF_vars(Handle(w))
    /\ \A e \in Events : /\ WF_vars(\E w \in Workers : TakeJob(w, e))
                         /\ WF_vars(StallDetected(e))

FairSpec == Spec /\ ConsumerFairness

-----------------------------------------------------------------------------
(* Properties.                                                             *)

\* Type invariant of the inbox rows, the queue and the handlers.
InboxTypeOK ==
    /\ OutboxTypeOK
    /\ inbox \in [Events -> InboxStatus]
    /\ inboxLeased \in [Events -> BOOLEAN]
    /\ inboxBy \in [Events -> Workers \cup {NoWorker, Orphan}]
    /\ owner \in [Events -> Workers \cup {NoWorker}]
    /\ attemptsMade \in [Events -> 0..JobAttempts]
    /\ dlq \subseteq Events /\ zombies \subseteq Events /\ returned \subseteq Events
    /\ step \in [Workers -> HandlerStep]
    /\ job \in [Workers -> Events \cup {NoEvent}]
    /\ claimed \in [Workers -> BOOLEAN]
    /\ fatal \in [Workers -> BOOLEAN]
    /\ workerFaults \in 0..MaxWorkerFaults

\* A stored result is never taken back: no late failure, no claim of an
\* overlapping handler and no timer moves a row out of SUCCEEDED
\* (claimRuntimeInbox, failRuntimeInbox).
ResultIsFinal ==
    [][\A e \in Events : inbox[e] = "SUCCEEDED" => inbox'[e] = "SUCCEEDED"]_vars

\* A stored result is the result of a processor run that returned within its
\* timeout: overlapping handlers, timeouts and runs without a claim never
\* record one for an event that was not processed (completeRuntimeInbox).
ResultMeansReturned ==
    \A e \in Events : inbox[e] = "SUCCEEDED" => e \in returned

\* The state is well typed and no result is made up.
InboxInvariant == InboxTypeOK /\ ResultMeansReturned

\* A handler that runs under a claim whose lease is live keeps it: while it
\* does not act itself, no other handler, timer or late failure takes over,
\* releases or settles its row (claimRuntimeInbox, the lockedBy guards).
LiveClaimIsUndisturbed ==
    [][\A w \in Workers : LET e == job[w] IN
          claimed[w] /\ inboxBy[e] = w /\ inboxLeased[e] /\ step'[w] = step[w]
          => inboxBy'[e] = w /\ inbox'[e] = inbox[e]]_vars

\* The composition implements the outbox specification: whatever the workers
\* do, to the outbox they are its abstract consumer.
ImplementsOutbox == OutboxSpec

\* Every job that BullMQ has waiting is finished in the end: no claim, wait
\* or lease blocks it for ever, also when its worker dies holding the claim
\* (processLeadVirtJobWithReliability).
JobsFinish ==
    \A e \in Events : jobs[e] = "waiting" ~> jobs[e] \in {"completed", "failed", "removed"}

-----------------------------------------------------------------------------
(* What the repository says of the consumer and the code does not do.      *)

\* "Consumers ... suppress duplicate execution through an inbox lease/result":
\* a processor does not start for an event whose result is already stored
\* (docs/DECISION_LOG.md; the claim after waitForRuntimeInbox).
DuplicateExecutionSuppressed ==
    [][\A w \in Workers : step[w] # "processing" /\ step'[w] = "processing" =>
          inbox[job[w]] # "SUCCEEDED"]_vars

\* "... and dead-letter poison or exhausted work while updating the related
\* reply/message terminal state": once the failure of a job is captured, its
\* business object is no longer open.  Asked only of jobs that were never
\* claimed, so that nothing depends on the processor (captureDeadLetterJob).
ExhaustedWorkIsClosed ==
    \A e \in Events : jobs[e] = "failed" /\ e \notin dlq /\ inbox[e] = "NONE" =>
        work[e] # "OPEN"

=============================================================================
