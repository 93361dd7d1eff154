---------------------------- MODULE RuntimeOutbox ----------------------------
(***************************************************************************)
(* The transactional outbox of packages/runtime-queue: rows of the table   *)
(* RuntimeOutbox, the dispatch() calls of RuntimeOutboxDispatcher that     *)
(* publish them to BullMQ, and the cascade that closes the business        *)
(* object of an event that cannot be delivered.                            *)
(*                                                                         *)
(* Every API and worker process owns a dispatcher; dispatch() runs both    *)
(* right after a request commits and from a five second drain timer, so    *)
(* several calls race for a row.  A call is identified with the random     *)
(* lockId it writes into the row.  When a call ends without releasing its  *)
(* row (crash, lost transaction), the row keeps a lockId nobody holds:     *)
(* Orphan.                                                                 *)
(*                                                                         *)
(* Clocks are not modelled by numbers.  A timestamp that the code compares *)
(* with the present is a Boolean saying how the comparison comes out, and  *)
(* an action of its own lets it flip at any moment:                        *)
(*   due    availableAt  <= now                                            *)
(*   leased lockExpiresAt > now                                            *)
(*   late   deadlineAt   <= now  (FALSE for ever without a deadline)       *)
(***************************************************************************)
EXTENDS Naturals

CONSTANTS
    Events,         \* outbox rows, one per (tenant, dedupeKey)
    Calls,          \* concurrent dispatch() invocations, each one lockId
    Deadlined,      \* the events created with a deadlineAt
    Cascading,      \* the events whose dead letter closes a business object
    Replies,        \* the ai.reply.requested events, which a human may overtake
    MaxAttempts,    \* RuntimeOutbox.maxAttempts
    MaxFaults,      \* bound: crashes, lost commits and stalled lease holders
    NoCall, Orphan, NoEvent

ASSUME OutboxAssumption ==
    /\ Deadlined \subseteq Events
    /\ Cascading \subseteq Events
    /\ Replies \subseteq Cascading
    /\ MaxAttempts \in Nat \ {0}
    /\ MaxFaults \in Nat
    /\ NoCall \notin Calls /\ Orphan \notin Calls /\ NoCall # Orphan
    /\ NoEvent \notin Events

VARIABLES
    \* columns of the rows
    status, attemptCount, due, leased, lockedBy, late,
    work,     \* the status of the business object each event is about
    jobs,     \* what BullMQ knows of the event's jobId
    \* local state of the dispatch() calls: where the call is, its row, the
    \* attemptCount it read, and its leaseLost flag
    pc, event, seen, leaseLost,
    revoked,  \* rows that a human action dead-lettered
    faults    \* faults that have happened so far

lockVars == <<leased, lockedBy>>
rowVars == <<status, attemptCount, due, leased, lockedBy, late>>
callVars == <<pc, event, seen, leaseLost>>
outboxVars == <<rowVars, work, jobs, callVars, revoked, faults>>

-----------------------------------------------------------------------------
(* State.                                                                  *)

RowStatus == {"NONE", "PENDING", "PUBLISHING", "PUBLISHED", "FAILED", "DEAD_LETTER"}

\* OPEN: a status in the `in` list of the cascade's updateMany (a reply run
\* that is QUEUED, RUNNING ..., a message that is QUEUED ...).  DEAD: closed
\* by a cascade or a human.  DONE: closed by the processor of the job.
WorkStatus == {"OPEN", "DONE", "DEAD"}

\* BullMQ: absent until queue.add accepts the jobId; removed is a job that was
\* pruned by removeOnComplete or removeOnFail.
JobStatus == {"absent", "waiting", "active", "completed", "failed", "removed"}

CallStep == {"idle", "claimed", "publishing", "added", "failing"}

OutboxInit ==
    /\ status = [e \in Events |-> "NONE"]
    /\ attemptCount = [e \in Events |-> 0]
    /\ due = [e \in Events |-> TRUE]
    /\ leased = [e \in Events |-> FALSE]
    /\ lockedBy = [e \in Events |-> NoCall]
    /\ late = [e \in Events |-> FALSE]
    /\ work = [e \in Events |-> "OPEN"]
    /\ jobs = [e \in Events |-> "absent"]
    /\ pc = [c \in Calls |-> "idle"]
    /\ event = [c \in Calls |-> NoEvent]
    /\ seen = [c \in Calls |-> 0]
    /\ leaseLost = [c \in Calls |-> FALSE]
    /\ revoked = {}
    /\ faults = 0

\* attemptCount is only ever compared with maxAttempts, so it saturates there.
Increment(n) == IF n < MaxAttempts THEN n + 1 ELSE n

Fault == /\ faults < MaxFaults
         /\ faults' = faults + 1

\* The where clause every later update of a claimed row repeats.
Holds(c, e) == status[e] = "PUBLISHING" /\ lockedBy[e] = c

\* dispatch() returns or throws: its local state is gone.
Return(c) ==
    /\ pc' = [pc EXCEPT ![c] = "idle"]
    /\ event' = [event EXCEPT ![c] = NoEvent]
    /\ seen' = [seen EXCEPT ![c] = 0]
    /\ leaseLost' = [leaseLost EXCEPT ![c] = FALSE]

GoTo(c, step) ==
    /\ pc' = [pc EXCEPT ![c] = step]
    /\ UNCHANGED <<event, seen, leaseLost>>

\* The row of e leaves PUBLISHING; its lock columns are cleared.
Release(e, newStatus) ==
    /\ status' = [status EXCEPT ![e] = newStatus]
    /\ leased' = [leased EXCEPT ![e] = FALSE]
    /\ lockedBy' = [lockedBy EXCEPT ![e] = NoCall]
    /\ UNCHANGED <<attemptCount, late>>

-----------------------------------------------------------------------------
(* Producers.                                                              *)

\* createRuntimeQueueEvent: upsert on (tenantId, dedupeKey) inside the business
\* transaction.  A second call with the same input finds the row and leaves it.
CreateEvent(e) ==
    /\ status[e] = "NONE"
    /\ status' = [status EXCEPT ![e] = "PENDING"]
    /\ UNCHANGED <<attemptCount, due, lockVars, late, work, jobs, callVars, revoked, faults>>

\* A human answers, assigns, hands off, or automatic replies are revoked: one
\* transaction supersedes the active reply runs and dead-letters the rows that
\* are not published yet, whoever holds their lease.
FencePendingAiReply(e) ==
    /\ e \in Replies
    /\ status[e] # "NONE"
    /\ work' = IF work[e] = "OPEN" THEN [work EXCEPT ![e] = "DEAD"] ELSE work
    /\ IF status[e] \in {"PENDING", "PUBLISHING", "FAILED"}
         THEN Release(e, "DEAD_LETTER") /\ revoked' = revoked \cup {e}
         ELSE UNCHANGED <<status, attemptCount, lockVars, late, revoked>>
    /\ UNCHANGED <<due, jobs, callVars, faults>>

-----------------------------------------------------------------------------
(* RuntimeOutboxDispatcher.dispatch, one action per database or queue call. *)

\* Mutant: a claim that leaves a crashed dispatcher's row alone.
ClaimableIfUnlocked(e) ==
    /\ due[e]
    /\ status[e] \in {"PENDING", "FAILED"}

Claimable(e) ==
    /\ due[e]
    /\ \/ status[e] \in {"PENDING", "FAILED"}
       \/ status[e] = "PUBLISHING" /\ ~leased[e]

\* The claiming updateMany.  When it matches no row the call returns
\* already_published or not_available and changes nothing.
Claim(c, e) ==
    /\ pc[c] = "idle"
    /\ Claimable(e)
    /\ status' = [status EXCEPT ![e] = "PUBLISHING"]
    /\ attemptCount' = [attemptCount EXCEPT ![e] = Increment(@)]
    /\ leased' = [leased EXCEPT ![e] = TRUE]
    /\ lockedBy' = [lockedBy EXCEPT ![e] = c]
    /\ pc' = [pc EXCEPT ![c] = "claimed"]
    /\ event' = [event EXCEPT ![c] = e]
    /\ UNCHANGED <<due, late, work, jobs, seen, leaseLost, revoked, faults>>

\* findUniqueOrThrow and the deadline check.  The row is read again after the
\* claim: attemptCount is what the row holds now, not what this claim wrote.
ReadEvent(c) ==
    LET e == event[c] IN
    /\ pc[c] = "claimed"
    /\ seen' = [seen EXCEPT ![c] = attemptCount[e]]
    /\ pc' = [pc EXCEPT ![c] = IF late[e] THEN "failing" ELSE "publishing"]
    /\ UNCHANGED <<rowVars, work, jobs, event, leaseLost, revoked, faults>>

\* One tick of the renewal timer while queue.add is pending.
RenewLease(c) ==
    LET e == event[c] IN
    /\ pc[c] = "publishing"
    /\ IF Holds(c, e)
         THEN /\ leased' = [leased EXCEPT ![e] = TRUE]
              /\ UNCHANGED leaseLost
         ELSE /\ leaseLost' = [leaseLost EXCEPT ![c] = TRUE]
              /\ UNCHANGED leased
    /\ UNCHANGED <<status, attemptCount, due, lockedBy, late, work, jobs, pc, event, seen, revoked, faults>>

\* The renewal query itself fails: the call takes its lease for lost.
RenewError(c) ==
    /\ pc[c] = "publishing"
    /\ Fault
    /\ leaseLost' = [leaseLost EXCEPT ![c] = TRUE]
    /\ UNCHANGED <<rowVars, work, jobs, pc, event, seen, revoked>>

\* External: BullMQ ignores an add whose jobId it still has.
Accept(e) == jobs' = [jobs EXCEPT ![e] = IF @ \in {"absent", "removed"} THEN "waiting" ELSE @]

QueueAdd(c) ==
    /\ pc[c] = "publishing"
    /\ Accept(event[c])
    /\ GoTo(c, "added")
    /\ UNCHANGED <<rowVars, work, revoked, faults>>

\* queue.add rejects: Redis refused the job, or took it and the answer was lost.
QueueAddError(c) ==
    /\ pc[c] = "publishing"
    /\ Accept(event[c]) \/ UNCHANGED jobs
    /\ GoTo(c, "failing")
    /\ UNCHANGED <<rowVars, work, revoked, faults>>

\* The updateMany to PUBLISHED, or one of the two "lease was lost" errors.
MarkPublished(c) ==
    LET e == event[c] IN
    /\ pc[c] = "added"
    /\ IF ~leaseLost[c] /\ Holds(c, e)
         THEN Release(e, "PUBLISHED") /\ UNCHANGED due /\ Return(c)
         ELSE UNCHANGED rowVars /\ GoTo(c, "failing")
    /\ UNCHANGED <<work, jobs, revoked, faults>>

\* The updateMany to PUBLISHED throws although the job is queued.
MarkError(c) ==
    /\ pc[c] = "added"
    /\ GoTo(c, "failing")
    /\ UNCHANGED <<rowVars, work, jobs, revoked, faults>>

\* Mutant: gives up one attempt early.
TerminalOneEarly(c) == seen[c] + 1 >= MaxAttempts \/ late[event[c]]

\* The `terminal` of the catch block.  RuntimeOutboxDeadlineError is thrown only
\* once the deadline has passed, so it needs no disjunct of its own.
Terminal(c) == seen[c] >= MaxAttempts \/ late[event[c]]

\* Mutant: the cascade is forgotten.
CloseNothing(e) == work

\* The cascade of failClaimedEvent: close the object if it is still open.
CloseWork(e) == IF e \in Cascading /\ work[e] = "OPEN"
                THEN [work EXCEPT ![e] = "DEAD"] ELSE work

\* failClaimedEvent: one transaction for the row, its backoff and the cascade.
FailClaimedEvent(c) ==
    LET e == event[c] IN
    /\ pc[c] = "failing"
    /\ IF Holds(c, e)
         THEN /\ Release(e, IF Terminal(c) THEN "DEAD_LETTER" ELSE "FAILED")
              /\ due' = [due EXCEPT ![e] = FALSE]
              /\ work' = IF Terminal(c) THEN CloseWork(e) ELSE work
         ELSE UNCHANGED <<rowVars, work>>
    /\ Return(c)
    /\ UNCHANGED <<jobs, revoked, faults>>

\* The process dies at any point of dispatch(), or the transaction of
\* failClaimedEvent fails (its error is swallowed).  A row that carries the
\* lockId of this call carries, from now on, the lockId of nobody.
Crash(c) ==
    /\ pc[c] # "idle"
    /\ Fault
    /\ lockedBy' = [e \in Events |-> IF lockedBy[e] = c THEN Orphan ELSE lockedBy[e]]
    /\ Return(c)
    /\ UNCHANGED <<status, attemptCount, due, leased, late, work, jobs, revoked>>

-----------------------------------------------------------------------------
(* Timers.                                                                 *)

BackoffElapses(e) ==
    /\ ~due[e]
    /\ due' = [due EXCEPT ![e] = TRUE]
    /\ UNCHANGED <<status, attemptCount, lockVars, late, work, jobs, callVars, revoked, faults>>

\* An orphaned lease always runs out.
OrphanLeaseExpires(e) ==
    /\ leased[e]
    /\ lockedBy[e] = Orphan
    /\ leased' = [leased EXCEPT ![e] = FALSE]
    /\ UNCHANGED <<status, attemptCount, due, lockedBy, late, work, jobs, callVars, revoked, faults>>

\* The lease of a live call runs out when its process stalls for leaseMs.
HeldLeaseExpires(e) ==
    /\ leased[e]
    /\ lockedBy[e] \in Calls
    /\ Fault
    /\ leased' = [leased EXCEPT ![e] = FALSE]
    /\ UNCHANGED <<status, attemptCount, due, lockedBy, late, work, jobs, callVars, revoked>>

DeadlinePasses(e) ==
    /\ e \in Deadlined
    /\ status[e] # "NONE"
    /\ ~late[e]
    /\ late' = [late EXCEPT ![e] = TRUE]
    /\ UNCHANGED <<status, attemptCount, due, lockVars, work, jobs, callVars, revoked, faults>>

-----------------------------------------------------------------------------
(* The consumer, as far as the outbox sees it: once BullMQ has the job it   *)
(* moves it about, and the job's processor closes the business object.      *)
(* RuntimeInbox replaces this action by the worker's steps.                 *)

Consume(e) ==
    /\ jobs[e] # "absent"
    /\ \E j \in JobStatus \ {"absent"} : jobs' = [jobs EXCEPT ![e] = j]
    /\ \E w \in {work[e], "DONE", "DEAD"} : work' = [work EXCEPT ![e] = w]
    /\ UNCHANGED <<rowVars, callVars, revoked, faults>>

-----------------------------------------------------------------------------

Dispatch(c) ==
    \/ \E e \in Events : Claim(c, e)
    \/ ReadEvent(c)
    \/ RenewLease(c)
    \/ RenewError(c)
    \/ QueueAdd(c)
    \/ QueueAddError(c)
    \/ MarkPublished(c)
    \/ MarkError(c)
    \/ FailClaimedEvent(c)
    \/ Crash(c)

Timers(e) ==
    \/ BackoffElapses(e)
    \/ OrphanLeaseExpires(e)
    \/ HeldLeaseExpires(e)
    \/ DeadlinePasses(e)

DispatcherNext ==
    \/ \E e \in Events : CreateEvent(e) \/ FencePendingAiReply(e)
    \/ \E c \in Calls : Dispatch(c)
    \/ \E e \in Events : Timers(e)

OutboxNext ==
    \/ DispatcherNext
    \/ \E e \in Events : Consume(e)

OutboxSpec == OutboxInit /\ [][OutboxNext]_outboxVars

\* The drain timer of a live process claims what is due; a started call runs
\* on, because Prisma and BullMQ calls either return or throw; time passes.
\* Nothing forces Redis to accept a job, and nothing forces a producer to act.
DispatchProgress(c) ==
    ReadEvent(c) \/ QueueAdd(c) \/ QueueAddError(c) \/ MarkPublished(c)
        \/ MarkError(c) \/ FailClaimedEvent(c)

OutboxFairness ==
    /\ \A c \in Calls : WF_outboxVars(DispatchProgress(c))
    /\ \A e \in Events : /\ WF_outboxVars(\E c \in Calls : Claim(c, e))
                         /\ WF_outboxVars(BackoffElapses(e))
                         /\ WF_outboxVars(OrphanLeaseExpires(e))

FairOutboxSpec == OutboxSpec /\ OutboxFairness

-----------------------------------------------------------------------------
(* Properties.                                                             *)

\* Type invariant of the rows, the objects, the queue and the calls.
OutboxTypeOK ==
    /\ status \in [Events -> RowStatus]
    /\ attemptCount \in [Events -> 0..MaxAttempts]
    /\ due \in [Events -> BOOLEAN]
    /\ leased \in [Events -> BOOLEAN]
    /\ lockedBy \in [Events -> Calls \cup {NoCall, Orphan}]
    /\ late \in [Events -> BOOLEAN]
    /\ work \in [Events -> WorkStatus]
    /\ jobs \in [Events -> JobStatus]
    /\ pc \in [Calls -> CallStep]
    /\ event \in [Calls -> Events \cup {NoEvent}]
    /\ seen \in [Calls -> 0..MaxAttempts]
    /\ leaseLost \in [Calls -> BOOLEAN]
    /\ revoked \subseteq Events
    /\ faults \in 0..MaxFaults

\* A row that is PUBLISHED was handed to BullMQ: whatever calls lost their
\* lease, failed or crashed in between, the outbox never forgets an event it
\* has not queued (dispatch, updateMany to PUBLISHED).
PublishedWasQueued ==
    \A e \in Events : status[e] = "PUBLISHED" => jobs[e] # "absent"

\* A dead-lettered event leaves no business object open that its cascade is
\* responsible for: the row and the object settle in one transaction, and a
\* consumer of a job that reached BullMQ anyway does not reopen it
\* (failClaimedEvent).
DeadLetterClosesWork ==
    \A e \in Cascading : status[e] = "DEAD_LETTER" => work[e] # "OPEN"

\* An event is given up only when its deadline has passed, its attempts are
\* used up or a human overtook it, also when the deciding call read the row
\* after it lost it (dispatch, `terminal`).
GivenUpForCause ==
    \A e \in Events : status[e] = "DEAD_LETTER" =>
        late[e] \/ attemptCount[e] = MaxAttempts \/ e \in revoked

\* The lockId in a row is that of a call still working on that row, or of
\* nobody; and only a PUBLISHING row carries one (claim, release and fail).
LockBelongsToWorker ==
    \A e \in Events :
        /\ status[e] = "PUBLISHING" <=> lockedBy[e] # NoCall
        /\ \A c \in Calls : lockedBy[e] = c =>
                               pc[c] # "idle" /\ event[c] = e

\* PUBLISHED and DEAD_LETTER are final: no stale call and no timer ever takes
\* a row out of them or renames its outcome (the lockedBy guards of dispatch).
SettledRowsStaySettled ==
    [][\A e \in Events : status[e] \in {"PUBLISHED", "DEAD_LETTER"} =>
          status'[e] = status[e]]_outboxVars

\* Every created event is published or dead-lettered in the end, although its
\* dispatchers may crash, stall and lose their leases (drain, lease expiry).
EveryEventSettles ==
    \A e \in Events : status[e] = "PENDING" ~>
                         status[e] \in {"PUBLISHED", "DEAD_LETTER"}

\* The outbox implements EventDelivery: leases, renewals, retries and crashes
\* are invisible, only the hand-over, the delivery and the abandonment are not.
DeliveryState(s) == CASE s = "NONE"        -> "none"
                      [] s = "PUBLISHED"   -> "delivered"
                      [] s = "DEAD_LETTER" -> "abandoned"
                      [] OTHER             -> "requested"

Delivery == INSTANCE EventDelivery WITH
    state  <- [e \in Events |-> DeliveryState(status[e])],
    handed <- [e \in Events |-> jobs[e] # "absent"],
    open   <- [e \in Events |-> work[e] = "OPEN"]

ImplementsDelivery == Delivery!Spec

=============================================================================
