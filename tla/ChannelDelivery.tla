--------------------------- MODULE ChannelDelivery ---------------------------
(***************************************************************************)
(* The delivery of one outbound message: executions of                     *)
(* deliverChannelMessage, the ledger ChannelDeliveryOperation that keeps a *)
(* queue retry from sending twice, the provider, and the operator who      *)
(* reconciles unknown outcomes.                                            *)
(*                                                                         *)
(* A run is one execution: the job is retried, and a timed-out or stalled  *)
(* execution goes on beside its retry.  A route stands for what identifies *)
(* an operation next to the message: the channel account and the           *)
(* recipient.  A change of the channel's settings keeps the identity and   *)
(* changes the request hash, on which the run throws before it writes.     *)
(* Likewise every failing query, the abort signal and the death of the     *)
(* process end a run where it stands (Stop).                               *)
(***************************************************************************)
EXTENDS Naturals

CONSTANTS
    Runs,          \* executions of deliverChannelMessage, each happens once
    Routes,        \* channel account and recipient
    MaxAttempts,   \* maxDeliveryAttempts
    NoRun, NoRoute

ASSUME DeliveryAssumption ==
    /\ NoRun \notin Runs
    /\ NoRoute \notin Routes
    /\ MaxAttempts \in Nat \ {0}

VARIABLES
    message,                 \* Message.status
    automatic,               \* the message is an AI reply
    route, active,           \* the channel as it is now, and whether it is usable
    current, allowed,        \* the reply's run is at the fence; replies are admitted
    op, attempts, newest,    \* the ledger, one operation per route
    lock,                    \* who holds the conversation row FOR UPDATE
    pc,
    seenMessage, seenRoute, seenActive, seenCurrent,   \* what the run has loaded
    request                  \* what became of the run's provider call

channelVars == <<automatic, route, active, current, allowed>>
ledger == <<op, attempts, newest>>
seenVars == <<seenMessage, seenRoute, seenActive, seenCurrent>>
vars == <<message, channelVars, ledger, lock, pc, seenVars, request>>

MessageStatus == {"QUEUED", "SENT", "FAILED"}
OperationStatus == {"NONE", "REQUESTED", "STARTED", "SUCCEEDED", "FAILED", "UNKNOWN", "RECONCILED"}
RunStep == {"new", "loaded", "checked", "creating", "claiming", "claimed", "sending", "skipping",
            "releasing", "committing", "rejecting", "failing", "unknown", "done"}
ClaimedStep == {"claimed", "sending", "skipping", "releasing", "committing", "rejecting", "failing",
                "unknown"}
RequestStatus == {"none", "wire", "accepted", "rejected"}

Init ==
    /\ message = "QUEUED"
    /\ automatic \in BOOLEAN
    /\ route \in Routes
    /\ active \in BOOLEAN /\ allowed \in BOOLEAN /\ current = TRUE
    /\ op = [k \in Routes |-> "NONE"]
    /\ attempts = [k \in Routes |-> 0]
    /\ newest = NoRoute
    /\ lock = NoRun
    /\ pc = [r \in Runs |-> "new"]
    /\ seenMessage = [r \in Runs |-> "QUEUED"]
    /\ seenRoute = [r \in Runs |-> route]
    /\ seenActive = [r \in Runs |-> FALSE]
    /\ seenCurrent = [r \in Runs |-> FALSE]
    /\ request = [r \in Runs |-> "none"]

GoTo(r, step) == pc' = [pc EXCEPT ![r] = step]
Undelivered == message \in {"QUEUED", "FAILED"}
Settle(r, status) == op' = [op EXCEPT ![seenRoute[r]] = status]
Started(r) == op[seenRoute[r]] = "STARTED"
Unlock(r) == lock' = IF lock = r THEN NoRun ELSE lock

-----------------------------------------------------------------------------
(* Before the claim.                                                       *)

LoadMessage(r) ==
    /\ pc[r] = "new"
    /\ GoTo(r, "loaded")
    /\ seenMessage' = [seenMessage EXCEPT ![r] = message]
    /\ seenRoute' = [seenRoute EXCEPT ![r] = route]
    /\ seenActive' = [seenActive EXCEPT ![r] = active]
    /\ seenCurrent' = [seenCurrent EXCEPT ![r] = current]
    /\ UNCHANGED <<message, channelVars, ledger, lock, request>>

\* settledOperationResult of the message's newest operation, on whatever route,
\* then the message status as loaded.
CheckOperation(r) ==
    /\ pc[r] = "loaded"
    /\ GoTo(r, IF \/ newest # NoRoute /\ op[newest] # "REQUESTED"
                  \/ seenMessage[r] = "SENT"
               THEN "done" ELSE "checked")
    /\ UNCHANGED <<message, channelVars, ledger, lock, seenVars, request>>

\* markSkipped: the unlocked look at the fence and the evidence of an AI reply.
Skip(r) ==
    /\ pc[r] = "checked"
    /\ automatic /\ ~(seenCurrent[r] /\ allowed)
    /\ message' = IF Undelivered THEN "FAILED" ELSE message
    /\ GoTo(r, "done")
    /\ UNCHANGED <<channelVars, ledger, lock, seenVars, request>>

\* markFailed, whatever the message status is by now, and throw: the channel as
\* loaded is inactive, of another type, without an adapter or credentials.
Refuse(r) ==
    /\ pc[r] = "checked"
    /\ ~seenActive[r]
    /\ message' = "FAILED"
    /\ GoTo(r, "done")
    /\ UNCHANGED <<channelVars, ledger, lock, seenVars, request>>

\* Not every reason for which replies are disallowed is looked at here.
Proceed(r) ==
    /\ pc[r] = "checked"
    /\ seenActive[r]
    /\ automatic => seenCurrent[r]
    /\ GoTo(r, "creating")
    /\ UNCHANGED <<message, channelVars, ledger, lock, seenVars, request>>

\* findOrCreateRequestedOperation and the look at what it found.
FindOrCreateOperation(r) ==
    LET k == seenRoute[r] IN
    /\ pc[r] = "creating"
    /\ IF op[k] = "NONE"
         THEN op' = [op EXCEPT ![k] = "REQUESTED"] /\ newest' = k
         ELSE UNCHANGED <<op, newest>>
    /\ GoTo(r, IF op[k] \in {"NONE", "REQUESTED"} THEN "claiming" ELSE "done")
    /\ UNCHANGED <<message, channelVars, attempts, lock, seenVars, request>>

\* Mutant: the claim takes an operation over that another run has started.
ClaimStartedOperation(r) ==
    LET k == seenRoute[r] IN
    /\ pc[r] = "claiming"
    /\ IF op[k] \in {"REQUESTED", "STARTED"}
         THEN /\ op' = [op EXCEPT ![k] = "STARTED"]
              /\ attempts' = [attempts EXCEPT ![k] = @ + 1]
              /\ GoTo(r, "claimed")
         ELSE UNCHANGED <<op, attempts>> /\ GoTo(r, "done")
    /\ UNCHANGED <<message, channelVars, newest, lock, seenVars, request>>

\* claimRequestedOperation: only REQUESTED is claimed.
ClaimOperation(r) ==
    LET k == seenRoute[r] IN
    /\ pc[r] = "claiming"
    /\ IF op[k] = "REQUESTED"
         THEN /\ op' = [op EXCEPT ![k] = "STARTED"]
              /\ attempts' = [attempts EXCEPT ![k] = @ + 1]
              /\ GoTo(r, "claimed")
         ELSE UNCHANGED <<op, attempts>> /\ GoTo(r, "done")
    /\ UNCHANGED <<message, channelVars, newest, lock, seenVars, request>>

-----------------------------------------------------------------------------
(* The send transaction: the conversation row FOR UPDATE, the channel row   *)
(* FOR SHARE, the checks again, and the provider call under the locks.      *)

Permitted(r) ==
    /\ seenRoute[r] = route
    /\ active
    /\ automatic => current /\ allowed

Authorize(r) ==
    /\ pc[r] = "claimed"
    /\ lock = NoRun
    /\ IF Permitted(r)
         THEN /\ lock' = r
              /\ request' = [request EXCEPT ![r] = "wire"]
              /\ GoTo(r, "sending")
         ELSE GoTo(r, "skipping") /\ UNCHANGED <<lock, request>>
    /\ UNCHANGED <<message, channelVars, ledger, seenVars>>

\* The transaction, or the reconciliation of a refused send after it, throws and
\* the provider call has not started.
AuthorizeError(r) ==
    /\ pc[r] \in {"claimed", "skipping"}
    /\ GoTo(r, "releasing")
    /\ UNCHANGED <<message, channelVars, ledger, lock, seenVars, request>>

\* The 25 s of the transaction are over while the provider call is pending: the
\* locks are gone, the call goes on.
TransactionTimesOut(r) ==
    /\ pc[r] = "sending"
    /\ lock = r
    /\ lock' = NoRun
    /\ UNCHANGED <<message, channelVars, ledger, pc, seenVars, request>>

\* External: what the provider does with a request, whether anyone waits or not.
ProviderActs(r) ==
    /\ request[r] = "wire"
    /\ \E outcome \in {"accepted", "rejected"} : request' = [request EXCEPT ![r] = outcome]
    /\ UNCHANGED <<message, channelVars, ledger, lock, pc, seenVars>>

\* sendMessage returns and its transaction commits.
ProviderReturns(r) ==
    /\ pc[r] = "sending" /\ lock = r
    /\ \/ request[r] = "accepted" /\ GoTo(r, "committing")
       \/ request[r] = "rejected" /\ GoTo(r, "rejecting")
    /\ Unlock(r)
    /\ UNCHANGED <<message, channelVars, ledger, seenVars, request>>

\* A WebhookDeliveryError whose outcome is known: the request never left or was
\* refused.
ProviderRefuses(r, retryable) ==
    /\ pc[r] = "sending"
    /\ request[r] = "rejected"
    /\ GoTo(r, IF retryable /\ attempts[seenRoute[r]] < MaxAttempts THEN "releasing" ELSE "failing")
    /\ Unlock(r)
    /\ UNCHANGED <<message, channelVars, ledger, seenVars, request>>

\* Anything else: a timeout, an abort, an error of Telegram, or the send
\* transaction does not commit any more.
OutcomeUnknown(r) ==
    /\ pc[r] = "sending"
    /\ GoTo(r, "unknown")
    /\ Unlock(r)
    /\ UNCHANGED <<message, channelVars, ledger, seenVars, request>>

-----------------------------------------------------------------------------
(* Recording the outcome.                                                  *)

\* commitSuccessfulDelivery: the message and the operation settle together.
\* When it throws, or its answer is lost, the outcome is recorded as unknown.
CommitSuccessfulDelivery(r) ==
    /\ pc[r] = "committing"
    /\ \/ /\ Undelivered /\ Started(r)
          /\ message' = "SENT"
          /\ Settle(r, "SUCCEEDED")
          /\ GoTo(r, "done") \/ GoTo(r, "unknown")
       \/ UNCHANGED <<message, op>> /\ GoTo(r, "unknown")
    /\ UNCHANGED <<channelVars, attempts, newest, lock, seenVars, request>>

\* commitAdapterFailure, likewise.
CommitAdapterFailure(r) ==
    /\ pc[r] = "rejecting"
    /\ \/ /\ Undelivered /\ Started(r)
          /\ message' = "FAILED"
          /\ Settle(r, "FAILED")
          /\ GoTo(r, "done") \/ GoTo(r, "unknown")
       \/ UNCHANGED <<message, op>> /\ GoTo(r, "unknown")
    /\ UNCHANGED <<channelVars, attempts, newest, lock, seenVars, request>>

\* commitWebhookDeliveryFailure; its own error ends the run.
CommitWebhookFailure(r) ==
    /\ pc[r] = "failing"
    /\ Undelivered /\ Started(r)
    /\ message' = "FAILED"
    /\ Settle(r, "FAILED")
    /\ GoTo(r, "done")
    /\ UNCHANGED <<channelVars, attempts, newest, lock, seenVars, request>>

\* releaseUnstartedOperation and releaseRetryableWebhookOperation, and throw.
ReleaseOperation(r) ==
    /\ pc[r] = "releasing"
    /\ Started(r)
    /\ Settle(r, "REQUESTED")
    /\ GoTo(r, "done")
    /\ UNCHANGED <<message, channelVars, attempts, newest, lock, seenVars, request>>

\* reconcileSkippedOperation; when its answer is lost, the run goes on to release
\* an operation that is no longer STARTED, which does nothing.
ReconcileSkipped(r) ==
    /\ pc[r] = "skipping"
    /\ Started(r)
    /\ message' = IF Undelivered THEN "FAILED" ELSE message
    /\ Settle(r, "RECONCILED")
    /\ GoTo(r, "done") \/ GoTo(r, "releasing")
    /\ UNCHANGED <<channelVars, attempts, newest, lock, seenVars, request>>

\* Mutants: an unknown outcome is recorded over a settled one; it is retried.
RecordUnknownAlways(r) ==
    /\ pc[r] = "unknown"
    /\ Settle(r, "UNKNOWN")
    /\ GoTo(r, "done")
    /\ UNCHANGED <<message, channelVars, attempts, newest, lock, seenVars, request>>

RetryUnknown(r) ==
    /\ pc[r] = "unknown"
    /\ op' = IF Started(r) THEN [op EXCEPT ![seenRoute[r]] = "REQUESTED"] ELSE op
    /\ GoTo(r, "done")
    /\ UNCHANGED <<message, channelVars, attempts, newest, lock, seenVars, request>>

\* recordUnknownOperation, and throw.
RecordUnknown(r) ==
    /\ pc[r] = "unknown"
    /\ op' = IF Started(r) THEN [op EXCEPT ![seenRoute[r]] = "UNKNOWN"] ELSE op
    /\ GoTo(r, "done")
    /\ UNCHANGED <<message, channelVars, attempts, newest, lock, seenVars, request>>

\* A query throws outside the handled places, the job is aborted between two
\* steps, or the process dies.  The request stays with the provider.
Stop(r) ==
    /\ pc[r] \notin {"new", "done"}
    /\ GoTo(r, "done")
    /\ Unlock(r)
    /\ UNCHANGED <<message, channelVars, ledger, seenVars, request>>

-----------------------------------------------------------------------------
(* Everyone else.                                                          *)

\* The cascade of a dead-lettered or expired event.
EventGivenUp ==
    /\ message = "QUEUED"
    /\ message' = "FAILED"
    /\ UNCHANGED <<channelVars, ledger, lock, pc, seenVars, request>>

\* Mutant: the conversation row is not locked.
TakeOverUnlocked ==
    /\ current
    /\ current' = FALSE
    /\ UNCHANGED <<message, automatic, route, active, allowed, ledger, lock, pc, seenVars, request>>

\* A newer message, a human or a revocation moves the fence of the
\* conversation (AiReplyRun), under the conversation lock.
TakeOver ==
    /\ current
    /\ lock = NoRun
    /\ current' = FALSE
    /\ UNCHANGED <<message, automatic, route, active, allowed, ledger, lock, pc, seenVars, request>>

\* Publication, permissions and evidence are not locked by the send.
AdmissionChanges ==
    /\ allowed' = ~allowed
    /\ UNCHANGED <<message, automatic, route, active, current, ledger, lock, pc, seenVars, request>>

\* The channel is disconnected, connected again, or bound to another account:
\* an update of the channel row, which the send has locked.
ChannelChanges(k, usable) ==
    /\ lock = NoRun
    /\ route' = k /\ active' = usable
    /\ <<k, usable>> # <<route, active>>
    /\ UNCHANGED <<message, automatic, current, allowed, ledger, lock, pc, seenVars, request>>

Calls(k) == {r \in Runs : seenRoute[r] = k /\ request[r] \in {"wire", "accepted"}}

\* The operator's reconciliation.  The row must be what it was when the provider
\* was asked (xmin), so question and commit are one step; the reader is external
\* and its answer authoritative.  The message is not touched.
Reconcile(k) ==
    /\ op[k] = "UNKNOWN"
    /\ \/ /\ \E r \in Calls(k) : request[r] = "accepted"
          /\ op' = [op EXCEPT ![k] = "SUCCEEDED"]
       \/ /\ Calls(k) = {}
          /\ op' = [op EXCEPT ![k] = "FAILED"]
    /\ UNCHANGED <<message, channelVars, attempts, newest, lock, pc, seenVars, request>>

-----------------------------------------------------------------------------

Deliver(r) ==
    \/ LoadMessage(r) \/ CheckOperation(r) \/ Skip(r) \/ Refuse(r) \/ Proceed(r)
    \/ FindOrCreateOperation(r) \/ ClaimOperation(r)
    \/ Authorize(r) \/ AuthorizeError(r) \/ TransactionTimesOut(r)
    \/ ProviderReturns(r) \/ OutcomeUnknown(r)
    \/ \E retryable \in BOOLEAN : ProviderRefuses(r, retryable)
    \/ CommitSuccessfulDelivery(r) \/ CommitAdapterFailure(r) \/ CommitWebhookFailure(r)
    \/ ReleaseOperation(r) \/ ReconcileSkipped(r) \/ RecordUnknown(r)
    \/ Stop(r)

Environment ==
    \/ EventGivenUp \/ TakeOver \/ AdmissionChanges
    \/ \E k \in Routes, usable \in BOOLEAN : ChannelChanges(k, usable)
    \/ \E k \in Routes : Reconcile(k)

Next ==
    \/ \E r \in Runs : Deliver(r) \/ ProviderActs(r)
    \/ Environment

Spec == Init /\ [][Next]_vars

-----------------------------------------------------------------------------
(* Properties.                                                             *)

\* Type invariant of the message, its operations and the runs.
DeliveryTypeOK ==
    /\ message \in MessageStatus
    /\ automatic \in BOOLEAN /\ active \in BOOLEAN
    /\ current \in BOOLEAN /\ allowed \in BOOLEAN
    /\ route \in Routes
    /\ op \in [Routes -> OperationStatus]
    /\ attempts \in [Routes -> Nat]
    /\ newest \in Routes \cup {NoRoute}
    /\ lock \in Runs \cup {NoRun}
    /\ pc \in [Runs -> RunStep]
    /\ seenMessage \in [Runs -> MessageStatus]
    /\ seenRoute \in [Runs -> Routes]
    /\ seenActive \in [Runs -> BOOLEAN]
    /\ seenCurrent \in [Runs -> BOOLEAN]
    /\ request \in [Runs -> RequestStatus]

Live(r) == request[r] \in {"wire", "accepted"}

\* One operation reaches the provider once: however often the job is retried
\* and whatever runs overlap, time out or die, no second request of the same
\* operation is sent while one is on the wire or after one was accepted
\* (claimRequestedOperation, settledOperationResult).
OneCallPerOperation ==
    \A r, q \in Runs : r # q /\ seenRoute[r] = seenRoute[q] => ~(Live(r) /\ Live(q))

\* An operation that is open for a retry, or is reported as failed or skipped,
\* has no request that the provider accepted or may still accept
\* (recordUnknownOperation, the release and failure commits).
WrittenOffWasNotDelivered ==
    \A k \in Routes : op[k] \in {"NONE", "REQUESTED", "FAILED", "RECONCILED"} =>
        \A r \in Runs : seenRoute[r] = k => ~Live(r)

\* An operation that reports success, and a message that is SENT, were accepted
\* by the provider (commitSuccessfulDelivery, commitReconciliation).
SuccessWasAccepted ==
    /\ \A k \in Routes : op[k] = "SUCCEEDED" =>
          \E r \in Runs : seenRoute[r] = k /\ request[r] = "accepted"
    /\ message = "SENT" => \E r \in Runs : request[r] = "accepted"

\* While a run holds its send transaction, neither the channel nor the fence
\* of the conversation moves under it: the provider call runs on the account
\* and for the reply that were checked (the row locks of the send transaction,
\* of intake and of the takeovers).
SendsUnderTheFence ==
    \A r \in Runs : lock = r =>
        /\ pc[r] = "sending"
        /\ seenRoute[r] = route /\ active
        /\ automatic => current

\* A settled operation stays settled: no late run, lost answer or operator
\* changes its outcome (the status guards of every ledger update).
SettledOperationsStaySettled ==
    [][\A k \in Routes : op[k] \in {"SUCCEEDED", "FAILED", "RECONCILED"} => op'[k] = op[k]]_vars

-----------------------------------------------------------------------------
(* What the repository says of the delivery and the code does not do.      *)

\* "Tool and channel operations in STARTED or UNKNOWN are not resent
\* automatically. An operator reconciliation/redrive path is required before
\* those outcomes can continue": an operation that is STARTED still has a run
\* that will settle it, because the operator may only act on UNKNOWN
\* (docs/DECISION_LOG.md; prepareReconciliation).
StartedHasAWayOn ==
    \A k \in Routes : op[k] = "STARTED" =>
        \E r \in Runs : seenRoute[r] = k /\ pc[r] \in ClaimedStep

\* "QUEUED -> SENT/FAILED status transitions": a message that was sent is not
\* reported as failed afterwards (docs/CHECKLIST.md; markFailed).
SentStaysSent ==
    [][message = "SENT" => message' = "SENT"]_vars

=============================================================================
