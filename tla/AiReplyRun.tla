------------------------------ MODULE AiReplyRun -----------------------------
(***************************************************************************)
(* The automatic replies of one conversation: the AiReplyRun of every      *)
(* inbound message, the generation/sequence fence in the Conversation row, *)
(* the worker attempts that generate a reply, and the humans and           *)
(* administrators who overtake them.                                       *)
(*                                                                         *)
(* A message is a number: its rank in the order (createdAt, id) in which   *)
(* hasLaterInboundMessage compares messages.  createdAt is the provider's  *)
(* timestamp, so messages are persisted in any order.                      *)
(*                                                                         *)
(* Every transaction that reads or writes runs holds the conversation row  *)
(* FOR UPDATE, so each is one step.  CANCEL_REQUESTED and FAILED are       *)
(* statuses that no code writes, and a job whose run does not exist cannot *)
(* be created; both are left out.                                          *)
(***************************************************************************)
EXTENDS Naturals

CONSTANTS
    Messages,      \* inbound messages, numbered by (createdAt, id)
    Attempts,      \* concurrent executions of runAiReplyGraph
    MaxAttempts,   \* AiReplyRun.maxAttempts
    MaxTakeovers,  \* bound: human actions and revocations
    NoMessage

ASSUME ReplyAssumption ==
    /\ Messages \subseteq Nat
    /\ NoMessage \notin Messages
    /\ MaxAttempts \in Nat \ {0}
    /\ MaxTakeovers \in Nat

VARIABLES
    arrived,                            \* persisted inbound messages
    edited,                             \* edited since their run was created
    admitted,                           \* automaticReplyAdmissionState
    generation, sequence, fence,        \* aiGeneration, aiReplySequence, aiReplyFence
    runStatus, runGeneration, runSequence, attemptCount,
    bound,                              \* runs made under the current binding
    replies,                            \* reply messages created per inbound
    pc, message, token,                 \* attempts: step, inbound, attemptCount
    overtaken                           \* messages whose run a human overtook

inputVars == <<arrived, edited>>
fenceVars == <<generation, sequence, fence>>
runVars == <<runStatus, runGeneration, runSequence, attemptCount, bound>>
attemptVars == <<pc, message, token>>
vars == <<inputVars, admitted, fenceVars, runVars, replies, attemptVars, overtaken>>

ActiveStatus == {"QUEUED", "RUNNING", "RETRY_SCHEDULED"}
TerminalStatus == {"SUCCEEDED", "SUPERSEDED", "TIMED_OUT", "DEAD_LETTER"}
RunStatus == {"NONE"} \cup ActiveStatus \cup TerminalStatus
AttemptStep == {"idle", "running", "fenced", "revoked", "failing"}

Init ==
    /\ arrived = {} /\ edited = {}
    /\ admitted = TRUE
    /\ generation = 1 /\ sequence = 0 /\ fence = 0
    /\ runStatus = [m \in Messages |-> "NONE"]
    /\ runGeneration = [m \in Messages |-> 0]
    /\ runSequence = [m \in Messages |-> 0]
    /\ attemptCount = [m \in Messages |-> 0]
    /\ bound = {}
    /\ replies = [m \in Messages |-> 0]
    /\ pc = [a \in Attempts |-> "idle"]
    /\ message = [a \in Attempts |-> NoMessage]
    /\ token = [a \in Attempts |-> 0]
    /\ overtaken = {}

Active(m) == runStatus[m] \in ActiveStatus

\* Mutant: the order of the messages is not looked at.
NoNewerInbound(m) == FALSE

\* hasLaterInboundMessage
NewerInbound(m) == \E k \in arrived : k > m

Return(a) ==
    /\ pc' = [pc EXCEPT ![a] = "idle"]
    /\ message' = [message EXCEPT ![a] = NoMessage]
    /\ token' = [token EXCEPT ![a] = 0]

GoTo(a, step) == pc' = [pc EXCEPT ![a] = step] /\ UNCHANGED <<message, token>>

-----------------------------------------------------------------------------
(* Intake: the inbound message and createAiReplyQueueEvent commit together. *)

\* Mutant: the runs of earlier messages are left alone.
SupersedeNothing == runStatus

SupersedeActive == [m \in Messages |-> IF Active(m) THEN "SUPERSEDED" ELSE runStatus[m]]

\* A message is persisted; if replies are admitted it gets a run at the head of
\* the conversation, and every older run that is still active is superseded.
\* A redelivered message that was not admitted before gets its run now; one
\* that has a run keeps it.
CreateAiReplyQueueEvent(m) ==
    /\ runStatus[m] = "NONE"
    /\ arrived' = arrived \cup {m}
    /\ IF admitted
         THEN /\ sequence' = sequence + 1
              /\ fence' = sequence + 1
              /\ runStatus' = [SupersedeActive EXCEPT ![m] = "QUEUED"]
              /\ runGeneration' = [runGeneration EXCEPT ![m] = generation]
              /\ runSequence' = [runSequence EXCEPT ![m] = sequence + 1]
              /\ bound' = bound \cup {m}
              /\ UNCHANGED <<generation, attemptCount>>
         ELSE UNCHANGED <<fenceVars, runVars>>
    /\ UNCHANGED <<edited, admitted, replies, attemptVars, overtaken>>

\* Telegram's edited_message changes the text of a message that has a run: the
\* input hash of the run no longer matches.
EditMessage(m) ==
    /\ runStatus[m] # "NONE"
    /\ edited' = edited \cup {m}
    /\ UNCHANGED <<arrived, admitted, fenceVars, runVars, replies, attemptVars, overtaken>>

-----------------------------------------------------------------------------
(* Humans and administrators.                                              *)

\* Mutant: a path that forgets to fence.
TakeOverUnfenced(admit) ==
    /\ admitted' = admit
    /\ overtaken' = {m \in Messages : runStatus[m] # "NONE"}
    /\ UNCHANGED <<inputVars, fenceVars, runVars, replies, attemptVars>>

\* fencePendingAiReply before a human's message, assignment, status change or
\* handoff, and the same transaction in the channel and capability services.
\* The action itself decides whether replies are admitted afterwards.
TakeOver(admit) ==
    /\ generation <= MaxTakeovers
    /\ runStatus' = SupersedeActive
    /\ generation' = generation + 1
    /\ sequence' = sequence + 1
    /\ fence' = sequence + 1
    /\ admitted' = admit
    /\ overtaken' = {m \in Messages : runStatus[m] # "NONE"}
    /\ UNCHANGED <<inputVars, runGeneration, runSequence, attemptCount, bound, replies, attemptVars>>

\* What admission depends on changes without a fence: a channel goes down, a
\* publication or a permission moves.
AdmissionChanges ==
    /\ admitted' = ~admitted
    /\ UNCHANGED <<inputVars, fenceVars, runVars, replies, attemptVars, overtaken>>

BindingChanges ==
    /\ bound' = {}
    /\ UNCHANGED <<inputVars, admitted, fenceVars, runStatus, runGeneration, runSequence,
                   attemptCount, replies, attemptVars, overtaken>>

\* The dispatcher's dead letter and the worker's expired event close the run.
EventGivenUp(m) ==
    /\ Active(m)
    /\ runStatus' = [runStatus EXCEPT ![m] = "DEAD_LETTER"]
    /\ UNCHANGED <<inputVars, admitted, fenceVars, runGeneration, runSequence, attemptCount,
                   bound, replies, attemptVars, overtaken>>

-----------------------------------------------------------------------------
(* beginAiReplyAttempt.                                                    *)

Authorized(m) == admitted /\ m \in bound

\* A run that must not start: settled, overtaken, or out of attempts.
Stale(m) ==
    \/ ~Active(m)
    \/ NewerInbound(m)
    \/ runGeneration[m] # generation
    \/ runSequence[m] # fence
    \/ attemptCount[m] >= MaxAttempts

\* The run is not started; if it is still active it is closed.
Decline(a, m) ==
    /\ \/ ~Authorized(m)
       \/ m \notin edited /\ Stale(m)
    /\ runStatus' = [runStatus EXCEPT ![m] =
          IF ~Active(m) THEN @
          ELSE IF Authorized(m) /\ attemptCount[m] >= MaxAttempts THEN "DEAD_LETTER"
          ELSE "SUPERSEDED"]
    /\ UNCHANGED <<attemptCount, attemptVars>>

\* The run starts, or starts again while an older attempt is still running.
Start(a, m) ==
    /\ Authorized(m) /\ m \notin edited /\ ~Stale(m)
    /\ runStatus' = [runStatus EXCEPT ![m] = "RUNNING"]
    /\ attemptCount' = [attemptCount EXCEPT ![m] = @ + 1]
    /\ pc' = [pc EXCEPT ![a] = "running"]
    /\ message' = [message EXCEPT ![a] = m]
    /\ token' = [token EXCEPT ![a] = attemptCount[m] + 1]

\* For an edited message it throws AI_REPLY_INPUT_MISMATCH and changes nothing.
BeginAiReplyAttempt(a, m) ==
    /\ pc[a] = "idle"
    /\ runStatus[m] # "NONE"
    /\ Decline(a, m) \/ Start(a, m)
    /\ UNCHANGED <<inputVars, admitted, fenceVars, runGeneration, runSequence, bound, replies, overtaken>>

-----------------------------------------------------------------------------
(* The fenced commit of persist_audit and the ends of runAiReplyGraph.      *)

\* Mutant: the status of the run is not looked at.
OwnsByNumber(a) == attemptCount[message[a]] = token[a]

\* The where clause of every late update of a run.
Owns(a) == runStatus[message[a]] = "RUNNING" /\ attemptCount[message[a]] = token[a]

AssertAttempt(a) ==
    LET m == message[a] IN
    /\ Owns(a)
    /\ runGeneration[m] = generation /\ runSequence[m] = fence
    /\ m \notin edited /\ Authorized(m) /\ ~NewerInbound(m)

\* The reply message, its delivery event and SUCCEEDED in one transaction; a
\* reply that hands off also ends automatic replies.  When the answer of the
\* commit is lost the attempt takes it for a failure.
CommitReply(a, handoff) ==
    LET m == message[a] IN
    /\ pc[a] = "running"
    /\ AssertAttempt(a)
    /\ replies' = [replies EXCEPT ![m] = @ + 1]
    /\ runStatus' = [runStatus EXCEPT ![m] = "SUCCEEDED"]
    /\ admitted' = (admitted /\ ~handoff)
    /\ Return(a) \/ GoTo(a, "failing")
    /\ UNCHANGED <<inputVars, fenceVars, runGeneration, runSequence, attemptCount, bound, overtaken>>

\* A fenced transaction finds the attempt overtaken and rolls back.  A revoked
\* one will be reported as a failure, the others as a duplicate.
FenceRejects(a) ==
    LET m == message[a] IN
    /\ pc[a] = "running"
    /\ ~AssertAttempt(a)
    /\ GoTo(a, IF ~NewerInbound(m) /\ ~Authorized(m) THEN "revoked" ELSE "fenced")
    /\ UNCHANGED <<inputVars, admitted, fenceVars, runVars, replies, overtaken>>

\* Mutant: the run is closed whoever owns it now.
SupersedeAnyAttempt(a) ==
    /\ pc[a] \in {"fenced", "revoked"}
    /\ runStatus' = [runStatus EXCEPT ![message[a]] = "SUPERSEDED"]
    /\ IF pc[a] = "fenced" THEN Return(a) ELSE GoTo(a, "failing")
    /\ UNCHANGED <<inputVars, admitted, fenceVars, runGeneration, runSequence, attemptCount,
                   bound, replies, overtaken>>

\* The update after the rollback closes the run if it is still this attempt's;
\* its own failure is swallowed.
SupersedeOwnAttempt(a) ==
    /\ pc[a] \in {"fenced", "revoked"}
    /\ \/ Owns(a) /\ runStatus' = [runStatus EXCEPT ![message[a]] = "SUPERSEDED"]
       \/ UNCHANGED runStatus
    /\ IF pc[a] = "fenced" THEN Return(a) ELSE GoTo(a, "failing")
    /\ UNCHANGED <<inputVars, admitted, fenceVars, runGeneration, runSequence, attemptCount,
                   bound, replies, overtaken>>

\* A provider, a tool or the commit throws, or the worker timeout aborts.
AttemptThrows(a) ==
    /\ pc[a] = "running"
    /\ GoTo(a, "failing")
    /\ UNCHANGED <<inputVars, admitted, fenceVars, runVars, replies, overtaken>>

\* markAiReplyAttemptFailed, whose own failure is swallowed.
MarkAiReplyAttemptFailed(a, timedOut) ==
    /\ pc[a] = "failing"
    /\ \/ /\ Owns(a)
          /\ runStatus' = [runStatus EXCEPT ![message[a]] =
                IF token[a] < MaxAttempts THEN "RETRY_SCHEDULED"
                ELSE IF timedOut THEN "TIMED_OUT" ELSE "DEAD_LETTER"]
       \/ UNCHANGED runStatus
    /\ Return(a)
    /\ UNCHANGED <<inputVars, admitted, fenceVars, runGeneration, runSequence, attemptCount,
                   bound, replies, overtaken>>

\* The worker dies; its run stays RUNNING.
Crash(a) ==
    /\ pc[a] # "idle"
    /\ Return(a)
    /\ UNCHANGED <<inputVars, admitted, fenceVars, runVars, replies, overtaken>>

-----------------------------------------------------------------------------

Attempt(a) ==
    \/ \E m \in Messages : BeginAiReplyAttempt(a, m)
    \/ \E handoff \in BOOLEAN : CommitReply(a, handoff)
    \/ FenceRejects(a) \/ SupersedeOwnAttempt(a)
    \/ AttemptThrows(a)
    \/ \E timedOut \in BOOLEAN : MarkAiReplyAttemptFailed(a, timedOut)
    \/ Crash(a)

Next ==
    \/ \E m \in Messages : CreateAiReplyQueueEvent(m) \/ EditMessage(m) \/ EventGivenUp(m)
    \/ \E a \in Attempts : Attempt(a)
    \/ \E admit \in BOOLEAN : TakeOver(admit)
    \/ AdmissionChanges
    \/ BindingChanges

Spec == Init /\ [][Next]_vars

-----------------------------------------------------------------------------
(* Properties.                                                             *)

\* Type invariant of the conversation, its runs and the attempts.
ReplyTypeOK ==
    /\ arrived \subseteq Messages /\ edited \subseteq Messages
    /\ bound \subseteq Messages /\ overtaken \subseteq Messages
    /\ admitted \in BOOLEAN
    /\ generation \in Nat /\ sequence \in Nat /\ fence \in Nat
    /\ runStatus \in [Messages -> RunStatus]
    /\ runGeneration \in [Messages -> Nat]
    /\ runSequence \in [Messages -> Nat]
    /\ attemptCount \in [Messages -> 0..MaxAttempts]
    /\ replies \in [Messages -> Nat]
    /\ pc \in [Attempts -> AttemptStep]
    /\ message \in [Attempts -> Messages \cup {NoMessage}]
    /\ token \in [Attempts -> 0..MaxAttempts]

\* One reply at most per inbound message, and exactly for the runs that report
\* success: overlapping attempts, retries of a run that is still RUNNING and
\* late failures neither duplicate a reply nor hide one (withFencedAiReply-
\* Transaction, markAiReplyAttemptFailed).
OneReplyPerSuccess ==
    \A m \in Messages : replies[m] = IF runStatus[m] = "SUCCEEDED" THEN 1 ELSE 0

\* At most one run of a conversation is active, and it is the one the fence
\* points at, in the current generation (createAiReplyQueueEvent,
\* fencePendingAiReply).
ActiveRunIsAtTheFence ==
    \A m \in Messages : Active(m) =>
        runSequence[m] = fence /\ runGeneration[m] = generation

\* Attempts that run at the same time on one run have different numbers, so
\* that at most one of them can commit (beginAiReplyAttempt).
AttemptsAreNumbered ==
    \A a, b \in Attempts :
        a # b /\ pc[a] # "idle" /\ pc[b] # "idle" /\ message[a] = message[b] =>
            token[a] # token[b]

\* A settled run stays settled: no late attempt, retry or failure report
\* reopens it or renames its outcome (the where clauses of the run updates).
SettledRunsStaySettled ==
    [][\A m \in Messages : runStatus[m] \in TerminalStatus =>
          runStatus'[m] = runStatus[m]]_vars

\* No reply is created for a message once a human has overtaken it, however
\* far its attempt had come (fencePendingAiReply, assertAttempt).
NoReplyAfterTakeOver ==
    [][\A m \in overtaken : replies'[m] = replies[m]]_vars

\* Replies are created in the order of their messages: none after a reply to
\* a newer message, although runs may be created in another order
\* (hasLaterInboundMessage in assertAttempt).
RepliesInOrder ==
    [][\A m, k \in Messages : m < k /\ replies[k] > 0 => replies'[m] = replies[m]]_vars

-----------------------------------------------------------------------------
(* What the repository says of the replies and the code does not do.       *)

\* "Conversation replies use a per-conversation sequence/lock so concurrent
\* messages cannot produce reordered actions": creating the run of a message
\* supersedes only runs of older messages (errorCode SUPERSEDED_BY_NEWER_INPUT
\* in createAiReplyQueueEvent).
SupersededByNewerInput ==
    [][\A m, k \in Messages :
          runStatus[m] = "NONE" /\ runStatus'[m] = "QUEUED"
             /\ Active(k) /\ runStatus'[k] = "SUPERSEDED" => k < m]_vars

=============================================================================
