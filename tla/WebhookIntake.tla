---------------------------- MODULE WebhookIntake ----------------------------
(***************************************************************************)
(* The intake of one inbound event: the WebhookEvent row with its          *)
(* processing lease and its durable stages, and the request handlers of    *)
(* the three sources that claim it, Telegram, the generic webhook and the  *)
(* website widget.                                                         *)
(*                                                                         *)
(* The sender delivers the event until it is acknowledged, to several      *)
(* handlers at a time.  A handler's lease token is the handler itself.     *)
(* Replies are queued (AI_REPLY_MODE = queue); one active workflow matches *)
(* the message.  Conversation, lead and customer identity are data.        *)
(*                                                                         *)
(* Telegram's handlers of a workspace are serialised by an advisory lock   *)
(* (guard) in a transaction of at most 120 s, shorter than the lease.  A   *)
(* handler whose lock has timed out goes on beside the next one, but       *)
(* cannot answer with success any more.                                    *)
(***************************************************************************)
EXTENDS Naturals

CONSTANTS
    Sources,        \* the sources of this instance
    Handlers,       \* concurrent executions of the source's request handler
    MaxFaults,      \* bound on errors, deaths, and locks and leases that run out under a handler
    NoHandler

ASSUME IntakeAssumption ==
    /\ Sources \subseteq {"telegram", "webhook", "widget"} /\ Sources # {}
    /\ NoHandler \notin Handlers
    /\ MaxFaults \in Nat

VARIABLES
    source, kind,                    \* of the event
    known,                           \* the message had arrived with another event
    status, lease, expired, stages,  \* the WebhookEvent row
    messages,                        \* inbound messages with this external id
    decided,                         \* this event has requested a reply, or been refused one
    runs,                            \* workflow runs of this event
    guard,                           \* who has the Telegram lifecycle lock
    acked,                           \* the sender has been answered with success
    pc, seen, resumed, created,      \* the handler: stages at its claim, claim and intake results
    faults

event == <<source, kind, known>>
row == <<status, lease, expired, stages>>
effects == <<messages, decided, runs>>
local == <<seen, resumed, created>>
vars == <<event, row, effects, guard, acked, pc, local, faults>>

Stage == {"intake", "ai", "workflow"}
EventStatus == {"NONE", "RECEIVED", "PROCESSED", "FAILED", "PROCESSED_DUPLICATE"}
HandlerStep == {"idle", "lookup", "duplicate", "intake", "ai", "aiDone", "workflow", "workflowDone",
                "complete", "audit", "failing"}

Init ==
    /\ source \in Sources
    /\ kind \in IF source = "telegram" THEN {"message", "edited", "command"} ELSE {"message"}
    /\ known \in BOOLEAN
    /\ status = "NONE" /\ lease = NoHandler /\ expired = FALSE /\ stages = {}
    /\ messages = IF known THEN 1 ELSE 0
    /\ decided = FALSE
    /\ runs = 0
    /\ guard = NoHandler
    /\ acked = FALSE
    /\ pc = [h \in Handlers |-> "idle"]
    /\ seen = [h \in Handlers |-> {}]
    /\ resumed = [h \in Handlers |-> FALSE]
    /\ created = [h \in Handlers |-> FALSE]
    /\ faults = 0

\* A handler that returns gives the lock back.
GoTo(h, step) ==
    /\ pc' = [pc EXCEPT ![h] = step]
    /\ guard' = IF step = "idle" /\ guard = h THEN NoHandler ELSE guard

Holds(h) == status = "RECEIVED" /\ lease = h
Running(h) == pc[h] # "idle"
Enters(h) == ~Running(h) /\ ~acked /\ (source = "telegram" => guard = NoHandler)

-----------------------------------------------------------------------------
(* claimWebhookEvent                                                       *)

\* Mutant: an event that is being processed is never taken over.
ClaimableIfFailed == status \in {"NONE", "FAILED"}

Claimable ==
    \/ status \in {"NONE", "FAILED"}
    \/ status = "RECEIVED" /\ expired

\* Mutant: every refused delivery is answered as a duplicate.
RefuseAsDuplicate(h) ==
    /\ Enters(h)
    /\ ~Claimable
    /\ acked' = TRUE
    /\ UNCHANGED <<event, row, effects, guard, pc, local, faults>>

\* The delivery of an event that is processed or in progress.  Telegram is asked
\* to retry one in progress, the others answer it as a duplicate.
Refuse(h) ==
    /\ Enters(h)
    /\ ~Claimable
    /\ ~(source = "telegram" /\ status = "RECEIVED")
    /\ acked' = TRUE
    /\ UNCHANGED <<event, row, effects, guard, pc, local, faults>>

Claim(h) ==
    /\ Enters(h)
    /\ Claimable
    /\ status' = "RECEIVED" /\ lease' = h /\ expired' = FALSE
    /\ seen' = [seen EXCEPT ![h] = stages]
    /\ resumed' = [resumed EXCEPT ![h] = status # "NONE"]
    /\ created' = [created EXCEPT ![h] = FALSE]
    /\ pc' = [pc EXCEPT ![h] = IF source = "widget" THEN "lookup" ELSE "intake"]
    /\ guard' = IF source = "telegram" THEN h ELSE guard
    /\ UNCHANGED <<event, stages, effects, acked, faults>>

-----------------------------------------------------------------------------
(* The message and the reply request.                                      *)

\* Mutant: the message is created without looking for it.
IntakeWithoutLookup(h) ==
    /\ source = "telegram" /\ pc[h] = "intake"
    /\ Holds(h)
    /\ messages' = messages + 1
    /\ decided' = TRUE
    /\ created' = [created EXCEPT ![h] = TRUE]
    /\ stages' = stages \cup {"intake", "ai"} /\ expired' = FALSE
    /\ GoTo(h, "ai")
    /\ UNCHANGED <<event, status, lease, runs, acked, seen, resumed, faults>>

\* Telegram, createInboundMessage: under the locks of conversation and channel, and
\* with the token.  A new message brings its reply request, or the reason for
\* none, and the AI stage with it.
IntakeTelegram(h) ==
    /\ source = "telegram" /\ pc[h] = "intake"
    /\ Holds(h)
    /\ IF messages = 0
         THEN /\ messages' = 1 /\ decided' = TRUE
              /\ created' = [created EXCEPT ![h] = TRUE]
              /\ stages' = stages \cup {"intake", "ai"}
         ELSE /\ stages' = stages \cup {"intake"}
              /\ UNCHANGED <<messages, decided, created>>
    /\ expired' = FALSE
    /\ GoTo(h, "ai")
    /\ UNCHANGED <<event, status, lease, runs, acked, seen, resumed, faults>>

\* Webhook, createInboundMessage: under the conversation lock; persistAiDispatch
\* belongs to the transaction whether the message is new or not.
IntakeWebhook(h) ==
    /\ source = "webhook" /\ pc[h] = "intake"
    /\ messages' = IF messages = 0 THEN 1 ELSE messages
    /\ decided' = TRUE
    /\ GoTo(h, "workflow")
    /\ UNCHANGED <<event, row, runs, acked, local, faults>>

\* Widget, sendMessage: the message is looked for before the transaction that
\* creates it.
LookupWidget(h) ==
    /\ source = "widget" /\ pc[h] = "lookup"
    /\ GoTo(h, IF messages = 0 THEN "intake" ELSE IF resumed[h] THEN "ai" ELSE "duplicate")
    /\ UNCHANGED <<event, row, effects, acked, local, faults>>

DuplicateWidget(h) ==
    /\ source = "widget" /\ pc[h] = "duplicate"
    /\ status' = "PROCESSED_DUPLICATE"
    /\ acked' = TRUE
    /\ GoTo(h, "idle")
    /\ UNCHANGED <<event, lease, expired, stages, effects, local, faults>>

IntakeWidget(h) ==
    /\ source = "widget" /\ pc[h] = "intake"
    /\ messages' = messages + 1
    /\ decided' = TRUE
    /\ GoTo(h, "ai")
    /\ UNCHANGED <<event, row, runs, acked, local, faults>>

\* Mutant: a resumed attempt only processes what it has created itself.
ProcessCreated(h) == created[h]

\* shouldProcessMessage
Process(h) == created[h] \/ (resumed[h] /\ kind # "edited")

\* generateAndQueueReply of Telegram, unless the stage was done at the claim or with
\* the message; generateAiReply of the widget.  Neither looks at the token.
RequestReply(h) ==
    /\ pc[h] = "ai"
    /\ IF source = "telegram"
         THEN IF "ai" \in seen[h] \/ created[h]
                THEN GoTo(h, "workflow") /\ UNCHANGED decided
                ELSE /\ GoTo(h, "aiDone")
                     /\ decided' = (decided \/ (Process(h) /\ kind # "command"))
         ELSE GoTo(h, "workflow") /\ decided' = TRUE
    /\ UNCHANGED <<event, row, messages, runs, acked, local, faults>>

-----------------------------------------------------------------------------
(* Workflows and completion.                                               *)

\* executeWorkflow: an existing run of the event is returned.
RunOnce == 1

\* runForEvent, which commits by itself.
RunWorkflow(h) ==
    /\ pc[h] = "workflow"
    /\ IF source = "telegram"
         THEN IF "workflow" \in seen[h]
                THEN GoTo(h, "complete") /\ UNCHANGED runs
                ELSE /\ GoTo(h, "workflowDone")
                     /\ runs' = IF Process(h) /\ kind # "command" THEN RunOnce ELSE runs
         ELSE GoTo(h, "complete") /\ runs' = RunOnce
    /\ UNCHANGED <<event, row, messages, decided, acked, local, faults>>

\* completeWebhookEventStage of the AI and the workflow stage; renews the lease.
CompleteStage(h) ==
    /\ pc[h] \in {"aiDone", "workflowDone"}
    /\ Holds(h)
    /\ stages' = stages \cup {IF pc[h] = "aiDone" THEN "ai" ELSE "workflow"}
    /\ expired' = FALSE
    /\ GoTo(h, IF pc[h] = "aiDone" THEN "workflow" ELSE "complete")
    /\ UNCHANGED <<event, status, lease, effects, acked, local, faults>>

\* completeWebhookEvent.  The answer, or the commit's, may be lost.
CompleteEvent(h) ==
    /\ source # "widget" /\ pc[h] = "complete"
    /\ Holds(h)
    /\ status' = "PROCESSED" /\ lease' = NoHandler /\ expired' = FALSE
    /\ \/ (source = "telegram" => guard = h) /\ acked' = TRUE /\ GoTo(h, "idle")
       \/ acked' = acked /\ GoTo(h, "idle")
       \/ acked' = acked /\ GoTo(h, "failing")
    /\ UNCHANGED <<event, stages, effects, local, faults>>

\* The widget's update has no condition, and the audit record comes after it.
CompleteWidget(h) ==
    /\ source = "widget" /\ pc[h] = "complete"
    /\ status' = "PROCESSED"
    /\ GoTo(h, "audit")
    /\ UNCHANGED <<event, lease, expired, stages, effects, acked, local, faults>>

AuditWidget(h) ==
    /\ source = "widget" /\ pc[h] = "audit"
    /\ acked' = TRUE
    /\ GoTo(h, "idle")
    /\ UNCHANGED <<event, row, effects, local, faults>>

\* A fenced step of a handler that has lost its lease throws.
LoseClaim(h) ==
    /\ \/ source = "telegram" /\ pc[h] \in {"intake", "aiDone", "workflowDone"}
       \/ source # "widget" /\ pc[h] = "complete"
    /\ ~Holds(h)
    /\ GoTo(h, "failing")
    /\ UNCHANGED <<event, row, effects, acked, local, faults>>

Throw(h) ==
    /\ Running(h) /\ pc[h] # "failing"
    /\ faults < MaxFaults
    /\ faults' = faults + 1
    /\ GoTo(h, "failing")
    /\ UNCHANGED <<event, row, effects, acked, local>>

\* Mutant: a failure is reported whoever has the lease.
FailAnyEvent(h) ==
    /\ pc[h] = "failing"
    /\ IF status = "RECEIVED"
         THEN status' = "FAILED" /\ lease' = NoHandler /\ expired' = FALSE
         ELSE UNCHANGED <<status, lease, expired>>
    /\ GoTo(h, "idle")
    /\ UNCHANGED <<event, stages, effects, acked, local, faults>>

\* failWebhookEvent; the widget's update has no condition and leaves the lease.
FailEvent(h) ==
    /\ pc[h] = "failing"
    /\ IF source = "widget"
         THEN status' = "FAILED" /\ UNCHANGED <<lease, expired>>
         ELSE IF Holds(h)
                THEN status' = "FAILED" /\ lease' = NoHandler /\ expired' = FALSE
                ELSE UNCHANGED <<status, lease, expired>>
    /\ GoTo(h, "idle")
    /\ UNCHANGED <<event, stages, effects, acked, local, faults>>

Crash(h) ==
    /\ Running(h)
    /\ faults < MaxFaults
    /\ faults' = faults + 1
    /\ GoTo(h, "idle")
    /\ UNCHANGED <<event, row, effects, acked, local>>

LockTimesOut(h) ==
    /\ guard = h
    /\ faults < MaxFaults
    /\ faults' = faults + 1
    /\ guard' = NoHandler
    /\ UNCHANGED <<event, row, effects, acked, pc, local>>

\* The lease runs out, under its owner or after the owner's death.
LeaseRunsOut(h) ==
    /\ Holds(h) /\ ~expired
    /\ guard # h
    /\ expired' = TRUE
    /\ faults < MaxFaults \/ ~Running(h)
    /\ faults' = IF Running(h) THEN faults + 1 ELSE faults
    /\ UNCHANGED <<event, status, lease, stages, effects, guard, acked, pc, local>>

-----------------------------------------------------------------------------

Work(h) ==
    \/ Refuse(h) \/ Claim(h)
    \/ IntakeTelegram(h) \/ IntakeWebhook(h)
    \/ LookupWidget(h) \/ DuplicateWidget(h) \/ IntakeWidget(h)
    \/ RequestReply(h) \/ RunWorkflow(h) \/ CompleteStage(h)
    \/ CompleteEvent(h) \/ CompleteWidget(h) \/ AuditWidget(h)
    \/ LoseClaim(h) \/ FailEvent(h)

Next == \E h \in Handlers : Work(h) \/ Throw(h) \/ Crash(h) \/ LockTimesOut(h) \/ LeaseRunsOut(h)

Spec == Init /\ [][Next]_vars

\* Handlers go on, the sender repeats a delivery that was not acknowledged, and
\* a lease whose owner is gone runs out.
LiveSpec ==
    /\ Spec
    /\ \A h \in Handlers :
          /\ WF_vars(Work(h))
          /\ WF_vars(~Running(h) /\ LeaseRunsOut(h))

-----------------------------------------------------------------------------
(* Properties.                                                             *)

\* Type invariant of the event, its effects and its handlers.
IntakeTypeOK ==
    /\ source \in Sources /\ kind \in {"message", "edited", "command"} /\ known \in BOOLEAN
    /\ status \in EventStatus
    /\ lease \in Handlers \cup {NoHandler}
    /\ expired \in BOOLEAN
    /\ stages \in SUBSET Stage
    /\ messages \in Nat /\ decided \in BOOLEAN /\ runs \in Nat
    /\ guard \in Handlers \cup {NoHandler}
    /\ acked \in BOOLEAN
    /\ pc \in [Handlers -> HandlerStep]
    /\ seen \in [Handlers -> SUBSET Stage]
    /\ resumed \in [Handlers -> BOOLEAN]
    /\ created \in [Handlers -> BOOLEAN]
    /\ faults \in 0 .. MaxFaults

Published == status \in {"PROCESSED", "FAILED", "PROCESSED_DUPLICATE"}

\* However often an event is delivered, resumed or taken over from a handler
\* that still runs, Telegram and the webhook persist its message once (the lookup
\* under the conversation lock in createInboundMessage).
OneInboundMessage == source # "widget" => messages <= 1

\* However often its handlers run the workflow, the event has one run
\* (executeWorkflow's idempotency key).
OneWorkflowRun == runs <= 1

\* An event that is processed has lost nothing on the way: its message is there,
\* and when the event brought a new message, its reply was decided on and
\* its workflow was run (the stages, and shouldProcessMessage of a resumed claim,
\* which passes over the workflow of a resumed edit).
ProcessedIsComplete ==
    status = "PROCESSED" /\ source # "widget" =>
        /\ messages > 0
        /\ ~known => decided
        /\ ~known /\ kind = "message" => runs = 1

\* Telegram stops repeating an update when it is acknowledged: one that is
\* acknowledged has been processed (TELEGRAM_WEBHOOK_IN_PROGRESS).
AckedIsProcessed == source = "telegram" /\ acked => status = "PROCESSED"

\* Who may move the event: the handler that has the token, or one that takes
\* over an event nobody is working on.
Publishes(h) ==
    pc'[h] # pc[h] =>
        \/ UNCHANGED <<status, stages>>
        \/ lease = h
        \/ lease' = h /\ Claimable

\* A handler that lost its lease cannot move the event, and no handler takes
\* over a live lease (the token in every where clause of webhook-event-claim).
OnlyTheOwnerPublishes == [][source # "widget" => \A h \in Handlers : Publishes(h)]_vars

\* A Telegram update is processed in the end, whichever handlers fail, die or
\* lose their leases on the way.
UpdateIsProcessed == source = "telegram" => <>(status = "PROCESSED")

-----------------------------------------------------------------------------
(* What the repository says of the intake and the code does not do.        *)

\* "every stage/final transition is conditional on its token. An expired owner
\* may finish local work but cannot publish state" (docs/DECISION_LOG.md):
\* OnlyTheOwnerPublishes for the widget too, which updates without the token.
ExpiredOwnerCannotPublish == [][\A h \in Handlers : Publishes(h)]_vars

\* "A new update ID for an already persisted message cannot repeat AI or workflow
\* effects" (docs/DECISION_LOG.md): an update of a known message runs no workflow.
KnownMessageIsNotRepeated == source = "telegram" /\ known => runs = 0

=============================================================================
