------------------------ MODULE WebhookIntake_proofs ------------------------
(***************************************************************************)
(* Proofs about WebhookIntake, for any number of handlers and faults.      *)
(*                                                                         *)
(* ProcessedIsComplete is not inductive.  What a completed stage stands    *)
(* for is a matter of the row (RowInv), and why a handler that finds the   *)
(* message there still runs its workflow is one of its claim: a handler    *)
(* that was first to claim the event and has kept its lease creates the    *)
(* message itself, and every other one knows that it resumes (HandlerInv). *)
(***************************************************************************)
EXTENDS WebhookIntake, TLAPS

AfterIntake == {"ai", "aiDone", "workflow", "workflowDone", "complete"}

\* A new ordinary message has had its workflow.
WorkflowDone == ~known /\ kind = "message" => runs = 1

RowInv ==
    source # "widget" =>
        /\ known \/ messages = 0 \/ decided
        /\ known => messages > 0
        /\ status = "NONE" => /\ known \/ messages = 0
                              /\ \A h \in Handlers : pc[h] = "idle"
        /\ source = "telegram" => status # "PROCESSED_DUPLICATE"
        /\ "workflow" \in stages => WorkflowDone

HandlerInv ==
    source # "widget" =>
        \A h \in Handlers :
            /\ pc[h] \in AfterIntake => messages > 0
            /\ seen[h] \subseteq stages
            /\ source = "telegram" /\ pc[h] = "intake" /\ Holds(h) /\ ~resumed[h]
                 => known \/ messages = 0
            /\ source = "telegram" /\ pc[h] \in AfterIntake
                 => known \/ created[h] \/ resumed[h]
            /\ pc[h] \in {"workflowDone", "complete"} => WorkflowDone

OutcomeInv ==
    /\ OneInboundMessage
    /\ OneWorkflowRun
    /\ ProcessedIsComplete
    /\ AckedIsProcessed

IntakeInv == IntakeTypeOK /\ RowInv /\ HandlerInv /\ OutcomeInv

-----------------------------------------------------------------------------

\* The initial state satisfies the inductive invariant.
LEMMA IntakeInitInv == Init => IntakeInv
<1> SUFFICES ASSUME Init PROVE IntakeInv
  OBVIOUS
<1>1. IntakeTypeOK
  <2>1. kind \in {"message", "edited", "command"}
    BY DEF Init
  <2>2. faults \in 0 .. MaxFaults /\ messages \in Nat /\ runs \in Nat
    BY IntakeAssumption DEF Init
  <2> QED
    BY <2>1, <2>2 DEF Init, IntakeTypeOK, EventStatus, HandlerStep
<1>2. RowInv /\ HandlerInv
  BY IntakeAssumption DEF Init, RowInv, HandlerInv, AfterIntake, WorkflowDone, Holds
<1>3. OutcomeInv
  BY DEF Init, OutcomeInv, OneInboundMessage, OneWorkflowRun, ProcessedIsComplete, AckedIsProcessed
<1> QED
  BY <1>1, <1>2, <1>3 DEF IntakeInv

\* Claiming an event, refusing it and losing it change none of its effects.
LEMMA ClaimInv ==
    ASSUME NEW h \in Handlers, IntakeInv,
           \/ Refuse(h) \/ Claim(h) \/ LoseClaim(h)
           \/ Throw(h) \/ Crash(h) \/ LockTimesOut(h) \/ LeaseRunsOut(h)
    PROVE  IntakeInv'
<1> USE DEF IntakeInv, GoTo, Holds, Running, Enters, Claimable, event, row, effects, local
<1>1. CASE Refuse(h)
  <2>1. IntakeTypeOK'
    BY <1>1, IntakeAssumption DEF Refuse, IntakeTypeOK, EventStatus, HandlerStep, Stage
  <2>2. RowInv'
    BY <1>1 DEF Refuse, IntakeTypeOK, RowInv, HandlerInv, AfterIntake, WorkflowDone
  <2>3. HandlerInv'
    BY <1>1, IntakeAssumption DEF Refuse,
       IntakeTypeOK, RowInv, HandlerInv, AfterIntake, WorkflowDone
  <2>4. OutcomeInv'
    BY <1>1 DEF Refuse,
       IntakeTypeOK, RowInv, HandlerInv, AfterIntake, WorkflowDone, EventStatus,
       OutcomeInv, OneInboundMessage, OneWorkflowRun, ProcessedIsComplete, AckedIsProcessed
  <2> QED
    BY <2>1, <2>2, <2>3, <2>4
<1>2. CASE Claim(h)
  <2>1. IntakeTypeOK'
    BY <1>2, IntakeAssumption DEF Claim, IntakeTypeOK, EventStatus, HandlerStep, Stage
  <2>2. RowInv'
    BY <1>2 DEF Claim, IntakeTypeOK, RowInv, HandlerInv, AfterIntake, WorkflowDone
  <2>3. HandlerInv'
    BY <1>2, IntakeAssumption DEF Claim,
       IntakeTypeOK, RowInv, HandlerInv, AfterIntake, WorkflowDone
  <2>4. OutcomeInv'
    BY <1>2 DEF Claim,
       IntakeTypeOK, RowInv, HandlerInv, AfterIntake, WorkflowDone, EventStatus,
       OutcomeInv, OneInboundMessage, OneWorkflowRun, ProcessedIsComplete, AckedIsProcessed
  <2> QED
    BY <2>1, <2>2, <2>3, <2>4
<1>3. CASE LoseClaim(h)
  <2>1. IntakeTypeOK'
    BY <1>3, IntakeAssumption DEF LoseClaim, IntakeTypeOK, EventStatus, HandlerStep, Stage
  <2>2. RowInv'
    BY <1>3 DEF LoseClaim, IntakeTypeOK, RowInv, HandlerInv, AfterIntake, WorkflowDone
  <2>3. HandlerInv'
    BY <1>3, IntakeAssumption DEF LoseClaim,
       IntakeTypeOK, RowInv, HandlerInv, AfterIntake, WorkflowDone
  <2>4. OutcomeInv'
    BY <1>3 DEF LoseClaim,
       IntakeTypeOK, RowInv, HandlerInv, AfterIntake, WorkflowDone, EventStatus,
       OutcomeInv, OneInboundMessage, OneWorkflowRun, ProcessedIsComplete, AckedIsProcessed
  <2> QED
    BY <2>1, <2>2, <2>3, <2>4
<1>4. CASE Throw(h)
  <2>1. IntakeTypeOK'
    BY <1>4, IntakeAssumption DEF Throw, IntakeTypeOK, EventStatus, HandlerStep, Stage
  <2>2. RowInv'
    BY <1>4 DEF Throw, IntakeTypeOK, RowInv, HandlerInv, AfterIntake, WorkflowDone
  <2>3. HandlerInv'
    BY <1>4, IntakeAssumption DEF Throw,
       IntakeTypeOK, RowInv, HandlerInv, AfterIntake, WorkflowDone
  <2>4. OutcomeInv'
    BY <1>4 DEF Throw,
       IntakeTypeOK, RowInv, HandlerInv, AfterIntake, WorkflowDone, EventStatus,
       OutcomeInv, OneInboundMessage, OneWorkflowRun, ProcessedIsComplete, AckedIsProcessed
  <2> QED
    BY <2>1, <2>2, <2>3, <2>4
<1>5. CASE Crash(h)
  <2>1. IntakeTypeOK'
    BY <1>5, IntakeAssumption DEF Crash, IntakeTypeOK, EventStatus, HandlerStep, Stage
  <2>2. RowInv'
    BY <1>5 DEF Crash, IntakeTypeOK, RowInv, HandlerInv, AfterIntake, WorkflowDone
  <2>3. HandlerInv'
    BY <1>5, IntakeAssumption DEF Crash,
       IntakeTypeOK, RowInv, HandlerInv, AfterIntake, WorkflowDone
  <2>4. OutcomeInv'
    BY <1>5 DEF Crash,
       IntakeTypeOK, RowInv, HandlerInv, AfterIntake, WorkflowDone, EventStatus,
       OutcomeInv, OneInboundMessage, OneWorkflowRun, ProcessedIsComplete, AckedIsProcessed
  <2> QED
    BY <2>1, <2>2, <2>3, <2>4
<1>6. CASE LockTimesOut(h)
  <2>1. IntakeTypeOK'
    BY <1>6, IntakeAssumption DEF LockTimesOut, IntakeTypeOK, EventStatus, HandlerStep, Stage
  <2>2. RowInv'
    BY <1>6 DEF LockTimesOut, IntakeTypeOK, RowInv, HandlerInv, AfterIntake, WorkflowDone
  <2>3. HandlerInv'
    BY <1>6, IntakeAssumption DEF LockTimesOut,
       IntakeTypeOK, RowInv, HandlerInv, AfterIntake, WorkflowDone
  <2>4. OutcomeInv'
    BY <1>6 DEF LockTimesOut,
       IntakeTypeOK, RowInv, HandlerInv, AfterIntake, WorkflowDone, EventStatus,
       OutcomeInv, OneInboundMessage, OneWorkflowRun, ProcessedIsComplete, AckedIsProcessed
  <2> QED
    BY <2>1, <2>2, <2>3, <2>4
<1>7. CASE LeaseRunsOut(h)
  <2>1. IntakeTypeOK'
    BY <1>7, IntakeAssumption DEF LeaseRunsOut, IntakeTypeOK, EventStatus, HandlerStep, Stage
  <2>2. RowInv'
    BY <1>7 DEF LeaseRunsOut, IntakeTypeOK, RowInv, HandlerInv, AfterIntake, WorkflowDone
  <2>3. HandlerInv'
    BY <1>7, IntakeAssumption DEF LeaseRunsOut,
       IntakeTypeOK, RowInv, HandlerInv, AfterIntake, WorkflowDone
  <2>4. OutcomeInv'
    BY <1>7 DEF LeaseRunsOut,
       IntakeTypeOK, RowInv, HandlerInv, AfterIntake, WorkflowDone, EventStatus,
       OutcomeInv, OneInboundMessage, OneWorkflowRun, ProcessedIsComplete, AckedIsProcessed
  <2> QED
    BY <2>1, <2>2, <2>3, <2>4
<1> QED
  BY <1>1, <1>2, <1>3, <1>4, <1>5, <1>6, <1>7

\* The steps that persist the message, request the reply and run the workflow.
LEMMA EffectInv ==
    ASSUME NEW h \in Handlers, IntakeInv,
           \/ IntakeTelegram(h) \/ IntakeWebhook(h) \/ LookupWidget(h)
           \/ IntakeWidget(h) \/ RequestReply(h) \/ RunWorkflow(h)
    PROVE  IntakeInv'
<1> USE DEF IntakeInv, GoTo, Holds, Running, Enters, Claimable, event, row, effects, local
<1>1. CASE IntakeTelegram(h)
  <2>1. IntakeTypeOK'
    <3>1. stages' \in SUBSET Stage
      <4>1. stages' = stages \cup {"intake", "ai"} \/ stages' = stages \cup {"intake"}
        BY <1>1 DEF IntakeTelegram
      <4>2. stages \subseteq Stage /\ {"intake", "ai"} \subseteq Stage
        BY DEF IntakeTypeOK, Stage
      <4> QED
        BY <4>1, <4>2
    <3>2. messages' \in Nat
      BY <1>1 DEF IntakeTelegram, IntakeTypeOK
    <3>3. decided' \in BOOLEAN
      BY <1>1 DEF IntakeTelegram, IntakeTypeOK
    <3>4. created' \in [Handlers -> BOOLEAN]
      BY <1>1 DEF IntakeTelegram, IntakeTypeOK
    <3> QED
      BY <1>1, <3>1, <3>2, <3>3, <3>4 DEF IntakeTelegram, IntakeTypeOK, HandlerStep
  <2>2. RowInv'
    BY <1>1 DEF IntakeTelegram, IntakeTypeOK, RowInv, HandlerInv, AfterIntake, WorkflowDone
  <2>3. HandlerInv'
    BY <1>1, IntakeAssumption DEF IntakeTelegram,
       IntakeTypeOK, RowInv, HandlerInv, AfterIntake, WorkflowDone
  <2>4. OutcomeInv'
    BY <1>1 DEF IntakeTelegram,
       IntakeTypeOK, RowInv, HandlerInv, AfterIntake, WorkflowDone, EventStatus,
       OutcomeInv, OneInboundMessage, OneWorkflowRun, ProcessedIsComplete, AckedIsProcessed
  <2> QED
    BY <2>1, <2>2, <2>3, <2>4
<1>2. CASE IntakeWebhook(h)
  <2>1. IntakeTypeOK'
    BY <1>2, IntakeAssumption DEF IntakeWebhook, IntakeTypeOK, EventStatus, HandlerStep, Stage
  <2>2. RowInv'
    BY <1>2 DEF IntakeWebhook, IntakeTypeOK, RowInv, HandlerInv, AfterIntake, WorkflowDone
  <2>3. HandlerInv'
    BY <1>2, IntakeAssumption DEF IntakeWebhook,
       IntakeTypeOK, RowInv, HandlerInv, AfterIntake, WorkflowDone
  <2>4. OutcomeInv'
    BY <1>2 DEF IntakeWebhook,
       IntakeTypeOK, RowInv, HandlerInv, AfterIntake, WorkflowDone, EventStatus,
       OutcomeInv, OneInboundMessage, OneWorkflowRun, ProcessedIsComplete, AckedIsProcessed
  <2> QED
    BY <2>1, <2>2, <2>3, <2>4
<1>3. CASE LookupWidget(h)
  <2>1. IntakeTypeOK'
    BY <1>3, IntakeAssumption DEF LookupWidget, IntakeTypeOK, EventStatus, HandlerStep, Stage
  <2>2. RowInv'
    BY <1>3 DEF LookupWidget, IntakeTypeOK, RowInv, HandlerInv, AfterIntake, WorkflowDone
  <2>3. HandlerInv'
    BY <1>3, IntakeAssumption DEF LookupWidget,
       IntakeTypeOK, RowInv, HandlerInv, AfterIntake, WorkflowDone
  <2>4. OutcomeInv'
    BY <1>3 DEF LookupWidget,
       IntakeTypeOK, RowInv, HandlerInv, AfterIntake, WorkflowDone, EventStatus,
       OutcomeInv, OneInboundMessage, OneWorkflowRun, ProcessedIsComplete, AckedIsProcessed
  <2> QED
    BY <2>1, <2>2, <2>3, <2>4
<1>4. CASE IntakeWidget(h)
  <2>1. IntakeTypeOK'
    BY <1>4, IntakeAssumption DEF IntakeWidget, IntakeTypeOK, EventStatus, HandlerStep, Stage
  <2>2. RowInv'
    BY <1>4 DEF IntakeWidget, IntakeTypeOK, RowInv, HandlerInv, AfterIntake, WorkflowDone
  <2>3. HandlerInv'
    BY <1>4, IntakeAssumption DEF IntakeWidget,
       IntakeTypeOK, RowInv, HandlerInv, AfterIntake, WorkflowDone
  <2>4. OutcomeInv'
    BY <1>4 DEF IntakeWidget,
       IntakeTypeOK, RowInv, HandlerInv, AfterIntake, WorkflowDone, EventStatus,
       OutcomeInv, OneInboundMessage, OneWorkflowRun, ProcessedIsComplete, AckedIsProcessed
  <2> QED
    BY <2>1, <2>2, <2>3, <2>4
<1>5. CASE RequestReply(h)
  <2>1. IntakeTypeOK'
    BY <1>5, IntakeAssumption, ZenonT(60) DEF RequestReply, Process, IntakeTypeOK, EventStatus, HandlerStep, Stage
  <2>2. RowInv'
    BY <1>5 DEF RequestReply, Process, IntakeTypeOK, RowInv, HandlerInv, AfterIntake, WorkflowDone
  <2>3. HandlerInv'
    BY <1>5, IntakeAssumption DEF RequestReply, Process,
       IntakeTypeOK, RowInv, HandlerInv, AfterIntake, WorkflowDone
  <2>4. OutcomeInv'
    BY <1>5 DEF RequestReply, Process,
       IntakeTypeOK, RowInv, HandlerInv, AfterIntake, WorkflowDone, EventStatus,
       OutcomeInv, OneInboundMessage, OneWorkflowRun, ProcessedIsComplete, AckedIsProcessed
  <2> QED
    BY <2>1, <2>2, <2>3, <2>4
<1>6. CASE RunWorkflow(h)
  <2>1. IntakeTypeOK'
    BY <1>6, IntakeAssumption DEF RunWorkflow, Process, RunOnce, IntakeTypeOK, EventStatus, HandlerStep, Stage
  <2>2. RowInv'
    BY <1>6 DEF RunWorkflow, Process, RunOnce, IntakeTypeOK, RowInv, HandlerInv, AfterIntake, WorkflowDone
  <2>3. HandlerInv'
    BY <1>6, IntakeAssumption DEF RunWorkflow, Process, RunOnce,
       IntakeTypeOK, RowInv, HandlerInv, AfterIntake, WorkflowDone
  <2>4. OutcomeInv'
    BY <1>6 DEF RunWorkflow, Process, RunOnce,
       IntakeTypeOK, RowInv, HandlerInv, AfterIntake, WorkflowDone, EventStatus,
       OutcomeInv, OneInboundMessage, OneWorkflowRun, ProcessedIsComplete, AckedIsProcessed
  <2> QED
    BY <2>1, <2>2, <2>3, <2>4
<1> QED
  BY <1>1, <1>2, <1>3, <1>4, <1>5, <1>6

\* The steps that move the event itself: those with the token, and the widget's.
LEMMA PublishInv ==
    ASSUME NEW h \in Handlers, IntakeInv,
           \/ CompleteStage(h) \/ CompleteEvent(h) \/ FailEvent(h)
           \/ DuplicateWidget(h) \/ CompleteWidget(h) \/ AuditWidget(h)
    PROVE  IntakeInv'
<1> USE DEF IntakeInv, GoTo, Holds, Running, Enters, Claimable, event, row, effects, local
<1>1. CASE CompleteStage(h)
  <2>1. IntakeTypeOK'
    BY <1>1, IntakeAssumption DEF CompleteStage, IntakeTypeOK, EventStatus, HandlerStep, Stage
  <2>2. RowInv'
    BY <1>1 DEF CompleteStage, IntakeTypeOK, RowInv, HandlerInv, AfterIntake, WorkflowDone
  <2>3. HandlerInv'
    BY <1>1, IntakeAssumption DEF CompleteStage,
       IntakeTypeOK, RowInv, HandlerInv, AfterIntake, WorkflowDone
  <2>4. OutcomeInv'
    BY <1>1 DEF CompleteStage,
       IntakeTypeOK, RowInv, HandlerInv, AfterIntake, WorkflowDone, EventStatus,
       OutcomeInv, OneInboundMessage, OneWorkflowRun, ProcessedIsComplete, AckedIsProcessed
  <2> QED
    BY <2>1, <2>2, <2>3, <2>4
<1>2. CASE CompleteEvent(h)
  <2>1. IntakeTypeOK'
    BY <1>2, IntakeAssumption DEF CompleteEvent, IntakeTypeOK, EventStatus, HandlerStep, Stage
  <2>2. RowInv'
    BY <1>2 DEF CompleteEvent, IntakeTypeOK, RowInv, HandlerInv, AfterIntake, WorkflowDone
  <2>3. HandlerInv'
    BY <1>2, IntakeAssumption DEF CompleteEvent,
       IntakeTypeOK, RowInv, HandlerInv, AfterIntake, WorkflowDone
  <2>4. OutcomeInv'
    BY <1>2 DEF CompleteEvent,
       IntakeTypeOK, RowInv, HandlerInv, AfterIntake, WorkflowDone, EventStatus,
       OutcomeInv, OneInboundMessage, OneWorkflowRun, ProcessedIsComplete, AckedIsProcessed
  <2> QED
    BY <2>1, <2>2, <2>3, <2>4
<1>3. CASE FailEvent(h)
  <2>1. IntakeTypeOK'
    BY <1>3, IntakeAssumption DEF FailEvent, IntakeTypeOK, EventStatus, HandlerStep, Stage
  <2>2. RowInv'
    BY <1>3 DEF FailEvent, IntakeTypeOK, RowInv, HandlerInv, AfterIntake, WorkflowDone
  <2>3. HandlerInv'
    BY <1>3, IntakeAssumption DEF FailEvent,
       IntakeTypeOK, RowInv, HandlerInv, AfterIntake, WorkflowDone
  <2>4. OutcomeInv'
    BY <1>3 DEF FailEvent,
       IntakeTypeOK, RowInv, HandlerInv, AfterIntake, WorkflowDone, EventStatus,
       OutcomeInv, OneInboundMessage, OneWorkflowRun, ProcessedIsComplete, AckedIsProcessed
  <2> QED
    BY <2>1, <2>2, <2>3, <2>4
<1>4. CASE DuplicateWidget(h)
  <2>1. IntakeTypeOK'
    BY <1>4, IntakeAssumption DEF DuplicateWidget, IntakeTypeOK, EventStatus, HandlerStep, Stage
  <2>2. RowInv'
    BY <1>4 DEF DuplicateWidget, IntakeTypeOK, RowInv, HandlerInv, AfterIntake, WorkflowDone
  <2>3. HandlerInv'
    BY <1>4, IntakeAssumption DEF DuplicateWidget,
       IntakeTypeOK, RowInv, HandlerInv, AfterIntake, WorkflowDone
  <2>4. OutcomeInv'
    BY <1>4 DEF DuplicateWidget,
       IntakeTypeOK, RowInv, HandlerInv, AfterIntake, WorkflowDone, EventStatus,
       OutcomeInv, OneInboundMessage, OneWorkflowRun, ProcessedIsComplete, AckedIsProcessed
  <2> QED
    BY <2>1, <2>2, <2>3, <2>4
<1>5. CASE CompleteWidget(h)
  <2>1. IntakeTypeOK'
    BY <1>5, IntakeAssumption DEF CompleteWidget, IntakeTypeOK, EventStatus, HandlerStep, Stage
  <2>2. RowInv'
    BY <1>5 DEF CompleteWidget, IntakeTypeOK, RowInv, HandlerInv, AfterIntake, WorkflowDone
  <2>3. HandlerInv'
    BY <1>5, IntakeAssumption DEF CompleteWidget,
       IntakeTypeOK, RowInv, HandlerInv, AfterIntake, WorkflowDone
  <2>4. OutcomeInv'
    BY <1>5 DEF CompleteWidget,
       IntakeTypeOK, RowInv, HandlerInv, AfterIntake, WorkflowDone, EventStatus,
       OutcomeInv, OneInboundMessage, OneWorkflowRun, ProcessedIsComplete, AckedIsProcessed
  <2> QED
    BY <2>1, <2>2, <2>3, <2>4
<1>6. CASE AuditWidget(h)
  <2>1. IntakeTypeOK'
    BY <1>6, IntakeAssumption DEF AuditWidget, IntakeTypeOK, EventStatus, HandlerStep, Stage
  <2>2. RowInv'
    BY <1>6 DEF AuditWidget, IntakeTypeOK, RowInv, HandlerInv, AfterIntake, WorkflowDone
  <2>3. HandlerInv'
    BY <1>6, IntakeAssumption DEF AuditWidget,
       IntakeTypeOK, RowInv, HandlerInv, AfterIntake, WorkflowDone
  <2>4. OutcomeInv'
    BY <1>6 DEF AuditWidget,
       IntakeTypeOK, RowInv, HandlerInv, AfterIntake, WorkflowDone, EventStatus,
       OutcomeInv, OneInboundMessage, OneWorkflowRun, ProcessedIsComplete, AckedIsProcessed
  <2> QED
    BY <2>1, <2>2, <2>3, <2>4
<1> QED
  BY <1>1, <1>2, <1>3, <1>4, <1>5, <1>6

\* Every step preserves the inductive invariant.
LEMMA IntakeStepInv == IntakeInv /\ [Next]_vars => IntakeInv'
<1> SUFFICES ASSUME IntakeInv, [Next]_vars PROVE IntakeInv'
  OBVIOUS
<1>1. ASSUME NEW h \in Handlers, Work(h) \/ Throw(h) \/ Crash(h) \/ LockTimesOut(h) \/ LeaseRunsOut(h)
      PROVE  IntakeInv'
  BY <1>1, ClaimInv, EffectInv, PublishInv DEF Work
<1>2. CASE UNCHANGED vars
  BY <1>2 DEF vars, event, row, effects, local, IntakeInv, IntakeTypeOK, RowInv, HandlerInv,
     WorkflowDone, Holds, OutcomeInv, OneInboundMessage, OneWorkflowRun, ProcessedIsComplete,
     AckedIsProcessed
<1> QED
  BY <1>1, <1>2 DEF Next

\* For any number of handlers, errors, deaths and lost leases: one inbound
\* message, one workflow run, nothing lost from a processed event, and no Telegram
\* update acknowledged before it is processed.
THEOREM IntakeSafety ==
    Spec => [](/\ IntakeTypeOK /\ OneInboundMessage /\ OneWorkflowRun
               /\ ProcessedIsComplete /\ AckedIsProcessed)
<1>1. IntakeInv => /\ IntakeTypeOK /\ OneInboundMessage /\ OneWorkflowRun
                   /\ ProcessedIsComplete /\ AckedIsProcessed
  BY DEF IntakeInv, OutcomeInv
<1> QED
  BY <1>1, IntakeInitInv, IntakeStepInv, PTL DEF Spec

\* However often an event of Telegram or of the webhook is delivered, resumed or
\* taken over, it brings one message (createInboundMessage).
THEOREM InboundMessages == Spec => []OneInboundMessage
BY IntakeSafety, PTL

\* Telegram is told that an update is done only when it is processed, also by a
\* handler whose lock has timed out (withTelegramIngressLock).
THEOREM Acknowledgements == Spec => []AckedIsProcessed
BY IntakeSafety, PTL

\* Only the handler with the token, or one that takes over an event nobody is
\* working on, moves an event of Telegram or of the webhook.
THEOREM TokenGuardsTheEvent == Spec => OnlyTheOwnerPublishes
<1> DEFINE Guarded == source # "widget" => \A h \in Handlers : Publishes(h)
<1>1. ASSUME IntakeInv, [Next]_vars PROVE [Guarded]_vars
  <2>1. ASSUME NEW h \in Handlers, Work(h) \/ Throw(h) \/ Crash(h) \/ LockTimesOut(h) \/ LeaseRunsOut(h)
        PROVE  Guarded
    <3> USE DEF IntakeInv, IntakeTypeOK, GoTo, Holds, Enters, row, effects, event, local, Publishes
    <3>1. CASE Claim(h)
      BY <1>1, <3>1 DEF Claim
    <3>2. CASE IntakeTelegram(h) \/ CompleteStage(h) \/ CompleteEvent(h) \/ FailEvent(h)
      BY <1>1, <3>2 DEF IntakeTelegram, CompleteStage, CompleteEvent, FailEvent
    <3>3. CASE DuplicateWidget(h) \/ CompleteWidget(h)
      BY <1>1, <3>3 DEF DuplicateWidget, CompleteWidget
    <3> QED
      BY <2>1, <3>1, <3>2, <3>3 DEF Work, Refuse, IntakeWebhook, LookupWidget, IntakeWidget,
         RequestReply, RunWorkflow, AuditWidget, LoseClaim, Throw, Crash,
         LockTimesOut, LeaseRunsOut
  <2> QED
    BY <1>1, <2>1 DEF Next
<1> QED
  BY <1>1, IntakeInitInv, IntakeStepInv, PTL DEF Spec, OnlyTheOwnerPublishes

=============================================================================
