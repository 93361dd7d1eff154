------------------------ MODULE ChannelDelivery_proofs ------------------------
(***************************************************************************)
(* Proofs about ChannelDelivery, for any number of runs, routes and        *)
(* attempts.                                                               *)
(*                                                                         *)
(* OneCallPerOperation is not inductive.  Why a claimed run may send is    *)
(* that nobody else works on its operation and no request of it is alive:  *)
(* the operation of a working run is STARTED (WorkIsStarted), a started    *)
(* operation belongs to one run (StartedIsExclusive), and where a run      *)
(* stands says whether its request may be alive (RequestFitsStep).         *)
(***************************************************************************)
EXTENDS ChannelDelivery, TLAPS

WorkIsStarted ==
    \A r \in Runs :
        /\ pc[r] \in ClaimedStep \ {"unknown", "releasing"} => op[seenRoute[r]] = "STARTED"
        /\ pc[r] = "releasing" => op[seenRoute[r]] \in {"STARTED", "RECONCILED"}
        /\ pc[r] = "unknown" => op[seenRoute[r]] \in {"STARTED", "SUCCEEDED", "FAILED"}

StartedIsExclusive ==
    \A r, q \in Runs :
        r # q /\ seenRoute[r] = seenRoute[q] /\ pc[q] \in ClaimedStep /\ op[seenRoute[q]] = "STARTED"
        => pc[r] \notin ClaimedStep /\ ~Live(r)

RequestFitsStep ==
    \A r \in Runs :
        /\ pc[r] \notin {"sending", "committing", "unknown", "done"} => ~Live(r)
        /\ pc[r] = "committing" => request[r] = "accepted"

LedgerInv ==
    /\ WorkIsStarted
    /\ StartedIsExclusive
    /\ RequestFitsStep
    /\ OneCallPerOperation
    /\ WrittenOffWasNotDelivered

DeliveryInv == DeliveryTypeOK /\ LedgerInv /\ SuccessWasAccepted /\ SendsUnderTheFence

-----------------------------------------------------------------------------

\* The initial state satisfies the inductive invariant.
LEMMA DeliveryInitInv == Init => DeliveryInv
<1> SUFFICES ASSUME Init PROVE DeliveryInv
  OBVIOUS
<1>1. DeliveryTypeOK
  BY DEF Init, DeliveryTypeOK, MessageStatus, OperationStatus, RunStep, RequestStatus
<1>2. LedgerInv
  BY DEF Init, LedgerInv, WorkIsStarted, StartedIsExclusive, RequestFitsStep,
         OneCallPerOperation, WrittenOffWasNotDelivered, Live, ClaimedStep
<1>3. SuccessWasAccepted /\ SendsUnderTheFence
  BY DeliveryAssumption DEF Init, SuccessWasAccepted, SendsUnderTheFence
<1> QED
  BY <1>1, <1>2, <1>3 DEF DeliveryInv

\* Steps of a run before its claim change neither requests nor claims: the
\* operation they may create is new.
LEMMA BeforeClaimInv ==
    ASSUME NEW r \in Runs, DeliveryInv,
           \/ LoadMessage(r) \/ CheckOperation(r) \/ Skip(r) \/ Refuse(r) \/ Proceed(r)
           \/ FindOrCreateOperation(r)
    PROVE  DeliveryInv'
<1> USE DEF DeliveryInv, GoTo, channelVars, seenVars, ledger
<1>1. CASE LoadMessage(r)
  <2>1. DeliveryTypeOK'
    BY <1>1 DEF LoadMessage, DeliveryTypeOK, RunStep
  <2>2. LedgerInv'
    BY <1>1 DEF LoadMessage, DeliveryTypeOK, LedgerInv, WorkIsStarted, StartedIsExclusive,
       RequestFitsStep, OneCallPerOperation, WrittenOffWasNotDelivered, Live, ClaimedStep
  <2>3. SuccessWasAccepted' /\ SendsUnderTheFence'
    BY <1>1 DEF LoadMessage, DeliveryTypeOK, LedgerInv, RequestFitsStep, Live,
       SuccessWasAccepted, SendsUnderTheFence
  <2> QED
    BY <2>1, <2>2, <2>3
<1>2. CASE CheckOperation(r)
  <2>1. DeliveryTypeOK'
    BY <1>2 DEF CheckOperation, DeliveryTypeOK, RunStep
  <2>2. LedgerInv'
    BY <1>2 DEF CheckOperation, DeliveryTypeOK, LedgerInv, WorkIsStarted, StartedIsExclusive,
       RequestFitsStep, OneCallPerOperation, WrittenOffWasNotDelivered, Live, ClaimedStep
  <2>3. SuccessWasAccepted' /\ SendsUnderTheFence'
    BY <1>2 DEF CheckOperation, DeliveryTypeOK, SuccessWasAccepted, SendsUnderTheFence
  <2> QED
    BY <2>1, <2>2, <2>3
<1>3. CASE Skip(r) \/ Refuse(r) \/ Proceed(r)
  <2>1. DeliveryTypeOK'
    BY <1>3 DEF Skip, Refuse, Proceed, Undelivered, DeliveryTypeOK, RunStep, MessageStatus
  <2>2. LedgerInv'
    BY <1>3 DEF Skip, Refuse, Proceed, DeliveryTypeOK, LedgerInv, WorkIsStarted, StartedIsExclusive,
       RequestFitsStep, OneCallPerOperation, WrittenOffWasNotDelivered, Live, ClaimedStep
  <2>3. SuccessWasAccepted' /\ SendsUnderTheFence'
    BY <1>3 DEF Skip, Refuse, Proceed, Undelivered, DeliveryTypeOK, SuccessWasAccepted,
       SendsUnderTheFence
  <2> QED
    BY <2>1, <2>2, <2>3
<1>4. CASE FindOrCreateOperation(r)
  <2>1. DeliveryTypeOK'
    BY <1>4 DEF FindOrCreateOperation, DeliveryTypeOK, RunStep, OperationStatus
  <2>2. LedgerInv'
    BY <1>4 DEF FindOrCreateOperation, DeliveryTypeOK, LedgerInv, WorkIsStarted, StartedIsExclusive,
       RequestFitsStep, OneCallPerOperation, WrittenOffWasNotDelivered, Live, ClaimedStep
  <2>3. SuccessWasAccepted' /\ SendsUnderTheFence'
    BY <1>4 DEF FindOrCreateOperation, DeliveryTypeOK, SuccessWasAccepted, SendsUnderTheFence
  <2> QED
    BY <2>1, <2>2, <2>3
<1> QED
  BY <1>1, <1>2, <1>3, <1>4

\* The claim and what a run does until it leaves its provider call.
LEMMA SendInv ==
    ASSUME NEW r \in Runs, DeliveryInv,
           \/ ClaimOperation(r) \/ Authorize(r) \/ AuthorizeError(r) \/ TransactionTimesOut(r)
           \/ ProviderReturns(r) \/ OutcomeUnknown(r)
           \/ \E retryable \in BOOLEAN : ProviderRefuses(r, retryable)
           \/ ProviderActs(r) \/ Stop(r)
    PROVE  DeliveryInv'
<1> USE DEF DeliveryInv, GoTo, Unlock, channelVars, seenVars, ledger
<1>1. CASE ClaimOperation(r)
  <2>1. DeliveryTypeOK'
    BY <1>1 DEF ClaimOperation, DeliveryTypeOK, RunStep, OperationStatus
  <2>2. LedgerInv'
    BY <1>1 DEF ClaimOperation, DeliveryTypeOK, LedgerInv, WorkIsStarted, StartedIsExclusive,
       RequestFitsStep, OneCallPerOperation, WrittenOffWasNotDelivered, Live, ClaimedStep
  <2>3. SuccessWasAccepted' /\ SendsUnderTheFence'
    BY <1>1, DeliveryAssumption DEF ClaimOperation, DeliveryTypeOK, LedgerInv, RequestFitsStep,
       WorkIsStarted, ClaimedStep, Live, SuccessWasAccepted, SendsUnderTheFence
  <2> QED
    BY <2>1, <2>2, <2>3
<1>2. CASE Authorize(r)
  <2>1. DeliveryTypeOK'
    BY <1>2 DEF Authorize, Permitted, DeliveryTypeOK, RunStep, RequestStatus
  <2>2. LedgerInv'
    BY <1>2 DEF Authorize, Permitted, DeliveryTypeOK, LedgerInv, WorkIsStarted, StartedIsExclusive,
       RequestFitsStep, OneCallPerOperation, WrittenOffWasNotDelivered, Live, ClaimedStep
  <2>3. SuccessWasAccepted' /\ SendsUnderTheFence'
    BY <1>2, DeliveryAssumption DEF Authorize, Permitted, DeliveryTypeOK, LedgerInv, RequestFitsStep,
       WorkIsStarted, ClaimedStep, Live, SuccessWasAccepted, SendsUnderTheFence
  <2> QED
    BY <2>1, <2>2, <2>3
<1>3. CASE AuthorizeError(r)
  <2>1. DeliveryTypeOK'
    BY <1>3 DEF AuthorizeError, DeliveryTypeOK, RunStep
  <2>2. LedgerInv'
    BY <1>3 DEF AuthorizeError, DeliveryTypeOK, LedgerInv, WorkIsStarted, StartedIsExclusive,
       RequestFitsStep, OneCallPerOperation, WrittenOffWasNotDelivered, Live, ClaimedStep
  <2>3. SuccessWasAccepted' /\ SendsUnderTheFence'
    BY <1>3, DeliveryAssumption DEF AuthorizeError, DeliveryTypeOK, LedgerInv, RequestFitsStep,
       WorkIsStarted, ClaimedStep, Live, SuccessWasAccepted, SendsUnderTheFence
  <2> QED
    BY <2>1, <2>2, <2>3
<1>4. CASE TransactionTimesOut(r)
  <2>1. DeliveryTypeOK'
    BY <1>4 DEF TransactionTimesOut, DeliveryTypeOK, RunStep
  <2>2. LedgerInv'
    BY <1>4 DEF TransactionTimesOut, DeliveryTypeOK, LedgerInv, WorkIsStarted, StartedIsExclusive,
       RequestFitsStep, OneCallPerOperation, WrittenOffWasNotDelivered, Live, ClaimedStep
  <2>3. SuccessWasAccepted' /\ SendsUnderTheFence'
    BY <1>4, DeliveryAssumption DEF TransactionTimesOut, DeliveryTypeOK, LedgerInv, RequestFitsStep,
       WorkIsStarted, ClaimedStep, Live, SuccessWasAccepted, SendsUnderTheFence
  <2> QED
    BY <2>1, <2>2, <2>3
<1>5. CASE ProviderReturns(r)
  <2>1. DeliveryTypeOK'
    BY <1>5 DEF ProviderReturns, DeliveryTypeOK, RunStep
  <2>2. LedgerInv'
    BY <1>5 DEF ProviderReturns, DeliveryTypeOK, LedgerInv, WorkIsStarted, StartedIsExclusive,
       RequestFitsStep, OneCallPerOperation, WrittenOffWasNotDelivered, Live, ClaimedStep
  <2>3. SuccessWasAccepted' /\ SendsUnderTheFence'
    BY <1>5, DeliveryAssumption DEF ProviderReturns, DeliveryTypeOK, LedgerInv, RequestFitsStep,
       WorkIsStarted, ClaimedStep, Live, SuccessWasAccepted, SendsUnderTheFence
  <2> QED
    BY <2>1, <2>2, <2>3
<1>6. CASE OutcomeUnknown(r)
  <2>1. DeliveryTypeOK'
    BY <1>6 DEF OutcomeUnknown, DeliveryTypeOK, RunStep
  <2>2. LedgerInv'
    BY <1>6 DEF OutcomeUnknown, DeliveryTypeOK, LedgerInv, WorkIsStarted, StartedIsExclusive,
       RequestFitsStep, OneCallPerOperation, WrittenOffWasNotDelivered, Live, ClaimedStep
  <2>3. SuccessWasAccepted' /\ SendsUnderTheFence'
    BY <1>6, DeliveryAssumption DEF OutcomeUnknown, DeliveryTypeOK, LedgerInv, RequestFitsStep,
       WorkIsStarted, ClaimedStep, Live, SuccessWasAccepted, SendsUnderTheFence
  <2> QED
    BY <2>1, <2>2, <2>3
<1>7. CASE \E retryable \in BOOLEAN : ProviderRefuses(r, retryable)
  <2>1. DeliveryTypeOK'
    BY <1>7 DEF ProviderRefuses, DeliveryTypeOK, RunStep
  <2>2. LedgerInv'
    BY <1>7 DEF ProviderRefuses, DeliveryTypeOK, LedgerInv, WorkIsStarted, StartedIsExclusive,
       RequestFitsStep, OneCallPerOperation, WrittenOffWasNotDelivered, Live, ClaimedStep
  <2>3. SuccessWasAccepted' /\ SendsUnderTheFence'
    BY <1>7, DeliveryAssumption DEF ProviderRefuses, DeliveryTypeOK, LedgerInv, RequestFitsStep,
       WorkIsStarted, ClaimedStep, Live, SuccessWasAccepted, SendsUnderTheFence
  <2> QED
    BY <2>1, <2>2, <2>3
<1>8. CASE ProviderActs(r)
  <2>1. DeliveryTypeOK'
    BY <1>8 DEF ProviderActs, DeliveryTypeOK, RunStep, RequestStatus
  <2>2. LedgerInv'
    BY <1>8 DEF ProviderActs, DeliveryTypeOK, LedgerInv, WorkIsStarted, StartedIsExclusive,
       RequestFitsStep, OneCallPerOperation, WrittenOffWasNotDelivered, Live, ClaimedStep
  <2>3. SuccessWasAccepted' /\ SendsUnderTheFence'
    BY <1>8, DeliveryAssumption DEF ProviderActs, DeliveryTypeOK, LedgerInv, RequestFitsStep,
       WorkIsStarted, ClaimedStep, Live, SuccessWasAccepted, SendsUnderTheFence
  <2> QED
    BY <2>1, <2>2, <2>3
<1>9. CASE Stop(r)
  <2>1. DeliveryTypeOK'
    BY <1>9 DEF Stop, DeliveryTypeOK, RunStep
  <2>2. LedgerInv'
    BY <1>9 DEF Stop, DeliveryTypeOK, LedgerInv, WorkIsStarted, StartedIsExclusive,
       RequestFitsStep, OneCallPerOperation, WrittenOffWasNotDelivered, Live, ClaimedStep
  <2>3. SuccessWasAccepted' /\ SendsUnderTheFence'
    BY <1>9, DeliveryAssumption DEF Stop, DeliveryTypeOK, LedgerInv, RequestFitsStep,
       WorkIsStarted, ClaimedStep, Live, SuccessWasAccepted, SendsUnderTheFence
  <2> QED
    BY <2>1, <2>2, <2>3
<1> QED
  BY <1>1, <1>2, <1>3, <1>4, <1>5, <1>6, <1>7, <1>8, <1>9

\* The steps that record an outcome: each finds the operation it has claimed.
LEMMA OutcomeInv ==
    ASSUME NEW r \in Runs, DeliveryInv,
           \/ CommitSuccessfulDelivery(r) \/ CommitAdapterFailure(r) \/ CommitWebhookFailure(r)
           \/ ReleaseOperation(r) \/ ReconcileSkipped(r) \/ RecordUnknown(r)
    PROVE  DeliveryInv'
<1> USE DEF DeliveryInv, GoTo, Settle, Started, Undelivered, channelVars, seenVars
<1>1. CASE CommitSuccessfulDelivery(r)
  <2>1. DeliveryTypeOK'
    BY <1>1 DEF CommitSuccessfulDelivery, DeliveryTypeOK, RunStep, OperationStatus, MessageStatus
  <2>2. LedgerInv'
    BY <1>1 DEF CommitSuccessfulDelivery, DeliveryTypeOK, LedgerInv, WorkIsStarted, StartedIsExclusive,
       RequestFitsStep, OneCallPerOperation, WrittenOffWasNotDelivered, Live, ClaimedStep
  <2>3. SuccessWasAccepted' /\ SendsUnderTheFence'
    BY <1>1, DeliveryAssumption DEF CommitSuccessfulDelivery, DeliveryTypeOK, LedgerInv, RequestFitsStep,
       WorkIsStarted, ClaimedStep, Live, SuccessWasAccepted, SendsUnderTheFence
  <2> QED
    BY <2>1, <2>2, <2>3
<1>2. CASE CommitAdapterFailure(r)
  <2>1. DeliveryTypeOK'
    BY <1>2 DEF CommitAdapterFailure, DeliveryTypeOK, RunStep, OperationStatus, MessageStatus
  <2>2. LedgerInv'
    BY <1>2, SMTT(30) DEF CommitAdapterFailure, DeliveryTypeOK, LedgerInv, WorkIsStarted, StartedIsExclusive,
       RequestFitsStep, OneCallPerOperation, WrittenOffWasNotDelivered, Live, ClaimedStep
  <2>3. SuccessWasAccepted' /\ SendsUnderTheFence'
    BY <1>2, DeliveryAssumption DEF CommitAdapterFailure, DeliveryTypeOK, LedgerInv, RequestFitsStep,
       WorkIsStarted, ClaimedStep, Live, SuccessWasAccepted, SendsUnderTheFence
  <2> QED
    BY <2>1, <2>2, <2>3
<1>3. CASE CommitWebhookFailure(r)
  <2>1. DeliveryTypeOK'
    BY <1>3 DEF CommitWebhookFailure, DeliveryTypeOK, RunStep, OperationStatus, MessageStatus
  <2>2. LedgerInv'
    BY <1>3 DEF CommitWebhookFailure, DeliveryTypeOK, LedgerInv, WorkIsStarted, StartedIsExclusive,
       RequestFitsStep, OneCallPerOperation, WrittenOffWasNotDelivered, Live, ClaimedStep
  <2>3. SuccessWasAccepted' /\ SendsUnderTheFence'
    BY <1>3, DeliveryAssumption DEF CommitWebhookFailure, DeliveryTypeOK, LedgerInv, RequestFitsStep,
       WorkIsStarted, ClaimedStep, Live, SuccessWasAccepted, SendsUnderTheFence
  <2> QED
    BY <2>1, <2>2, <2>3
<1>4. CASE ReleaseOperation(r)
  <2>1. DeliveryTypeOK'
    BY <1>4 DEF ReleaseOperation, DeliveryTypeOK, RunStep, OperationStatus, MessageStatus
  <2>2. LedgerInv'
    BY <1>4 DEF ReleaseOperation, DeliveryTypeOK, LedgerInv, WorkIsStarted, StartedIsExclusive,
       RequestFitsStep, OneCallPerOperation, WrittenOffWasNotDelivered, Live, ClaimedStep
  <2>3. SuccessWasAccepted' /\ SendsUnderTheFence'
    BY <1>4, DeliveryAssumption DEF ReleaseOperation, DeliveryTypeOK, LedgerInv, RequestFitsStep,
       WorkIsStarted, ClaimedStep, Live, SuccessWasAccepted, SendsUnderTheFence
  <2> QED
    BY <2>1, <2>2, <2>3
<1>5. CASE ReconcileSkipped(r)
  <2>1. DeliveryTypeOK'
    BY <1>5 DEF ReconcileSkipped, DeliveryTypeOK, RunStep, OperationStatus, MessageStatus
  <2>2. LedgerInv'
    BY <1>5 DEF ReconcileSkipped, DeliveryTypeOK, LedgerInv, WorkIsStarted, StartedIsExclusive,
       RequestFitsStep, OneCallPerOperation, WrittenOffWasNotDelivered, Live, ClaimedStep
  <2>3. SuccessWasAccepted' /\ SendsUnderTheFence'
    BY <1>5, DeliveryAssumption DEF ReconcileSkipped, DeliveryTypeOK, LedgerInv, RequestFitsStep,
       WorkIsStarted, ClaimedStep, Live, SuccessWasAccepted, SendsUnderTheFence
  <2> QED
    BY <2>1, <2>2, <2>3
<1>6. CASE RecordUnknown(r)
  <2>1. DeliveryTypeOK'
    BY <1>6 DEF RecordUnknown, DeliveryTypeOK, RunStep, OperationStatus, MessageStatus
  <2>2. LedgerInv'
    BY <1>6 DEF RecordUnknown, DeliveryTypeOK, LedgerInv, WorkIsStarted, StartedIsExclusive,
       RequestFitsStep, OneCallPerOperation, WrittenOffWasNotDelivered, Live, ClaimedStep
  <2>3. SuccessWasAccepted' /\ SendsUnderTheFence'
    BY <1>6, DeliveryAssumption DEF RecordUnknown, DeliveryTypeOK, LedgerInv, RequestFitsStep,
       WorkIsStarted, ClaimedStep, Live, SuccessWasAccepted, SendsUnderTheFence
  <2> QED
    BY <2>1, <2>2, <2>3
<1> QED
  BY <1>1, <1>2, <1>3, <1>4, <1>5, <1>6

\* What happens around the runs.
LEMMA EnvironmentInv ==
    ASSUME DeliveryInv, Environment
    PROVE  DeliveryInv'
<1> USE DEF DeliveryInv, channelVars, seenVars, ledger
<1>1. CASE EventGivenUp
  <2>1. DeliveryTypeOK'
    BY <1>1 DEF EventGivenUp, DeliveryTypeOK, RunStep, MessageStatus
  <2>2. LedgerInv'
    BY <1>1 DEF EventGivenUp, DeliveryTypeOK, LedgerInv, WorkIsStarted, StartedIsExclusive,
       RequestFitsStep, OneCallPerOperation, WrittenOffWasNotDelivered, Live, ClaimedStep
  <2>3. SuccessWasAccepted' /\ SendsUnderTheFence'
    BY <1>1, DeliveryAssumption DEF EventGivenUp, DeliveryTypeOK, LedgerInv, RequestFitsStep,
       WorkIsStarted, ClaimedStep, Live, SuccessWasAccepted, SendsUnderTheFence
  <2> QED
    BY <2>1, <2>2, <2>3
<1>2. CASE TakeOver
  <2>1. DeliveryTypeOK'
    BY <1>2 DEF TakeOver, DeliveryTypeOK, RunStep
  <2>2. LedgerInv'
    BY <1>2 DEF TakeOver, DeliveryTypeOK, LedgerInv, WorkIsStarted, StartedIsExclusive,
       RequestFitsStep, OneCallPerOperation, WrittenOffWasNotDelivered, Live, ClaimedStep
  <2>3. SuccessWasAccepted' /\ SendsUnderTheFence'
    BY <1>2, DeliveryAssumption DEF TakeOver, DeliveryTypeOK, LedgerInv, RequestFitsStep,
       WorkIsStarted, ClaimedStep, Live, SuccessWasAccepted, SendsUnderTheFence
  <2> QED
    BY <2>1, <2>2, <2>3
<1>3. CASE AdmissionChanges
  <2>1. DeliveryTypeOK'
    BY <1>3 DEF AdmissionChanges, DeliveryTypeOK, RunStep
  <2>2. LedgerInv'
    BY <1>3 DEF AdmissionChanges, DeliveryTypeOK, LedgerInv, WorkIsStarted, StartedIsExclusive,
       RequestFitsStep, OneCallPerOperation, WrittenOffWasNotDelivered, Live, ClaimedStep
  <2>3. SuccessWasAccepted' /\ SendsUnderTheFence'
    BY <1>3, DeliveryAssumption DEF AdmissionChanges, DeliveryTypeOK, LedgerInv, RequestFitsStep,
       WorkIsStarted, ClaimedStep, Live, SuccessWasAccepted, SendsUnderTheFence
  <2> QED
    BY <2>1, <2>2, <2>3
<1>4. CASE \E k \in Routes, usable \in BOOLEAN : ChannelChanges(k, usable)
  <2>1. DeliveryTypeOK'
    BY <1>4 DEF ChannelChanges, DeliveryTypeOK, RunStep
  <2>2. LedgerInv'
    BY <1>4 DEF ChannelChanges, DeliveryTypeOK, LedgerInv, WorkIsStarted, StartedIsExclusive,
       RequestFitsStep, OneCallPerOperation, WrittenOffWasNotDelivered, Live, ClaimedStep
  <2>3. SuccessWasAccepted' /\ SendsUnderTheFence'
    BY <1>4, DeliveryAssumption DEF ChannelChanges, DeliveryTypeOK, LedgerInv, RequestFitsStep,
       WorkIsStarted, ClaimedStep, Live, SuccessWasAccepted, SendsUnderTheFence
  <2> QED
    BY <2>1, <2>2, <2>3
<1>5. CASE \E k \in Routes : Reconcile(k)
  <2>1. DeliveryTypeOK'
    BY <1>5 DEF Reconcile, Calls, DeliveryTypeOK, RunStep, OperationStatus
  <2>2. LedgerInv'
    BY <1>5 DEF Reconcile, Calls, DeliveryTypeOK, LedgerInv, WorkIsStarted, StartedIsExclusive,
       RequestFitsStep, OneCallPerOperation, WrittenOffWasNotDelivered, Live, ClaimedStep
  <2>3. SuccessWasAccepted' /\ SendsUnderTheFence'
    BY <1>5, DeliveryAssumption DEF Reconcile, Calls, DeliveryTypeOK, LedgerInv, RequestFitsStep,
       WorkIsStarted, ClaimedStep, Live, SuccessWasAccepted, SendsUnderTheFence
  <2> QED
    BY <2>1, <2>2, <2>3
<1> QED
  BY <1>1, <1>2, <1>3, <1>4, <1>5 DEF Environment

\* Every step preserves the inductive invariant.
LEMMA DeliveryStepInv == DeliveryInv /\ [Next]_vars => DeliveryInv'
<1> SUFFICES ASSUME DeliveryInv, [Next]_vars PROVE DeliveryInv'
  OBVIOUS
<1>1. ASSUME NEW r \in Runs, Deliver(r) \/ ProviderActs(r) PROVE DeliveryInv'
  BY <1>1, BeforeClaimInv, SendInv, OutcomeInv DEF Deliver
<1>2. CASE Environment
  BY <1>2, EnvironmentInv
<1>3. CASE UNCHANGED vars
  BY <1>3 DEF vars, channelVars, ledger, seenVars, DeliveryInv, DeliveryTypeOK, LedgerInv,
     WorkIsStarted, StartedIsExclusive, RequestFitsStep, OneCallPerOperation,
     WrittenOffWasNotDelivered, Live, SuccessWasAccepted, SendsUnderTheFence
<1> QED
  BY <1>1, <1>2, <1>3 DEF Next

\* For any number of executions, accounts and attempts, an operation reaches
\* the provider once, nothing that may have been delivered is written off, a
\* reported success was accepted, and a send runs under the fence it checked.
THEOREM DeliverySafety ==
    Spec => [](/\ DeliveryTypeOK /\ OneCallPerOperation /\ WrittenOffWasNotDelivered
               /\ SuccessWasAccepted /\ SendsUnderTheFence)
<1>1. DeliveryInv => /\ DeliveryTypeOK /\ OneCallPerOperation /\ WrittenOffWasNotDelivered
                     /\ SuccessWasAccepted /\ SendsUnderTheFence
  BY DEF DeliveryInv, LedgerInv
<1> QED
  BY <1>1, DeliveryInitInv, DeliveryStepInv, PTL DEF Spec

\* The provider has not accepted, and will not accept, a request of an operation that
\* may be tried again or is reported as not delivered, also when a run that lost its
\* transaction is still waiting (recordUnknownOperation, the failure commits).
THEOREM WrittenOff == Spec => []WrittenOffWasNotDelivered
BY DeliverySafety, PTL

\* A request that is sent while the locks are held is for the route and the
\* admission that were checked under them.
THEOREM FencedSends == Spec => []SendsUnderTheFence
BY DeliverySafety, PTL

\* No late run, lost answer or operator changes the outcome of a settled
\* operation.
THEOREM SettledOperations == Spec => SettledOperationsStaySettled
<1> DEFINE Kept == \A k \in Routes :
                      op[k] \in {"SUCCEEDED", "FAILED", "RECONCILED"} => op'[k] = op[k]
<1>1. ASSUME DeliveryInv, [Next]_vars PROVE [Kept]_vars
  <2>1. ASSUME NEW r \in Runs, Deliver(r) \/ ProviderActs(r) PROVE Kept
    <3> USE DEF DeliveryInv, DeliveryTypeOK, GoTo, ledger
    <3>1. CASE FindOrCreateOperation(r) \/ ClaimOperation(r)
      BY <1>1, <3>1 DEF FindOrCreateOperation, ClaimOperation
    <3>2. CASE \/ CommitSuccessfulDelivery(r) \/ CommitAdapterFailure(r)
               \/ CommitWebhookFailure(r) \/ ReleaseOperation(r) \/ ReconcileSkipped(r)
               \/ RecordUnknown(r)
      BY <1>1, <3>2 DEF CommitSuccessfulDelivery, CommitAdapterFailure, CommitWebhookFailure,
         ReleaseOperation, ReconcileSkipped, RecordUnknown, Settle, Started
    <3> QED
      BY <2>1, <3>1, <3>2 DEF Deliver, LoadMessage, CheckOperation, Skip, Refuse, Proceed,
         Authorize, AuthorizeError, TransactionTimesOut, ProviderReturns, OutcomeUnknown,
         ProviderRefuses, ProviderActs, Stop
  <2>2. CASE Environment
    BY <1>1, <2>2 DEF Environment, EventGivenUp, TakeOver, AdmissionChanges, ChannelChanges,
       Reconcile, ledger, DeliveryInv, DeliveryTypeOK
  <2> QED
    BY <1>1, <2>1, <2>2 DEF Next
<1> QED
  BY <1>1, DeliveryInitInv, DeliveryStepInv, PTL DEF Spec, SettledOperationsStaySettled

===============================================================================
