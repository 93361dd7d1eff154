--------------------- MODULE KnowledgePublication_proofs ---------------------
(***************************************************************************)
(* Proofs about KnowledgePublication, for any number of requests,          *)
(* dispatchers, attempts, faults and edits.                                *)
(***************************************************************************)
EXTENDS KnowledgePublication, TLAPS

\* A dispatcher at work has an event.
AtFits == \A d \in Dispatchers : pc[d] # "idle" => at[d] \in Publications

\* One that is about to complete its event has found the publication activated.
CompleteKnows ==
    \A d \in Dispatchers : pc[d] = "complete" => status[at[d]] \in Activated

\* What a request was made over has been the active publication.
BaseWasActive ==
    \A p \in Publications : base[p] = Before \/ status[base[p]] \in Activated

\* The pointer has left what an activated publication was made over, and it
\* never returns to a publication.
BaseIsPassed == \A p \in Publications : status[p] \in Activated => base[p] # active

\* The part of the inductive invariant that is about the pointer.
PointerInv ==
    /\ PointerIsTheActiveOne
    /\ BaseWasActive
    /\ BaseIsPassed
    /\ OneSuccessorPerBase

\* The parts of PublicationTypeOK: the requests, their records, the dispatchers.
RequestTypeOK ==
    /\ operation \in [Publications -> {"PUBLISH", "ROLLBACK"}]
    /\ base \in [Publications -> Publications \cup {Before}]
    /\ status \in [Publications -> PublicationStatus]
    /\ changed \in [Publications -> {"nothing", "draft", "policy"}]
    /\ evaluation \in [Publications -> {"PENDING", "PASSED", "FAILED"}]
    /\ active \in Publications \cup {Before}

RecordTypeOK ==
    /\ event \in [Publications -> EventStatus]
    /\ lock \in [Publications -> Dispatchers \cup {NoDispatcher}]
    /\ stale \in [Publications -> BOOLEAN]
    /\ attempts \in [Publications -> Nat]
    /\ job \in [Publications -> JobStatus]
    /\ jobAttempts \in [Publications -> Nat]
    /\ inbox \in [Publications -> InboxStatus]

LocalTypeOK ==
    /\ pc \in [Dispatchers -> DispatcherStep]
    /\ at \in [Dispatchers -> Publications \cup {Before}]
    /\ listed \in [Dispatchers -> SUBSET Publications]
    /\ spent \in [Dispatchers -> BOOLEAN]
    /\ lost \in [Dispatchers -> BOOLEAN]
    /\ code \in [Dispatchers -> {"terminal", "transient"}]

BoundsOK == faults \in 0 .. MaxFaults /\ edits \in 0 .. MaxEdits

\* The inductive invariant.
PublicationInv ==
    /\ RequestTypeOK /\ RecordTypeOK /\ LocalTypeOK /\ BoundsOK
    /\ AtFits /\ CompleteKnows
    /\ PublishedWasActivated /\ JobEndsWithItsEvent
    /\ PointerInv

-----------------------------------------------------------------------------

\* Nothing was requested yet.
LEMMA PublicationInitInv == Init => PublicationInv
  <1> SUFFICES ASSUME Init PROVE PublicationInv
    OBVIOUS
  <1>1. RequestTypeOK /\ RecordTypeOK
    BY DEF Init, RequestTypeOK, RecordTypeOK, PublicationStatus, EventStatus, JobStatus, InboxStatus
  <1>2. LocalTypeOK
    <2>1. listed \in [Dispatchers -> SUBSET Publications]
      BY DEF Init
    <2> QED
      BY <2>1 DEF Init, LocalTypeOK, DispatcherStep
  <1>3. BoundsOK
    BY PublicationAssumption DEF Init, BoundsOK
  <1>4. AtFits /\ CompleteKnows /\ PublishedWasActivated /\ JobEndsWithItsEvent
    BY DEF Init, AtFits, CompleteKnows, PublishedWasActivated, JobEndsWithItsEvent
  <1>5. PointerInv
    BY PublicationAssumption DEF Init, PointerInv, PointerIsTheActiveOne, BaseWasActive,
       BaseIsPassed, OneSuccessorPerBase, Activated
  <1> QED
    BY <1>1, <1>2, <1>3, <1>4, <1>5 DEF PublicationInv

-----------------------------------------------------------------------------
(* What the steps leave alone.                                             *)

\* The steps of a dispatcher that do not touch the requests or the pointer.
LEMMA RequestFrame ==
  ASSUME NEW d \in Dispatchers,
         \/ Drain(d) \/ (\E p \in Publications : Dispatch(d, p)) \/ Reconcile(d)
         \/ CheckEvaluation(d) \/ Claim(d) \/ StartJob(d) \/ StartInbox(d)
         \/ Complete(d) \/ Catch(d) \/ Renew(d) \/ Throw(d) \/ Crash(d)
  PROVE  UNCHANGED <<operation, base, status, active, changed, evaluation, edits>>
  BY DEF Drain, Dispatch, Reconcile, CheckEvaluation, Claim, StartJob, StartInbox, Complete,
     Catch, Renew, Throw, Crash, request, world

\* The steps of a dispatcher that do not touch the event, the job or the inbox row.
LEMMA RecordFrame ==
  ASSUME NEW d \in Dispatchers,
         \/ Drain(d) \/ (\E p \in Publications : Dispatch(d, p)) \/ CheckEvaluation(d)
         \/ Prepare(d) \/ Activate(d) \/ Catch(d) \/ Throw(d) \/ Crash(d)
  PROVE  UNCHANGED <<event, lock, stale, attempts, job, jobAttempts, inbox>>
  BY DEF Drain, Dispatch, CheckEvaluation, Prepare, Activate, Catch, Throw, Crash, row, records

\* The steps that are not a dispatcher's.
Outside ==
    \/ \E p \in Publications :
          \/ \E op \in {"PUBLISH", "ROLLBACK"} : Request(p, op)
          \/ EvaluationEnds(p) \/ LeaseRunsOut(p)
    \/ \E what \in {"draft", "policy"} : Edit(what)
    \/ EditTestCases

\* What happens outside the dispatchers leaves their positions and what they have
\* read alone.
LEMMA LocalFrame == Outside => UNCHANGED <<pc, at, listed, spent, lost, code>>
  BY DEF Outside, Request, EvaluationEnds, LeaseRunsOut, Edit, EditTestCases, local

\* Of what happens outside the dispatchers only a request and the end of a lease
\* touch the records of an event and its job (publish, rollback).
LEMMA OutsideRecordFrame ==
    Outside => \/ \E p \in Publications : LeaseRunsOut(p)
               \/ \E p \in Publications, op \in {"PUBLISH", "ROLLBACK"} : Request(p, op)
               \/ UNCHANGED <<event, lock, stale, attempts, job, jobAttempts, inbox>>
  BY DEF Outside, EvaluationEnds, Edit, EditTestCases, row, records

-----------------------------------------------------------------------------
(* The conjuncts of the invariant, one after the other.                    *)

\* Every step keeps the types of the requests and of the pointer.
LEMMA StepRequestType ==
  ASSUME RequestTypeOK, AtFits, [Next]_vars
  PROVE  RequestTypeOK'
  <1> USE PublicationAssumption DEF RequestTypeOK, AtFits, PublicationStatus, Activated
  <1>1. ASSUME NEW p \in Publications, NEW op \in {"PUBLISH", "ROLLBACK"}, Request(p, op)
        PROVE  RequestTypeOK'
    BY <1>1 DEF Request, world
  <1>2. ASSUME NEW p \in Publications, EvaluationEnds(p) PROVE RequestTypeOK'
    BY <1>2 DEF EvaluationEnds, request
  <1>3. ASSUME NEW what \in {"draft", "policy"}, Edit(what) PROVE RequestTypeOK'
    BY <1>3 DEF Edit, request
  <1>4. CASE EditTestCases
    BY <1>4 DEF EditTestCases, request
  <1>5. ASSUME NEW d \in Dispatchers, GiveUp(d) PROVE RequestTypeOK'
    BY <1>5 DEF GiveUp, FailedUnlessElsewhere, world
  <1>6. ASSUME NEW d \in Dispatchers, Prepare(d) PROVE RequestTypeOK'
    BY <1>6 DEF Prepare, Preparable, world
  <1>7. ASSUME NEW d \in Dispatchers, Activate(d) PROVE RequestTypeOK'
    BY <1>7 DEF Activate, Switched, world
  <1>8. ASSUME NEW d \in Dispatchers, CompleteFailure(d) PROVE RequestTypeOK'
    BY <1>8 DEF CompleteFailure, FailedUnlessElsewhere, world
  <1>9. CASE UNCHANGED <<operation, base, status, active, changed, evaluation>>
    BY <1>9
  <1> QED
    BY <1>1, <1>2, <1>3, <1>4, <1>5, <1>6, <1>7, <1>8, <1>9, RequestFrame
    DEF Next, Work, vars, LeaseRunsOut, request, world

\* Every step keeps the types of the event, the job and the inbox row.
LEMMA StepRecordType ==
  ASSUME RecordTypeOK, AtFits, [Next]_vars
  PROVE  RecordTypeOK'
  <1> USE PublicationAssumption DEF RecordTypeOK, AtFits, EventStatus, JobStatus, InboxStatus, Settled
  <1>1. ASSUME NEW p \in Publications, NEW op \in {"PUBLISH", "ROLLBACK"}, Request(p, op)
        PROVE  RecordTypeOK'
    BY <1>1 DEF Request
  <1>2. ASSUME NEW p \in Publications, LeaseRunsOut(p) PROVE RecordTypeOK'
    BY <1>2 DEF LeaseRunsOut, records
  <1>3. ASSUME NEW d \in Dispatchers, Reconcile(d) PROVE RecordTypeOK'
    <2>1. CASE Committed(at[d])
      BY <1>3, <2>1, ZenonT(60) DEF Reconcile
    <2>2. CASE ~Committed(at[d])
      BY <1>3, <2>2 DEF Reconcile
    <2> QED
      BY <2>1, <2>2
  <1>4. ASSUME NEW d \in Dispatchers, GiveUp(d) PROVE RecordTypeOK'
    BY <1>4, ZenonT(60) DEF GiveUp
  <1>5. ASSUME NEW d \in Dispatchers, Claim(d) PROVE RecordTypeOK'
    <2>1. CASE Listable(at[d])
      <3>1. /\ event' = [event EXCEPT ![at[d]] = "PUBLISHING"]
            /\ lock' = [lock EXCEPT ![at[d]] = d]
            /\ stale' = [stale EXCEPT ![at[d]] = FALSE]
            /\ UNCHANGED <<job, jobAttempts, inbox>>
        BY <1>5, <2>1 DEF Claim, records
      <3>2. attempts' \in [Publications -> Nat]
        BY <1>5, <2>1 DEF Claim
      <3> QED
        BY <3>1, <3>2
    <2>2. CASE ~Listable(at[d])
      BY <1>5, <2>2 DEF Claim, records
    <2> QED
      BY <2>1, <2>2
  <1>6. ASSUME NEW d \in Dispatchers, StartJob(d) PROVE RecordTypeOK'
    BY <1>6 DEF StartJob, row
  <1>7. ASSUME NEW d \in Dispatchers, StartInbox(d) PROVE RecordTypeOK'
    BY <1>7 DEF StartInbox, row
  <1>8. ASSUME NEW d \in Dispatchers, Complete(d) PROVE RecordTypeOK'
    BY <1>8, ZenonT(60) DEF Complete
  <1>9. ASSUME NEW d \in Dispatchers, CompleteFailure(d) PROVE RecordTypeOK'
    BY <1>9, ZenonT(60) DEF CompleteFailure
  <1>10. ASSUME NEW d \in Dispatchers, Renew(d) PROVE RecordTypeOK'
    BY <1>10 DEF Renew, Activating, records
  <1>11. CASE UNCHANGED <<event, lock, stale, attempts, job, jobAttempts, inbox>>
    BY <1>11
  <1> QED
    BY <1>1, <1>2, <1>3, <1>4, <1>5, <1>6, <1>7, <1>8, <1>9, <1>10, <1>11, RecordFrame,
       OutsideRecordFrame DEF Next, Work, Outside, vars, row, records

\* Every step keeps the types of the dispatchers.
LEMMA StepLocalType ==
  ASSUME LocalTypeOK, AtFits, [Next]_vars
  PROVE  LocalTypeOK'
  <1> USE PublicationAssumption DEF LocalTypeOK, DispatcherStep, GoTo, Fail
  <1>0. ASSUME NEW d \in Dispatchers, Return(d), UNCHANGED listed PROVE LocalTypeOK'
    BY <1>0 DEF Return
  <1>1. ASSUME NEW d \in Dispatchers, Drain(d) PROVE LocalTypeOK'
    BY <1>1 DEF Drain
  <1>2. ASSUME NEW d \in Dispatchers, NEW p \in Publications, Dispatch(d, p) PROVE LocalTypeOK'
    <2>1. listed' \in [Dispatchers -> SUBSET Publications] /\ UNCHANGED <<lost, code>>
      BY <1>2 DEF Dispatch
    <2>2. CASE event[p] = "PUBLISHED"
      BY <1>2, <2>1, <2>2 DEF Dispatch
    <2>3. CASE event[p] # "PUBLISHED"
      <3>1. spent' \in [Dispatchers -> BOOLEAN]
        BY <1>2, <2>3 DEF Dispatch
      <3>2. pc' = [pc EXCEPT ![d] = "reconcile"] /\ at' = [at EXCEPT ![d] = p]
        BY <1>2, <2>3 DEF Dispatch
      <3> QED
        BY <2>1, <3>1, <3>2
    <2> QED
      BY <2>2, <2>3
  <1>3. ASSUME NEW d \in Dispatchers, Reconcile(d) PROVE LocalTypeOK'
    BY <1>0, <1>3 DEF Reconcile
  <1>4. ASSUME NEW d \in Dispatchers, CheckEvaluation(d) PROVE LocalTypeOK'
    BY <1>0, <1>4 DEF CheckEvaluation
  <1>5. ASSUME NEW d \in Dispatchers, GiveUp(d) PROVE LocalTypeOK'
    BY <1>0, <1>5 DEF GiveUp
  <1>6. ASSUME NEW d \in Dispatchers, Claim(d) PROVE LocalTypeOK'
    BY <1>0, <1>6 DEF Claim
  <1>7. ASSUME NEW d \in Dispatchers, StartJob(d) PROVE LocalTypeOK'
    <2>1. CASE Startable(at[d])
      <3> DEFINE used == jobAttempts[at[d]] + 1 >= MaxAttempts
      <3>0. used \in BOOLEAN /\ spent' = [spent EXCEPT ![d] = used]
        BY <1>7, <2>1 DEF StartJob
      <3> HIDE DEF used
      <3>1. spent' \in [Dispatchers -> BOOLEAN]
        BY <3>0
      <3>2. pc' = [pc EXCEPT ![d] = "inbox"] /\ UNCHANGED <<at, listed, lost, code>>
        BY <1>7, <2>1 DEF StartJob
      <3> QED
        BY <3>1, <3>2
    <2>2. CASE ~Startable(at[d])
      BY <1>7, <2>2 DEF StartJob
    <2> QED
      BY <2>1, <2>2
  <1>8. ASSUME NEW d \in Dispatchers, StartInbox(d) PROVE LocalTypeOK'
    BY <1>8 DEF StartInbox
  <1>9. ASSUME NEW d \in Dispatchers, Prepare(d) PROVE LocalTypeOK'
    BY <1>9 DEF Prepare
  <1>10. ASSUME NEW d \in Dispatchers, Activate(d) PROVE LocalTypeOK'
    <2>1. Refusal(at[d]) # "none" => Refusal(at[d]) \in {"terminal", "transient"}
      BY DEF Refusal
    <2> QED
      BY <1>10, <2>1 DEF Activate
  <1>11. ASSUME NEW d \in Dispatchers, Complete(d) PROVE LocalTypeOK'
    <2>1. CASE Holds(d, at[d]) /\ ~lost[d]
      BY <1>0, <1>11, <2>1 DEF Complete
    <2>2. CASE ~(Holds(d, at[d]) /\ ~lost[d])
      BY <1>11, <2>2 DEF Complete
    <2> QED
      BY <2>1, <2>2
  <1>12. ASSUME NEW d \in Dispatchers, Catch(d) PROVE LocalTypeOK'
    <2>1. CASE lost[d] \/ active = at[d]
      BY <1>0, <1>12, <2>1 DEF Catch
    <2>2. CASE ~(lost[d] \/ active = at[d])
      BY <1>12, <2>2 DEF Catch
    <2> QED
      BY <2>1, <2>2
  <1>13. ASSUME NEW d \in Dispatchers, CompleteFailure(d) PROVE LocalTypeOK'
    BY <1>0, <1>13 DEF CompleteFailure
  <1>14. ASSUME NEW d \in Dispatchers, Renew(d) PROVE LocalTypeOK'
    BY <1>14 DEF Renew
  <1>15. ASSUME NEW d \in Dispatchers, Throw(d) PROVE LocalTypeOK'
    BY <1>15 DEF Throw
  <1>16. ASSUME NEW d \in Dispatchers, Crash(d) PROVE LocalTypeOK'
    BY <1>16 DEF Crash, Return
  <1>17. CASE UNCHANGED <<pc, at, listed, spent, lost, code>>
    BY <1>17
  <1> QED
    BY <1>1, <1>2, <1>3, <1>4, <1>5, <1>6, <1>7, <1>8, <1>9, <1>10, <1>11, <1>12, <1>13,
       <1>14, <1>15, <1>16, <1>17, LocalFrame DEF Next, Work, Outside, vars, local

\* The steps stay within the bounds of the model.
LEMMA StepBounds ==
  ASSUME BoundsOK, [Next]_vars
  PROVE  BoundsOK'
  <1>1. /\ faults' = faults \/ (faults < MaxFaults /\ faults' = faults + 1)
        /\ edits' = edits \/ (edits < MaxEdits /\ edits' = edits + 1)
    <2>1. ASSUME NEW p \in Publications, NEW op \in {"PUBLISH", "ROLLBACK"}, Request(p, op)
          PROVE  UNCHANGED <<faults, edits>>
      BY <2>1 DEF Request, world
    <2>2. CASE Outside
      BY <2>1, <2>2 DEF Outside, EvaluationEnds, LeaseRunsOut, Edit, EditTestCases, world
    <2>3. ASSUME NEW d \in Dispatchers, Work(d), ~Activate(d) PROVE UNCHANGED <<faults, edits>>
      BY <2>3 DEF Work, Drain, Dispatch, Reconcile, CheckEvaluation, GiveUp, Claim, StartJob,
         StartInbox, Prepare, Complete, Catch, CompleteFailure, world
    <2>4. ASSUME NEW d \in Dispatchers, Activate(d) \/ Renew(d) \/ Throw(d) \/ Crash(d)
          PROVE  /\ faults' = faults \/ (faults < MaxFaults /\ faults' = faults + 1)
                 /\ edits' = edits
      BY <2>4 DEF Activate, Renew, Throw, Crash, world
    <2> QED
      BY <2>2, <2>3, <2>4 DEF Next, Outside, vars, world
  <1> QED
    BY <1>1, PublicationAssumption DEF BoundsOK

\* A dispatcher that is at work has an event.
LEMMA StepAt ==
  ASSUME LocalTypeOK, AtFits, [Next]_vars
  PROVE  AtFits'
  <1> USE PublicationAssumption DEF LocalTypeOK, AtFits, GoTo, Fail
  <1>0. ASSUME NEW d \in Dispatchers, Return(d) PROVE AtFits'
    BY <1>0 DEF Return
  <1>1. ASSUME NEW d \in Dispatchers, NEW p \in Publications, Dispatch(d, p) PROVE AtFits'
    BY <1>1 DEF Dispatch
  <1>2. ASSUME NEW d \in Dispatchers, pc[d] # "idle", UNCHANGED at,
               NEW s, pc' = [pc EXCEPT ![d] = s]
        PROVE  AtFits'
    BY <1>2
  <1>3. ASSUME NEW d \in Dispatchers,
               Reconcile(d) \/ CheckEvaluation(d) \/ GiveUp(d) \/ Claim(d) \/ StartJob(d)
        PROVE  AtFits'
    BY <1>0, <1>2, <1>3 DEF Reconcile, CheckEvaluation, GiveUp, Claim, StartJob
  <1>4. ASSUME NEW d \in Dispatchers,
               StartInbox(d) \/ Prepare(d) \/ Activate(d) \/ Throw(d) \/ Crash(d)
        PROVE  AtFits'
    BY <1>0, <1>2, <1>4 DEF StartInbox, Prepare, Activate, Throw, Crash
  <1>5. ASSUME NEW d \in Dispatchers, Complete(d) \/ Catch(d) \/ CompleteFailure(d)
        PROVE  AtFits'
    BY <1>0, <1>2, <1>5 DEF Complete, Catch, CompleteFailure
  <1>6. CASE UNCHANGED <<pc, at>>
    BY <1>6
  <1>7. ASSUME NEW d \in Dispatchers, Drain(d) \/ Renew(d) PROVE UNCHANGED <<pc, at>>
    BY <1>7 DEF Drain, Renew
  <1> QED
    BY <1>1, <1>3, <1>4, <1>5, <1>6, <1>7, LocalFrame DEF Next, Work, Outside, vars, local

\* The fate of a publication: a step changes its status only as follows.
LEMMA StepStatus ==
  ASSUME RequestTypeOK, AtFits, PointerIsTheActiveOne, [Next]_vars, NEW q \in Publications
  PROVE  \/ status'[q] = status[q]
         \/ status[q] = "NONE" /\ status'[q] \in {"READY", "VALIDATING"}
         \/ status[q] = "VALIDATING" /\ status'[q] = "READY"
         \/ status[q] = "READY" /\ status'[q] \in {"FAILED", "ACTIVE"}
         \/ status[q] = "ACTIVE" /\ status'[q] \in {"SUPERSEDED", "ROLLED_BACK"}
  <1> USE DEF RequestTypeOK, AtFits
  <1>1. ASSUME NEW p \in Publications, NEW op \in {"PUBLISH", "ROLLBACK"}, Request(p, op)
        PROVE  status'[q] = status[q] \/ (status[q] = "NONE" /\ status'[q] \in {"READY", "VALIDATING"})
    BY <1>1 DEF Request
  <1>2. ASSUME NEW d \in Dispatchers, GiveUp(d) \/ CompleteFailure(d)
        PROVE  status'[q] = status[q] \/ (status[q] = "READY" /\ status'[q] = "FAILED")
    BY <1>2 DEF GiveUp, CompleteFailure, FailedUnlessElsewhere
  <1>3. ASSUME NEW d \in Dispatchers, Prepare(d)
        PROVE  status'[q] = status[q] \/ (status[q] = "VALIDATING" /\ status'[q] = "READY")
    BY <1>3 DEF Prepare, Preparable
  <1>4. ASSUME NEW d \in Dispatchers, Activate(d)
        PROVE  \/ status'[q] = status[q]
               \/ status[q] = "READY" /\ status'[q] = "ACTIVE"
               \/ status[q] = "ACTIVE" /\ status'[q] \in {"SUPERSEDED", "ROLLED_BACK"}
    BY <1>4 DEF Activate, Switched, Refusal
  <1>5. CASE UNCHANGED status
    BY <1>5
  <1> QED
    BY <1>1, <1>2, <1>3, <1>4, <1>5, RequestFrame
    DEF Next, Work, vars, EvaluationEnds, LeaseRunsOut, Edit, EditTestCases, request

\* Whoever is about to complete an event has found its publication activated.
LEMMA StepKnows ==
  ASSUME PublicationInv, [Next]_vars
  PROVE  CompleteKnows'
  <1> USE DEF PublicationInv, RequestTypeOK, LocalTypeOK, AtFits, CompleteKnows, GoTo, Fail
  <1>0. \A q \in Publications : status[q] \in Activated => status'[q] \in Activated
    BY StepStatus DEF PointerInv, Activated
  <1>1. ASSUME NEW d \in Dispatchers, NEW s, s # "complete", pc' = [pc EXCEPT ![d] = s],
               \A e \in Dispatchers \ {d} : at'[e] = at[e]
        PROVE  CompleteKnows'
    BY <1>0, <1>1
  <1>2. ASSUME NEW d \in Dispatchers, Activate(d) PROVE CompleteKnows'
    <2>1. CASE pc' = [pc EXCEPT ![d] = "complete"]
      <3>1. at' = at /\ at[d] \in Publications /\ status'[at[d]] = "ACTIVE"
        BY <1>2, <2>1 DEF Activate, Switched
      <3> QED
        BY <1>0, <2>1, <3>1 DEF Activated
    <2>2. CASE pc' = [pc EXCEPT ![d] = "caught"]
      BY <1>1, <1>2, <2>2 DEF Activate
    <2> QED
      BY <1>2, <2>1, <2>2 DEF Activate
  <1>3. ASSUME NEW d \in Dispatchers,
               Reconcile(d) \/ CheckEvaluation(d) \/ GiveUp(d) \/ Claim(d) \/ StartJob(d)
        PROVE  CompleteKnows'
    BY <1>1, <1>3 DEF Reconcile, CheckEvaluation, GiveUp, Claim, StartJob, Return
  <1>4. ASSUME NEW d \in Dispatchers,
               StartInbox(d) \/ Prepare(d) \/ Throw(d) \/ Crash(d)
        PROVE  CompleteKnows'
    BY <1>1, <1>4 DEF StartInbox, Prepare, Throw, Crash, Return
  <1>5. ASSUME NEW d \in Dispatchers, Complete(d) \/ Catch(d) \/ CompleteFailure(d)
        PROVE  CompleteKnows'
    BY <1>1, <1>5 DEF Complete, Catch, CompleteFailure, Return
  <1>6. CASE UNCHANGED <<pc, at>>
    BY <1>0, <1>6
  <1>7. ASSUME NEW d \in Dispatchers, NEW p \in Publications, Dispatch(d, p) PROVE CompleteKnows'
    BY <1>1, <1>6, <1>7 DEF Dispatch
  <1>8. ASSUME NEW d \in Dispatchers, Drain(d) \/ Renew(d) PROVE UNCHANGED <<pc, at>>
    BY <1>8 DEF Drain, Renew
  <1> QED
    BY <1>2, <1>3, <1>4, <1>5, <1>6, <1>7, <1>8, LocalFrame DEF Next, Work, Outside, vars, local

\* The event and its job end together, and PUBLISHED only after the activation.
LEMMA StepRecords ==
  ASSUME PublicationInv, [Next]_vars
  PROVE  PublishedWasActivated' /\ JobEndsWithItsEvent'
  <1> USE PublicationAssumption
      DEF PublicationInv, RequestTypeOK, RecordTypeOK, AtFits, CompleteKnows,
      PublishedWasActivated, JobEndsWithItsEvent, EventStatus, JobStatus, Settled
  <1>0. \A q \in Publications : status[q] \in Activated => status'[q] \in Activated
    BY StepStatus DEF PointerInv, Activated
  <1>1. ASSUME NEW p \in Publications, NEW op \in {"PUBLISH", "ROLLBACK"}, Request(p, op)
        PROVE  PublishedWasActivated' /\ JobEndsWithItsEvent'
    BY <1>0, <1>1 DEF Request
  <1>2. CASE UNCHANGED <<event, job>>
    BY <1>0, <1>2
  <1>3. ASSUME NEW p \in Publications, status[p] \in Activated,
               event' = [event EXCEPT ![p] = "PUBLISHED"], job' = [job EXCEPT ![p] = "SUCCEEDED"]
        PROVE  PublishedWasActivated' /\ JobEndsWithItsEvent'
    BY <1>0, <1>3
  <1>4. ASSUME NEW p \in Publications,
               event' = [event EXCEPT ![p] = "DEAD_LETTER"], job' = [job EXCEPT ![p] = "DEAD_LETTER"]
        PROVE  PublishedWasActivated' /\ JobEndsWithItsEvent'
    BY <1>0, <1>4
  <1>5. ASSUME NEW p \in Publications, event[p] \notin Settled, NEW s \in EventStatus \ Settled,
               event' = [event EXCEPT ![p] = s], UNCHANGED job
        PROVE  PublishedWasActivated' /\ JobEndsWithItsEvent'
    BY <1>0, <1>5
  <1>6. ASSUME NEW d \in Dispatchers, Reconcile(d)
        PROVE  PublishedWasActivated' /\ JobEndsWithItsEvent'
    BY <1>2, <1>3, <1>6 DEF Reconcile, Committed
  <1>7. ASSUME NEW d \in Dispatchers, GiveUp(d)
        PROVE  PublishedWasActivated' /\ JobEndsWithItsEvent'
    BY <1>2, <1>4, <1>7 DEF GiveUp
  <1>8. ASSUME NEW d \in Dispatchers, Claim(d)
        PROVE  PublishedWasActivated' /\ JobEndsWithItsEvent'
    BY <1>2, <1>5, <1>8 DEF Claim, Listable, records
  <1>9. ASSUME NEW d \in Dispatchers, StartJob(d)
        PROVE  PublishedWasActivated' /\ JobEndsWithItsEvent'
    BY <1>0, <1>9 DEF StartJob, Startable, row
  <1>10. ASSUME NEW d \in Dispatchers, Complete(d)
         PROVE  PublishedWasActivated' /\ JobEndsWithItsEvent'
    <2>1. at[d] \in Publications /\ status[at[d]] \in Activated
      BY <1>10 DEF Complete
    <2> QED
      BY <1>2, <1>3, <1>10, <2>1 DEF Complete
  <1>11. ASSUME NEW d \in Dispatchers, CompleteFailure(d)
         PROVE  PublishedWasActivated' /\ JobEndsWithItsEvent'
    <2> DEFINE terminal == code[d] = "terminal" \/ spent[d]
    <2>1. CASE ~Holds(d, at[d])
      BY <1>2, <1>11, <2>1 DEF CompleteFailure
    <2>2. CASE Holds(d, at[d]) /\ terminal
      BY <1>4, <1>11, <2>2 DEF CompleteFailure
    <2>3. CASE Holds(d, at[d]) /\ ~terminal
      <3>1. /\ at[d] \in Publications /\ event[at[d]] = "PUBLISHING"
            /\ event' = [event EXCEPT ![at[d]] = "FAILED"]
            /\ job' = [job EXCEPT ![at[d]] = "RETRY_SCHEDULED"]
        BY <1>11, <2>3 DEF CompleteFailure, Holds
      <3> QED
        BY <1>0, <3>1
    <2> QED
      BY <2>1, <2>2, <2>3
  <1>12. ASSUME NEW d \in Dispatchers, StartInbox(d) \/ Renew(d) PROVE UNCHANGED <<event, job>>
    BY <1>12 DEF StartInbox, Renew, row, records
  <1>13. ASSUME NEW p \in Publications, LeaseRunsOut(p) PROVE UNCHANGED <<event, job>>
    BY <1>13 DEF LeaseRunsOut, records
  <1> QED
    BY <1>1, <1>2, <1>6, <1>7, <1>8, <1>9, <1>10, <1>11, <1>12, <1>13, RecordFrame,
       OutsideRecordFrame DEF Next, Work, Outside, vars, row, records

\* A step that leaves every status as it is, or moves a publication between
\* statuses before its activation, and leaves pointer and bases alone, keeps
\* what is said of the pointer.
LEMMA PointerUntouched ==
  ASSUME RequestTypeOK, PointerInv, UNCHANGED <<base, active>>,
         \A p \in Publications :
            \/ status'[p] = status[p]
            \/ status[p] \notin Activated /\ status'[p] \notin Activated
  PROVE  PointerInv'
  BY DEF RequestTypeOK, PointerInv, PointerIsTheActiveOne, BaseWasActive, BaseIsPassed,
     OneSuccessorPerBase, Activated

\* The activation is a compare-and-swap of the pointer.
LEMMA StepPointer ==
  ASSUME PublicationInv, [Next]_vars
  PROVE  PointerInv'
  <1> USE PublicationAssumption DEF PublicationInv, AtFits
  <1>1. ASSUME NEW p \in Publications, NEW op \in {"PUBLISH", "ROLLBACK"}, Request(p, op)
        PROVE  PointerInv'
    BY <1>1 DEF Request, RequestTypeOK, PointerInv, PointerIsTheActiveOne, BaseWasActive,
       BaseIsPassed, OneSuccessorPerBase, Activated
  <1>2. ASSUME NEW d \in Dispatchers, GiveUp(d) \/ Prepare(d) \/ CompleteFailure(d)
        PROVE  PointerInv'
    <2>1. UNCHANGED <<base, active>>
      BY <1>2 DEF GiveUp, Prepare, CompleteFailure
    <2>2. \A q \in Publications : status'[q] # status[q] =>
             status[q] \in {"READY", "VALIDATING"} /\ status'[q] \in {"READY", "FAILED"}
      BY <1>2 DEF GiveUp, Prepare, Preparable, CompleteFailure, FailedUnlessElsewhere, RequestTypeOK
    <2> QED
      BY <2>1, <2>2, PointerUntouched DEF Activated
  <1>3. ASSUME NEW d \in Dispatchers, Activate(d) PROVE PointerInv'
    <2>1. CASE UNCHANGED <<status, active>>
      BY <1>3, <2>1, PointerUntouched DEF Activate
    <2>2. CASE ~UNCHANGED <<status, active>>
      <3>1. PICK p \in Publications : p = at[d]
        BY <1>3 DEF Activate
      <3>2. /\ active # p /\ status[p] = "READY" /\ base[p] = active
            /\ status' = Switched(p) /\ active' = p /\ UNCHANGED base
        BY <1>3, <2>2, <3>1 DEF Activate, Refusal
      <3>3. /\ status'[p] = "ACTIVE"
            /\ \A q \in Publications \ {p} :
                 /\ status'[q] # "ACTIVE"
                 /\ status'[q] \in Activated <=> status[q] \in Activated
        BY <3>2 DEF Switched, PointerInv, PointerIsTheActiveOne, RequestTypeOK, Activated
      <3>4. PointerIsTheActiveOne'
        BY <3>2, <3>3 DEF PointerIsTheActiveOne
      <3>5. BaseWasActive'
        BY <3>2, <3>3 DEF BaseWasActive, PointerInv, RequestTypeOK, Activated
      <3>6. BaseIsPassed'
        BY <3>2, <3>3 DEF BaseIsPassed, BaseWasActive, PointerInv, RequestTypeOK, Activated
      <3>7. OneSuccessorPerBase'
        BY <3>2, <3>3 DEF OneSuccessorPerBase, BaseIsPassed, PointerInv, Activated
      <3> QED
        BY <3>4, <3>5, <3>6, <3>7 DEF PointerInv
    <2> QED
      BY <2>1, <2>2
  <1>4. CASE UNCHANGED <<base, status, active>>
    BY <1>4, PointerUntouched
  <1> QED
    BY <1>1, <1>2, <1>3, <1>4, RequestFrame
    DEF Next, Work, vars, EvaluationEnds, LeaseRunsOut, Edit, EditTestCases, request

\* Every step of a request, a dispatcher or the world keeps the invariant.
LEMMA PublicationStepInv == PublicationInv /\ [Next]_vars => PublicationInv'
  <1> SUFFICES ASSUME PublicationInv, [Next]_vars PROVE PublicationInv'
    OBVIOUS
  <1>1. RequestTypeOK' /\ RecordTypeOK' /\ LocalTypeOK' /\ BoundsOK'
    BY StepRequestType, StepRecordType, StepLocalType, StepBounds DEF PublicationInv
  <1>2. AtFits' /\ CompleteKnows'
    BY StepAt, StepKnows DEF PublicationInv
  <1>3. PublishedWasActivated' /\ JobEndsWithItsEvent' /\ PointerInv'
    BY StepRecords, StepPointer
  <1> QED
    BY <1>1, <1>2, <1>3 DEF PublicationInv

\* The inductive invariant holds in every reachable state.
LEMMA PublicationAlways == Spec => []PublicationInv
  BY PublicationInitInv, PublicationStepInv, PTL DEF Spec

-----------------------------------------------------------------------------

\* The records are well typed, an event is PUBLISHED only after its publication
\* was activated, and it ends together with its job (dispatch, completeFailure,
\* failWithoutClaim, reconcileCommittedActivation).
THEOREM PublicationSafety == Spec => []PublicationInvariant
  <1>1. PublicationInv => PublicationInvariant
    BY DEF PublicationInv, PublicationInvariant, PublicationTypeOK, RequestTypeOK, RecordTypeOK,
       LocalTypeOK, BoundsOK
  <1> QED
    BY <1>1, PublicationAlways, PTL

\* The pointer names the one and only ACTIVE publication (activatePublication).
THEOREM PointerSafety == Spec => []PointerIsTheActiveOne
  <1>1. PublicationInv => PointerIsTheActiveOne
    BY DEF PublicationInv, PointerInv
  <1> QED
    BY <1>1, PublicationAlways, PTL

\* Of the requests made over one active publication at most one is ever
\* activated (the comparison with baseActivePublicationId in activatePublication).
THEOREM ActivationIsCompareAndSwap == Spec => []OneSuccessorPerBase
  <1>1. PublicationInv => OneSuccessorPerBase
    BY DEF PublicationInv, PointerInv
  <1> QED
    BY <1>1, PublicationAlways, PTL

\* A failed publication is never activated, an activated one never fails, and
\* one that was replaced stays replaced, whichever late dispatchers there are.
THEOREM FatesAreFinal == Spec => FateIsFinal
  <1>1. ASSUME PublicationInv, [Next]_vars
        PROVE  \A p \in Publications :
                 /\ status[p] = "FAILED" => status'[p] = "FAILED"
                 /\ status[p] \in Activated => status'[p] \in Activated
                 /\ status[p] \in {"SUPERSEDED", "ROLLED_BACK"} => status'[p] = status[p]
    BY <1>1, StepStatus DEF PublicationInv, PointerInv, Activated
  <1>2. PublicationInv /\ [Next]_vars =>
          [\A p \in Publications :
                 /\ status[p] = "FAILED" => status'[p] = "FAILED"
                 /\ status[p] \in Activated => status'[p] \in Activated
                 /\ status[p] \in {"SUPERSEDED", "ROLLED_BACK"} => status'[p] = status[p]]_vars
    BY <1>1
  <1> QED
    BY <1>2, PublicationAlways, PTL DEF Spec, FateIsFinal

=============================================================================
