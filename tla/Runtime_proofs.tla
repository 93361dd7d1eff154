--------------------------- MODULE Runtime_proofs ---------------------------
(***************************************************************************)
(* Proofs about the runtime queue, for any number of events, dispatch      *)
(* calls, workers, attempts and faults: first the producing side,          *)
(* RuntimeOutbox with its abstract consumer, then its composition with the *)
(* workers, RuntimeInbox.                                                  *)
(***************************************************************************)
EXTENDS RuntimeInbox, TLAPS

\* What a running dispatch call knows of its row: the part of the argument
\* that no single property mentions.
CallKnowsItsRow ==
    \A c \in Calls :
        /\ pc[c] = "idle" => seen[c] = 0
        /\ pc[c] # "idle" =>
              /\ event[c] \in Events
              /\ status[event[c]] # "NONE"
              /\ pc[c] = "added" => jobs[event[c]] # "absent"
              /\ seen[c] <= attemptCount[event[c]]

\* Nothing is queued for an event that was never created.
QueuedWasCreated == \A e \in Events : status[e] = "NONE" => jobs[e] = "absent"

\* The inductive invariant.
OutboxInv ==
    /\ OutboxTypeOK
    /\ LockBelongsToWorker
    /\ PublishedWasQueued
    /\ DeadLetterClosesWork
    /\ GivenUpForCause
    /\ CallKnowsItsRow
    /\ QueuedWasCreated

-----------------------------------------------------------------------------

\* The initial state has no rows, so nothing can be wrong with them.
LEMMA OutboxInitInv == OutboxInit => OutboxInv
  BY OutboxAssumption
  DEF OutboxInit, OutboxInv, OutboxTypeOK, LockBelongsToWorker, PublishedWasQueued,
      DeadLetterClosesWork, GivenUpForCause, CallKnowsItsRow, QueuedWasCreated,
      RowStatus, WorkStatus, JobStatus, CallStep

\* Every step of a producer, a dispatch call, a timer or the consumer keeps
\* the invariant.
LEMMA OutboxStepInv == OutboxInv /\ [OutboxNext]_outboxVars => OutboxInv'
  <1> SUFFICES ASSUME OutboxInv, [OutboxNext]_outboxVars PROVE OutboxInv'
    OBVIOUS
  <1> USE OutboxAssumption DEF OutboxInv, OutboxTypeOK, LockBelongsToWorker,
      PublishedWasQueued, DeadLetterClosesWork, GivenUpForCause, CallKnowsItsRow,
      QueuedWasCreated, rowVars, lockVars, callVars, Return, GoTo, Release,
      RowStatus, WorkStatus, JobStatus, CallStep
  <1>1. ASSUME NEW e \in Events, CreateEvent(e) PROVE OutboxInv'
    BY <1>1 DEF CreateEvent
  <1>2. ASSUME NEW c \in Calls, NEW e \in Events, Claim(c, e) PROVE OutboxInv'
    <2>1. Increment(attemptCount[e]) \in 0..MaxAttempts
          /\ attemptCount[e] <= Increment(attemptCount[e])
      BY DEF Increment
    <2>2. OutboxTypeOK'
      BY <1>2, <2>1 DEF Claim
    <2>3. CallKnowsItsRow'
      <3>1. /\ pc' = [pc EXCEPT ![c] = "claimed"] /\ event' = [event EXCEPT ![c] = e]
            /\ status' = [status EXCEPT ![e] = "PUBLISHING"]
            /\ attemptCount' = [attemptCount EXCEPT ![e] = Increment(attemptCount[e])]
            /\ UNCHANGED <<jobs, seen>>
        BY <1>2 DEF Claim
      <3>2. \A f \in Events : attemptCount[f] <= attemptCount'[f]
        BY <2>1, <3>1
      <3>3. \A d \in Calls : d # c /\ pc[d] # "idle" =>
              seen'[d] <= attemptCount'[event'[d]] /\ event'[d] \in Events
        BY <3>1, <3>2, <2>2
      <3>4. seen'[c] <= attemptCount'[event'[c]]
        BY <1>2, <3>1, <3>2, <2>2 DEF Claim
      <3> QED
        BY <3>1, <3>3, <3>4
    <2>4. LockBelongsToWorker'
      BY <1>2 DEF Claim
    <2>5. PublishedWasQueued' /\ DeadLetterClosesWork' /\ QueuedWasCreated'
      BY <1>2 DEF Claim
    <2>6. GivenUpForCause'
      BY <1>2, <2>1 DEF Claim
    <2> QED
      BY <2>2, <2>3, <2>4, <2>5, <2>6
  <1>3. ASSUME NEW c \in Calls, ReadEvent(c) PROVE OutboxInv'
    BY <1>3 DEF ReadEvent
  <1>4. ASSUME NEW c \in Calls, RenewLease(c) PROVE OutboxInv'
    <2>1. CASE Holds(c, event[c])
      <3>1. /\ leased' = [leased EXCEPT ![event[c]] = TRUE]
            /\ UNCHANGED <<status, attemptCount, due, lockedBy, late, work, jobs, callVars, revoked, faults>>
        BY <1>4, <2>1 DEF RenewLease
      <3>2. OutboxTypeOK'
        BY <3>1
      <3> QED
        BY <3>1, <3>2
    <2>2. CASE ~Holds(c, event[c])
      <3>1. /\ leaseLost' = [leaseLost EXCEPT ![c] = TRUE]
            /\ UNCHANGED <<rowVars, work, jobs, pc, event, seen, revoked, faults>>
        BY <1>4, <2>2 DEF RenewLease
      <3>2. OutboxTypeOK'
        BY <3>1
      <3> QED
        BY <3>1, <3>2
    <2> QED
      BY <2>1, <2>2
  <1>5. ASSUME NEW c \in Calls, RenewError(c) PROVE OutboxInv'
    BY <1>5 DEF RenewError, Fault
  <1>6. ASSUME NEW c \in Calls, QueueAdd(c) PROVE OutboxInv'
    BY <1>6 DEF QueueAdd, Accept
  <1>7. ASSUME NEW c \in Calls, QueueAddError(c) PROVE OutboxInv'
    BY <1>7 DEF QueueAddError, Accept
  <1>8. ASSUME NEW c \in Calls, MarkPublished(c) PROVE OutboxInv'
    <2>1. CASE ~leaseLost[c] /\ Holds(c, event[c])
      <3>1. /\ pc[c] = "added" /\ event[c] \in Events /\ jobs[event[c]] # "absent"
            /\ Release(event[c], "PUBLISHED") /\ Return(c)
            /\ UNCHANGED <<due, work, jobs, revoked, faults>>
        BY <1>8, <2>1 DEF MarkPublished
      <3>2. OutboxTypeOK'
        BY <3>1
      <3>3. LockBelongsToWorker'
        BY <3>1, <2>1 DEF Holds
      <3>4. PublishedWasQueued' /\ QueuedWasCreated' /\ DeadLetterClosesWork' /\ GivenUpForCause'
        BY <3>1
      <3>5. CallKnowsItsRow'
        BY <3>1
      <3> QED
        BY <3>2, <3>3, <3>4, <3>5
    <2>2. CASE ~(~leaseLost[c] /\ Holds(c, event[c]))
      BY <1>8, <2>2 DEF MarkPublished
    <2> QED
      BY <2>1, <2>2
  <1>9. ASSUME NEW c \in Calls, MarkError(c) PROVE OutboxInv'
    BY <1>9 DEF MarkError
  <1>10. ASSUME NEW c \in Calls, FailClaimedEvent(c) PROVE OutboxInv'
    <2>1. CASE Holds(c, event[c])
      <3> DEFINE outcome == IF Terminal(c) THEN "DEAD_LETTER" ELSE "FAILED"
      <3>1. /\ outcome \in {"DEAD_LETTER", "FAILED"}
            /\ outcome = "DEAD_LETTER" <=> Terminal(c)
        OBVIOUS
      <3>2. /\ pc[c] = "failing" /\ event[c] \in Events
            /\ Release(event[c], outcome) /\ Return(c)
            /\ due' = [due EXCEPT ![event[c]] = FALSE]
            /\ work' = IF Terminal(c) THEN CloseWork(event[c]) ELSE work
            /\ UNCHANGED <<jobs, revoked, faults>>
        BY <1>10, <2>1 DEF FailClaimedEvent
      <3>3. Terminal(c) => late[event[c]] \/ attemptCount[event[c]] = MaxAttempts
        <4>1. /\ seen[c] \in 0..MaxAttempts /\ attemptCount[event[c]] \in 0..MaxAttempts
              /\ seen[c] <= attemptCount[event[c]]
          BY <3>2
        <4> QED
          BY <4>1 DEF Terminal
      <3> HIDE DEF outcome
      <3>4. OutboxTypeOK'
        BY <3>1, <3>2 DEF CloseWork
      <3>5. LockBelongsToWorker'
        BY <3>2, <3>1, <2>1 DEF Holds
      <3>6. DeadLetterClosesWork'
        BY <3>1, <3>2 DEF CloseWork
      <3>7. PublishedWasQueued' /\ QueuedWasCreated'
        BY <3>1, <3>2
      <3>8. GivenUpForCause'
        BY <3>1, <3>2, <3>3
      <3>9. CallKnowsItsRow'
        BY <3>1, <3>2
      <3> QED
        BY <3>4, <3>5, <3>6, <3>7, <3>8, <3>9
    <2>2. CASE ~Holds(c, event[c])
      BY <1>10, <2>2 DEF FailClaimedEvent, Holds
    <2> QED
      BY <2>1, <2>2
  <1>11. ASSUME NEW c \in Calls, Crash(c) PROVE OutboxInv'
    BY <1>11 DEF Crash, Fault
  <1>12. ASSUME NEW e \in Events, BackoffElapses(e) PROVE OutboxInv'
    BY <1>12 DEF BackoffElapses
  <1>13. ASSUME NEW e \in Events, OrphanLeaseExpires(e) PROVE OutboxInv'
    BY <1>13 DEF OrphanLeaseExpires
  <1>14. ASSUME NEW e \in Events, HeldLeaseExpires(e) PROVE OutboxInv'
    BY <1>14 DEF HeldLeaseExpires, Fault
  <1>15. ASSUME NEW e \in Events, DeadlinePasses(e) PROVE OutboxInv'
    BY <1>15 DEF DeadlinePasses
  <1>16. ASSUME NEW e \in Events, Consume(e) PROVE OutboxInv'
    BY <1>16 DEF Consume
  <1>17. ASSUME NEW e \in Events, FencePendingAiReply(e) PROVE OutboxInv'
    <2>1. /\ e \in Replies /\ status[e] # "NONE" /\ UNCHANGED <<due, jobs, callVars, faults>>
          /\ work' = IF work[e] = "OPEN" THEN [work EXCEPT ![e] = "DEAD"] ELSE work
      BY <1>17 DEF FencePendingAiReply
    <2>2. \A f \in Events : work'[f] \in WorkStatus /\ (work[f] # "OPEN" => work'[f] # "OPEN")
      BY <2>1
    <2>3. CASE status[e] \in {"PENDING", "PUBLISHING", "FAILED"}
      <3>1. Release(e, "DEAD_LETTER") /\ revoked' = revoked \cup {e}
        BY <1>17, <2>3 DEF FencePendingAiReply
      <3>2. OutboxTypeOK'
        BY <2>1, <2>2, <3>1
      <3>3. LockBelongsToWorker' /\ PublishedWasQueued' /\ QueuedWasCreated'
        BY <2>1, <3>1
      <3>4. DeadLetterClosesWork'
        BY <2>1, <2>2, <3>1
      <3>5. GivenUpForCause'
        BY <2>1, <3>1
      <3>6. CallKnowsItsRow'
        BY <2>1, <3>1
      <3> QED
        BY <3>2, <3>3, <3>4, <3>5, <3>6
    <2>4. CASE status[e] \notin {"PENDING", "PUBLISHING", "FAILED"}
      <3>1. UNCHANGED <<status, attemptCount, lockVars, late, revoked>>
        BY <1>17, <2>4 DEF FencePendingAiReply
      <3>2. OutboxTypeOK'
        BY <2>1, <2>2, <3>1
      <3>3. DeadLetterClosesWork'
        BY <2>2, <3>1
      <3> QED
        BY <2>1, <3>1, <3>2, <3>3
    <2> QED
      BY <2>3, <2>4
  <1>18. CASE UNCHANGED outboxVars
    BY <1>18 DEF outboxVars
  <1> QED
    BY <1>1, <1>2, <1>3, <1>4, <1>5, <1>6, <1>7, <1>8, <1>9, <1>10, <1>11, <1>12,
       <1>13, <1>14, <1>15, <1>16, <1>17, <1>18
    DEF OutboxNext, DispatcherNext, Dispatch, Timers

\* The type invariant and the four safety invariants of the outbox hold in
\* every behaviour of the dispatchers: a published event was queued, a dead
\* letter closed its business object and was given up for cause, and a lock
\* belongs to a call that is working (dispatch, failClaimedEvent).
THEOREM OutboxSafety ==
    OutboxSpec => [](/\ OutboxTypeOK /\ PublishedWasQueued /\ DeadLetterClosesWork
                     /\ GivenUpForCause /\ LockBelongsToWorker)
  <1>1. OutboxSpec => []OutboxInv
    BY OutboxInitInv, OutboxStepInv, PTL DEF OutboxSpec
  <1>2. OutboxInv => /\ OutboxTypeOK /\ PublishedWasQueued /\ DeadLetterClosesWork
                     /\ GivenUpForCause /\ LockBelongsToWorker
    BY DEF OutboxInv
  <1> QED
    BY <1>1, <1>2, PTL

\* A row that is PUBLISHED or DEAD_LETTER keeps its status for ever: the
\* lockedBy guards keep every stale dispatch call out (dispatch).
THEOREM OutboxSettled == OutboxSpec => SettledRowsStaySettled
  <1>1. ASSUME OutboxInv, [OutboxNext]_outboxVars,
               NEW e \in Events, status[e] \in {"PUBLISHED", "DEAD_LETTER"}
        PROVE  status'[e] = status[e]
    <2> USE <1>1 DEF rowVars, lockVars, GoTo, Release, OutboxInv, OutboxTypeOK, CallKnowsItsRow
    <2>1. CASE \E c \in Calls, f \in Events : Claim(c, f)
      BY <2>1 DEF Claim, Claimable
    <2>2. CASE \E c \in Calls : MarkPublished(c) \/ FailClaimedEvent(c)
      BY <2>2 DEF MarkPublished, FailClaimedEvent, Holds
    <2>3. CASE \E f \in Events : CreateEvent(f)
      BY <2>3 DEF CreateEvent
    <2>4. CASE \E f \in Events : FencePendingAiReply(f)
      BY <2>4 DEF FencePendingAiReply
    <2>5. CASE UNCHANGED status
      BY <2>5
    <2> QED
      BY <2>1, <2>2, <2>3, <2>4, <2>5 DEF OutboxNext, DispatcherNext, Dispatch, Timers, outboxVars,
         ReadEvent, RenewLease, RenewError, QueueAdd, QueueAddError, MarkError, Crash,
         BackoffElapses, OrphanLeaseExpires, HeldLeaseExpires, DeadlinePasses, Consume
  <1>2. OutboxInv /\ [OutboxNext]_outboxVars =>
          [\A e \in Events : status[e] \in {"PUBLISHED", "DEAD_LETTER"} =>
              status'[e] = status[e]]_outboxVars
    BY <1>1
  <1> QED
    BY <1>2, OutboxInitInv, OutboxStepInv, PTL DEF OutboxSpec, SettledRowsStaySettled

-----------------------------------------------------------------------------
(* Refinement.                                                             *)

\* The refinement mapping, named so that the steps below can mention it.
AbsState == [e \in Events |-> DeliveryState(status[e])]
AbsHanded == [e \in Events |-> jobs[e] # "absent"]
AbsOpen == [e \in Events |-> work[e] = "OPEN"]

\* The abstract state of a row, case by case.
LEMMA DeliveryStates ==
    /\ DeliveryState("NONE") = "none"
    /\ DeliveryState("PUBLISHED") = "delivered"
    /\ DeliveryState("DEAD_LETTER") = "abandoned"
    /\ DeliveryState("PENDING") = "requested"
    /\ DeliveryState("PUBLISHING") = "requested"
    /\ DeliveryState("FAILED") = "requested"
  BY DEF DeliveryState

\* A step that changes one row from one abstract state to the same one, and
\* neither queues a job nor closes an object, is invisible.
LEMMA InvisibleRowStep ==
  ASSUME OutboxInv, UNCHANGED <<jobs, work>>, NEW e \in Events, NEW s \in RowStatus,
         status' = [status EXCEPT ![e] = s],
         DeliveryState(s) = DeliveryState(status[e])
  PROVE  UNCHANGED Delivery!deliveryVars
  <1>1. \A f \in Events : DeliveryState(status'[f]) = DeliveryState(status[f])
    BY DEF OutboxInv, OutboxTypeOK
  <1>2. AbsState' = AbsState /\ AbsHanded' = AbsHanded /\ AbsOpen' = AbsOpen
    BY <1>1 DEF AbsState, AbsHanded, AbsOpen
  <1> QED
    BY <1>2 DEF Delivery!deliveryVars, AbsState, AbsHanded, AbsOpen

\* Every step of the outbox is a step of EventDelivery or invisible to it.
LEMMA OutboxStepSimulates ==
    OutboxInv /\ [OutboxNext]_outboxVars => [Delivery!Next]_(Delivery!deliveryVars)
  <1> SUFFICES ASSUME OutboxInv, [OutboxNext]_outboxVars
               PROVE  Delivery!Next \/ UNCHANGED Delivery!deliveryVars
    OBVIOUS
  <1> USE OutboxAssumption DEF OutboxInv, OutboxTypeOK, rowVars, lockVars, Release
  <1>1. ASSUME NEW e \in Events, CreateEvent(e) PROVE Delivery!Request(e)
    BY <1>1, DeliveryStates DEF CreateEvent, Delivery!Request
  <1>2. ASSUME NEW c \in Calls, NEW e \in Events, Claim(c, e)
        PROVE  UNCHANGED Delivery!deliveryVars
    <2>1. /\ status' = [status EXCEPT ![e] = "PUBLISHING"] /\ UNCHANGED <<jobs, work>>
          /\ status[e] \in {"PENDING", "FAILED", "PUBLISHING"}
      BY <1>2 DEF Claim, Claimable
    <2>2. DeliveryState("PUBLISHING") = DeliveryState(status[e])
      BY <2>1, DeliveryStates
    <2> QED
      BY <2>1, <2>2, InvisibleRowStep DEF RowStatus
  <1>3. ASSUME NEW e \in Events, Accept(e), UNCHANGED <<status, work>>, status[e] # "NONE"
        PROVE  Delivery!HandOver(e)
    <2>1. DeliveryState(status[e]) # "none"
      BY <1>3, DeliveryStates DEF RowStatus
    <2>2. AbsHanded' = [AbsHanded EXCEPT ![e] = TRUE]
      BY <1>3 DEF AbsHanded, Accept, JobStatus
    <2> QED
      BY <1>3, <2>1, <2>2 DEF Delivery!HandOver, AbsHanded
  <1>4. ASSUME NEW c \in Calls, MarkPublished(c)
        PROVE  Delivery!Next \/ UNCHANGED Delivery!deliveryVars
    <2>1. CASE ~leaseLost[c] /\ Holds(c, event[c])
      <3>1. PICK e \in Events : e = event[c]
        BY <1>4 DEF MarkPublished, CallKnowsItsRow
      <3>2. /\ jobs[e] # "absent"
            /\ status[e] = "PUBLISHING"
            /\ status' = [status EXCEPT ![e] = "PUBLISHED"]
            /\ UNCHANGED <<jobs, work>>
        BY <1>4, <2>1, <3>1 DEF MarkPublished, Holds, CallKnowsItsRow
      <3>3. Delivery!Deliver(e)
        BY <3>2, DeliveryStates DEF Delivery!Deliver
      <3> QED
        BY <3>3 DEF Delivery!Next
    <2>2. CASE ~(~leaseLost[c] /\ Holds(c, event[c]))
      BY <1>4, <2>2 DEF MarkPublished, Delivery!deliveryVars
    <2> QED
      BY <2>1, <2>2
  <1>5. ASSUME NEW c \in Calls, FailClaimedEvent(c)
        PROVE  Delivery!Next \/ UNCHANGED Delivery!deliveryVars
    <2>1. CASE Holds(c, event[c]) /\ Terminal(c)
      <3>1. PICK e \in Events : e = event[c]
        BY <1>5 DEF FailClaimedEvent, CallKnowsItsRow
      <3>2. /\ status[e] = "PUBLISHING"
            /\ status' = [status EXCEPT ![e] = "DEAD_LETTER"]
            /\ work' = CloseWork(e)
            /\ UNCHANGED jobs
        BY <1>5, <2>1, <3>1 DEF FailClaimedEvent, Holds
      <3>3. AbsOpen' = IF e \in Cascading THEN [AbsOpen EXCEPT ![e] = FALSE] ELSE AbsOpen
        BY <3>2 DEF AbsOpen, CloseWork
      <3>4. Delivery!Abandon(e)
        BY <3>2, <3>3, DeliveryStates DEF Delivery!Abandon, AbsOpen
      <3> QED
        BY <3>4 DEF Delivery!Next
    <2>2. CASE Holds(c, event[c]) /\ ~Terminal(c)
      <3>1. /\ event[c] \in Events
            /\ status[event[c]] = "PUBLISHING"
            /\ status' = [status EXCEPT ![event[c]] = "FAILED"]
            /\ UNCHANGED <<jobs, work>>
        BY <1>5, <2>2 DEF FailClaimedEvent, Holds, CallKnowsItsRow
      <3>2. DeliveryState("FAILED") = DeliveryState(status[event[c]])
        BY <3>1, DeliveryStates
      <3> QED
        BY <3>1, <3>2, InvisibleRowStep DEF RowStatus
    <2>3. CASE ~Holds(c, event[c])
      BY <1>5, <2>3 DEF FailClaimedEvent, Delivery!deliveryVars
    <2> QED
      BY <2>1, <2>2, <2>3
  <1>6. ASSUME NEW e \in Events, Consume(e)
        PROVE  Delivery!Close(e) \/ UNCHANGED Delivery!deliveryVars
    <2>1. AbsHanded' = AbsHanded /\ AbsState' = AbsState /\ AbsHanded[e]
      <3>1. /\ UNCHANGED status /\ jobs[e] # "absent"
            /\ \A f \in Events : jobs'[f] # "absent" <=> jobs[f] # "absent"
        BY <1>6 DEF Consume
      <3> QED
        BY <3>1 DEF AbsHanded, AbsState
    <2>2. AbsOpen' = [AbsOpen EXCEPT ![e] = FALSE] \/ AbsOpen' = AbsOpen
      <3>1. PICK w \in {work[e], "DONE", "DEAD"} : work' = [work EXCEPT ![e] = w]
        BY <1>6 DEF Consume
      <3>2. CASE w = work[e]
        BY <3>1, <3>2 DEF AbsOpen
      <3>3. CASE w \in {"DONE", "DEAD"}
        <4>1. \A f \in Events : (work'[f] = "OPEN") = (IF f = e THEN FALSE ELSE work[f] = "OPEN")
          BY <3>1, <3>3
        <4>2. AbsOpen' = [f \in Events |-> IF f = e THEN FALSE ELSE work[f] = "OPEN"]
          BY <4>1 DEF AbsOpen
        <4> QED
          BY <4>2 DEF AbsOpen
      <3> QED
        BY <3>2, <3>3
    <2> QED
      BY <2>1, <2>2 DEF Delivery!Close, Delivery!deliveryVars, AbsHanded, AbsState, AbsOpen
  <1>7. ASSUME NEW c \in Calls, QueueAdd(c) \/ QueueAddError(c)
        PROVE  Delivery!Next \/ UNCHANGED Delivery!deliveryVars
    <2>1. PICK e \in Events : e = event[c]
      BY <1>7 DEF QueueAdd, QueueAddError, CallKnowsItsRow
    <2>2. /\ status[e] # "NONE"
          /\ UNCHANGED <<status, work>>
          /\ Accept(e) \/ UNCHANGED jobs
      BY <1>7, <2>1 DEF QueueAdd, QueueAddError, CallKnowsItsRow, Accept
    <2>3. CASE Accept(e)
      BY <2>2, <2>3, <1>3 DEF Delivery!Next
    <2>4. CASE UNCHANGED jobs
      BY <2>2, <2>4 DEF Delivery!deliveryVars
    <2> QED
      BY <2>2, <2>3, <2>4
  <1>8. CASE UNCHANGED <<status, jobs, work>>
    BY <1>8 DEF Delivery!deliveryVars
  <1>9. ASSUME NEW c \in Calls,
               ReadEvent(c) \/ RenewLease(c) \/ RenewError(c) \/ MarkError(c) \/ Crash(c)
        PROVE  UNCHANGED <<status, jobs, work>>
    BY <1>9 DEF ReadEvent, RenewLease, RenewError, MarkError, Crash
  <1>10. ASSUME NEW e \in Events, Timers(e)
         PROVE  UNCHANGED <<status, jobs, work>>
    BY <1>10 DEF Timers, BackoffElapses, OrphanLeaseExpires, HeldLeaseExpires, DeadlinePasses
  <1>11. CASE UNCHANGED outboxVars
    BY <1>8, <1>11 DEF outboxVars
  <1>12. ASSUME NEW e \in Events, FencePendingAiReply(e)
         PROVE  Delivery!Abandon(e) \/ Delivery!Close(e) \/ UNCHANGED Delivery!deliveryVars
    <2>1. /\ e \in Cascading /\ status[e] # "NONE" /\ UNCHANGED jobs
          /\ work' = IF work[e] = "OPEN" THEN [work EXCEPT ![e] = "DEAD"] ELSE work
      BY <1>12 DEF FencePendingAiReply
    <2>2. AbsOpen' = [AbsOpen EXCEPT ![e] = FALSE] /\ AbsHanded' = AbsHanded
      BY <2>1, ZenonT(60) DEF AbsOpen, AbsHanded
    <2>3. CASE status[e] \in {"PENDING", "PUBLISHING", "FAILED"}
      <3>1. status' = [status EXCEPT ![e] = "DEAD_LETTER"]
        BY <1>12, <2>3 DEF FencePendingAiReply
      <3>2. DeliveryState(status[e]) = "requested"
        BY <2>3, DeliveryStates
      <3> QED
        BY <2>1, <2>2, <3>1, <3>2, DeliveryStates DEF Delivery!Abandon, AbsOpen, AbsHanded
    <2>4. CASE status[e] = "PUBLISHED"
      <3>1. UNCHANGED status /\ jobs[e] # "absent"
        BY <1>12, <2>4 DEF FencePendingAiReply, PublishedWasQueued
      <3> QED
        BY <2>2, <3>1 DEF Delivery!Close, AbsOpen, AbsHanded
    <2>5. CASE status[e] = "DEAD_LETTER"
      <3>1. UNCHANGED <<status, jobs, work>>
        BY <1>12, <2>1, <2>5 DEF FencePendingAiReply, DeadLetterClosesWork
      <3> QED
        BY <3>1 DEF Delivery!deliveryVars
    <2> QED
      BY <2>1, <2>3, <2>4, <2>5 DEF RowStatus
  <1>13. ASSUME NEW c \in Calls, Dispatch(c)
         PROVE  Delivery!Next \/ UNCHANGED Delivery!deliveryVars
    <2>1. CASE \E e \in Events : Claim(c, e)
      BY <2>1, <1>2
    <2>2. CASE QueueAdd(c) \/ QueueAddError(c)
      BY <2>2, <1>7
    <2>3. CASE MarkPublished(c)
      BY <2>3, <1>4
    <2>4. CASE FailClaimedEvent(c)
      BY <2>4, <1>5
    <2>5. CASE ReadEvent(c) \/ RenewLease(c) \/ RenewError(c) \/ MarkError(c) \/ Crash(c)
      BY <2>5, <1>9, <1>8
    <2> QED
      BY <1>13, <2>1, <2>2, <2>3, <2>4, <2>5 DEF Dispatch
  <1> QED
    BY <1>1, <1>6, <1>8, <1>10, <1>11, <1>13, <1>12 DEF OutboxNext, DispatcherNext, Delivery!Next

\* The outbox, with its leases, retries, stale calls and crashes, implements
\* the promise of EventDelivery (RuntimeOutboxDispatcher as a whole).
THEOREM OutboxImplementsDelivery == OutboxSpec => ImplementsDelivery
  <1>1. OutboxInit => Delivery!Init
    <2> SUFFICES ASSUME OutboxInit PROVE Delivery!Init
      OBVIOUS
    <2>1. \A e \in Events : /\ DeliveryState(status[e]) = "none"
                            /\ ~(jobs[e] # "absent")
                            /\ work[e] = "OPEN"
      BY DeliveryStates DEF OutboxInit
    <2> QED
      BY <2>1 DEF Delivery!Init
  <1> QED
    BY <1>1, OutboxInitInv, OutboxStepInv, OutboxStepSimulates, PTL
    DEF OutboxSpec, ImplementsDelivery, Delivery!Spec

-----------------------------------------------------------------------------
(* The consuming side.                                                     *)

\* What the queue and a running handler know of the job: it was queued, a run
\* that completes has seen its processor return, and only a run that came past
\* a claim holds one.
HandlerHasItsJob ==
    /\ \A w \in Workers :
         /\ step[w] # "idle" => job[w] \in Events /\ jobs[job[w]] # "absent"
         /\ step[w] = "completing" => job[w] \in returned
         /\ claimed[w] => step[w] \in {"processing", "completing", "failing"}
    /\ \A e \in dlq \cup zombies : jobs[e] # "absent"

\* A job that may still run has attempts left, and only a running job has an
\* owner.
AttemptsAreBounded ==
    \A e \in Events :
        /\ owner[e] # NoWorker => jobs[e] = "active"
        /\ jobs[e] \in {"waiting", "active"} => attemptsMade[e] < JobAttempts
        /\ jobs[e] \in {"absent", "removed"} => attemptsMade[e] = 0

\* The lock of an inbox row and the ownership of a job belong to handler runs
\* still working on that event, or to nobody; only a PROCESSING row is locked
\* (claimRuntimeInbox, completeRuntimeInbox, failRuntimeInbox).
InboxLockBelongsToHandler ==
    \A e \in Events :
        /\ inboxLeased[e] => inbox[e] = "PROCESSING"
        /\ inbox[e] = "PROCESSING" <=> inboxBy[e] # NoWorker
        /\ \A w \in Workers : inboxBy[e] = w => claimed[w] /\ job[w] = e
        /\ \A w \in Workers : owner[e] = w => step[w] # "idle" /\ job[w] = e

\* The inductive invariant of the composition.
InboxInv ==
    /\ OutboxInv
    /\ InboxTypeOK
    /\ HandlerHasItsJob
    /\ AttemptsAreBounded
    /\ InboxLockBelongsToHandler
    /\ ResultMeansReturned

\* No job, no handler and no row at the start.
LEMMA InboxInitInv == Init => InboxInv
  <1> SUFFICES ASSUME Init PROVE InboxInv
    OBVIOUS
  <1>1. OutboxInv
    BY OutboxInitInv DEF Init
  <1>2. InboxTypeOK
    BY <1>1, InboxAssumption DEF Init, InboxTypeOK, OutboxInv, InboxStatus, HandlerStep
  <1>3. HandlerHasItsJob
    BY DEF Init, HandlerHasItsJob
  <1>4. AttemptsAreBounded
    BY InboxAssumption DEF Init, OutboxInit, AttemptsAreBounded
  <1>5. InboxLockBelongsToHandler
    BY InboxAssumption DEF Init, InboxLockBelongsToHandler
  <1>6. ResultMeansReturned
    BY DEF Init, ResultMeansReturned
  <1> QED
    BY <1>1, <1>2, <1>3, <1>4, <1>5, <1>6 DEF InboxInv

\* What a worker's step may do to the job of e and to its business object.
QueueMoves(e) == \/ jobs' = jobs
                 \/ \E j \in JobStatus \ {"absent"} : jobs' = [jobs EXCEPT ![e] = j]
ObjectMoves(e) == \/ work' = work
                  \/ \E s \in {work[e], "DONE", "DEAD"} : work' = [work EXCEPT ![e] = s]

\* Such a step is a step of the outbox's abstract consumer.
LEMMA ConsumerStep ==
  ASSUME OutboxTypeOK, NEW e \in Events, jobs[e] # "absent",
         QueueMoves(e), ObjectMoves(e), UNCHANGED dispatcher
  PROVE  Consume(e)
  <1>1. jobs[e] \in JobStatus \ {"absent"} /\ jobs = [jobs EXCEPT ![e] = jobs[e]]
    BY DEF OutboxTypeOK
  <1>2. work = [work EXCEPT ![e] = work[e]]
    BY DEF OutboxTypeOK
  <1>3. \E j \in JobStatus \ {"absent"} : jobs' = [jobs EXCEPT ![e] = j]
    BY <1>1 DEF QueueMoves
  <1>4. \E s \in {work[e], "DONE", "DEAD"} : work' = [work EXCEPT ![e] = s]
    BY <1>2 DEF ObjectMoves
  <1> QED
    BY <1>3, <1>4 DEF Consume, dispatcher

\* The queue forgets a job it has accepted in no step: at most it is removed.
LEMMA QueuedStaysQueued ==
  ASSUME OutboxTypeOK, [OutboxNext]_outboxVars, NEW e \in Events, jobs[e] # "absent"
  PROVE  jobs'[e] # "absent"
  <1> USE DEF OutboxTypeOK
  <1>1. CASE UNCHANGED jobs
    BY <1>1
  <1>2. CASE \E f : Accept(f)
    BY <1>2 DEF Accept
  <1>3. CASE \E f \in Events : Consume(f)
    BY <1>3 DEF Consume
  <1> QED
    BY <1>1, <1>2, <1>3 DEF OutboxNext, DispatcherNext, Dispatch, Timers, outboxVars, Claim,
       CreateEvent, FencePendingAiReply, ReadEvent, RenewLease, RenewError, QueueAdd,
       QueueAddError, MarkPublished, MarkError, FailClaimedEvent, Crash, BackoffElapses,
       OrphanLeaseExpires, HeldLeaseExpires, DeadlinePasses

\* How a handler run leaves its job: it returns or it throws.
LEMMA LeavingMovesTheJob ==
  ASSUME NEW w \in Workers, job[w] \in Events, JobReturns(w) \/ JobThrows(w)
  PROVE  QueueMoves(job[w])
  BY DEF JobReturns, JobThrows, QueueMoves, JobStatus

\* What a claim does to the object and to the inbox row.
LEMMA ClaimEffect ==
  ASSUME NEW e \in Events, NEW lockId, ClaimWrites(lockId, e)
  PROVE  /\ ObjectMoves(e) /\ UNCHANGED rowVars
         /\ \/ UNCHANGED inboxRow
            \/ /\ inbox[e] # "SUCCEEDED" /\ ~Busy(e)
               /\ ClaimAnswer(e) = "claimed"
               /\ SetInbox(e, "PROCESSING", TRUE, lockId)
         /\ ClaimAnswer(e) # "claimed" => UNCHANGED inboxRow
  <1>1. work' = work \/ work' = CloseWork(e)
    BY DEF ClaimWrites
  <1>2. ObjectMoves(e)
    BY <1>1 DEF ObjectMoves, CloseWork
  <1>3. ClaimAnswer(e) = "claimed" => inbox[e] # "SUCCEEDED" /\ ~Busy(e)
    BY DEF ClaimAnswer
  <1> QED
    BY <1>2, <1>3 DEF ClaimWrites

\* Every step of the composition is a step of the outbox or invisible to it.
LEMMA InboxStepSimulates ==
    InboxInv /\ [Next]_vars => [OutboxNext]_outboxVars
  <1> SUFFICES ASSUME InboxInv, [Next]_vars PROVE OutboxNext \/ UNCHANGED outboxVars
    OBVIOUS
  <1> USE DEF InboxInv, HandlerHasItsJob
  <1>1. ASSUME NEW e \in Events, jobs[e] # "absent", QueueMoves(e), ObjectMoves(e),
               UNCHANGED dispatcher
        PROVE  OutboxNext
    BY <1>1, ConsumerStep DEF OutboxNext, OutboxInv
  <1>2. ASSUME NEW w \in Workers, Handle(w) PROVE OutboxNext
    <2>1. job[w] \in Events /\ jobs[job[w]] # "absent"
      BY <1>2 DEF Handle, FirstClaim, WaitEnds, SecondClaim, ClaimError, ProcessorReturns,
         ProcessorThrows, Timeout, CompleteRuntimeInbox, FailRuntimeInbox
    <2>2. UNCHANGED jobs => QueueMoves(job[w])
      BY DEF QueueMoves
    <2>3. UNCHANGED work => ObjectMoves(job[w])
      BY DEF ObjectMoves
    <2>4. CASE FirstClaim(w) \/ SecondClaim(w) \/ ClaimError(w)
      <3>1. ObjectMoves(job[w]) /\ UNCHANGED rowVars
        BY <2>1, <2>3, <2>4, ClaimEffect DEF FirstClaim, SecondClaim, ClaimError
      <3>2. QueueMoves(job[w]) /\ UNCHANGED <<callVars, revoked, faults>>
        BY <2>1, <2>2, <2>4, LeavingMovesTheJob DEF FirstClaim, SecondClaim, ClaimError
      <3> QED
        BY <1>1, <2>1, <3>1, <3>2 DEF dispatcher
    <2>5. CASE WaitEnds(w) \/ CompleteRuntimeInbox(w) \/ FailRuntimeInbox(w)
      <3>1. QueueMoves(job[w]) /\ UNCHANGED <<dispatcher, work>>
        BY <2>1, <2>2, <2>5, LeavingMovesTheJob
        DEF WaitEnds, CompleteRuntimeInbox, FailRuntimeInbox
      <3> QED
        BY <1>1, <2>1, <2>3, <3>1
    <2>6. CASE \/ ProcessorReturns(w) \/ Timeout(w)
               \/ \E unrecoverable \in BOOLEAN : ProcessorThrows(w, unrecoverable)
      <3>1. ObjectMoves(job[w]) /\ UNCHANGED <<dispatcher, jobs>>
        BY <2>3, <2>6 DEF ProcessorReturns, Timeout, ProcessorThrows, Process, ObjectMoves
      <3> QED
        BY <1>1, <2>1, <2>2, <3>1
    <2> QED
      BY <1>2, <2>4, <2>5, <2>6 DEF Handle
  <1>3. ASSUME NEW e \in Events, Bull(e) PROVE OutboxNext \/ UNCHANGED outboxVars
    <2>1. CASE JobLockLost(e)
      BY <2>1 DEF JobLockLost
    <2>2. CASE StallDetected(e) \/ RemoveJob(e) \/ \E w \in Workers : TakeJob(w, e)
      <3>1. jobs[e] # "absent" /\ QueueMoves(e) /\ UNCHANGED <<dispatcher, work>>
        BY <2>2 DEF StallDetected, RemoveJob, TakeJob, QueueMoves, JobStatus
      <3> QED
        BY <1>1, <3>1 DEF ObjectMoves
    <2> QED
      BY <1>3, <2>1, <2>2 DEF Bull
  <1>4. ASSUME NEW e \in Events, InboxTimers(e) PROVE OutboxNext \/ UNCHANGED outboxVars
    <2>1. CASE OrphanInboxLeaseExpires(e) \/ HeldInboxLeaseExpires(e) \/ CaptureLost(e)
      BY <2>1 DEF OrphanInboxLeaseExpires, HeldInboxLeaseExpires, CaptureLost
    <2>2. CASE CaptureDeadLetter(e) \/ ZombieEnds(e)
      <3>1. jobs[e] # "absent" /\ ObjectMoves(e) /\ UNCHANGED <<dispatcher, jobs>>
        BY <2>2 DEF CaptureDeadLetter, ZombieEnds, Process, ObjectMoves
      <3> QED
        BY <1>1, <3>1 DEF QueueMoves
    <2> QED
      BY <1>4, <2>1, <2>2 DEF InboxTimers
  <1>5. ASSUME NEW w \in Workers, WorkerCrash(w) PROVE UNCHANGED outboxVars
    BY <1>5 DEF WorkerCrash
  <1>6. CASE DispatcherNext
    BY <1>6 DEF OutboxNext
  <1>7. CASE UNCHANGED vars
    BY <1>7 DEF vars
  <1> QED
    BY <1>2, <1>3, <1>4, <1>5, <1>6, <1>7 DEF Next

\* A step of the dispatchers leaves the workers alone; what it does to the
\* queue is to accept a job that is absent or removed.
LEMMA DispatcherKeepsInbox ==
  ASSUME InboxInv, DispatcherNext, UNCHANGED inboxVars, OutboxInv',
         \A e \in Events : jobs[e] # "absent" => jobs'[e] # "absent"
  PROVE  InboxInv'
  <1> USE DEF inboxVars, inboxRow, bull, handler, rest, InboxInv
  <1>1. InboxTypeOK'
    BY DEF InboxTypeOK, OutboxInv
  <1>2. HandlerHasItsJob'
    BY DEF HandlerHasItsJob, InboxTypeOK
  <1>3. AttemptsAreBounded'
    <2>1. CASE UNCHANGED jobs
      BY <2>1 DEF AttemptsAreBounded
    <2>2. ASSUME NEW f, Accept(f) PROVE AttemptsAreBounded'
      BY <2>2, InboxAssumption DEF AttemptsAreBounded, Accept, InboxTypeOK, OutboxTypeOK
    <2> QED
      BY <2>1, <2>2 DEF DispatcherNext, Dispatch, Timers, Claim,
         CreateEvent, FencePendingAiReply, ReadEvent, RenewLease, RenewError, QueueAdd,
         QueueAddError, MarkPublished, MarkError, FailClaimedEvent, Crash, BackoffElapses,
         OrphanLeaseExpires, HeldLeaseExpires, DeadlinePasses
  <1>4. InboxLockBelongsToHandler' /\ ResultMeansReturned'
    BY DEF InboxLockBelongsToHandler, ResultMeansReturned
  <1> QED
    BY <1>1, <1>2, <1>3, <1>4

\* The types of the inbox rows, the queue and the handlers, each a part of
\* InboxTypeOK.
RowTypeOK ==
    /\ inbox \in [Events -> InboxStatus]
    /\ inboxLeased \in [Events -> BOOLEAN]
    /\ inboxBy \in [Events -> Workers \cup {NoWorker, Orphan}]
BullTypeOK ==
    /\ owner \in [Events -> Workers \cup {NoWorker}]
    /\ attemptsMade \in [Events -> 0..JobAttempts]
    /\ dlq \subseteq Events
HandlerTypeOK ==
    /\ step \in [Workers -> HandlerStep]
    /\ job \in [Workers -> Events \cup {NoEvent}]
    /\ claimed \in [Workers -> BOOLEAN]
    /\ fatal \in [Workers -> BOOLEAN]
RestTypeOK ==
    /\ zombies \subseteq Events /\ returned \subseteq Events
    /\ workerFaults \in 0..MaxWorkerFaults

\* The parts make up the whole.
LEMMA InboxTypeParts ==
    InboxTypeOK <=> OutboxTypeOK /\ RowTypeOK /\ BullTypeOK /\ HandlerTypeOK /\ RestTypeOK
  BY DEF InboxTypeOK, RowTypeOK, BullTypeOK, HandlerTypeOK, RestTypeOK

\* A claimed run that returns or throws has settled its row or lost it.
LEMMA LeavingKeepsQueue ==
  ASSUME InboxInv, NEW w \in Workers, job[w] \in Events, JobReturns(w) \/ JobThrows(w)
  PROVE  /\ BullTypeOK' /\ HandlerTypeOK' /\ AttemptsAreBounded'
         /\ \A e \in Events, v \in Workers : owner'[e] = v => v # w /\ owner[e] = v
         /\ \A e \in dlq' : e \in dlq \/ e = job[w]
  <1>a. OutboxTypeOK /\ BullTypeOK /\ HandlerTypeOK
    BY InboxTypeParts DEF InboxInv
  <1>1. HandlerTypeOK'
    BY <1>a DEF HandlerTypeOK, JobReturns, JobThrows, End, HandlerStep
  <1> USE <1>a, InboxAssumption, OutboxAssumption
      DEF InboxInv, BullTypeOK, AttemptsAreBounded, InboxLockBelongsToHandler
  <1>2. CASE owner[job[w]] # w
    <2>1. UNCHANGED <<jobs, owner, attemptsMade, dlq>>
      BY <1>2 DEF JobReturns, JobThrows
    <2> QED
      BY <1>1, <1>2, <2>1
  <1>3. CASE owner[job[w]] = w /\ JobReturns(w)
    <2>1. /\ jobs' = [jobs EXCEPT ![job[w]] = "completed"]
          /\ owner' = [owner EXCEPT ![job[w]] = NoWorker]
          /\ UNCHANGED <<attemptsMade, dlq>>
      BY <1>3 DEF JobReturns
    <2>2. BullTypeOK'
      BY <2>1
    <2>3. AttemptsAreBounded'
      BY <2>1, <1>3 DEF OutboxTypeOK
    <2> QED
      BY <1>1, <2>1, <2>2, <2>3
  <1>4. CASE owner[job[w]] = w /\ JobThrows(w)
    <2> DEFINE final == FinalAttempt(w, job[w])
    <2>1. /\ attemptsMade' = [attemptsMade EXCEPT ![job[w]] = attemptsMade[job[w]] + 1]
          /\ owner' = [owner EXCEPT ![job[w]] = NoWorker]
          /\ jobs' = [jobs EXCEPT ![job[w]] = IF final THEN "failed" ELSE "waiting"]
          /\ dlq' = IF final THEN dlq \cup {job[w]} ELSE dlq
      BY <1>4 DEF JobThrows
    <2>2. /\ attemptsMade[job[w]] \in Nat /\ attemptsMade[job[w]] < JobAttempts
          /\ ~final => attemptsMade[job[w]] + 1 < JobAttempts
      BY <1>4 DEF FinalAttempt
    <2> HIDE DEF final
    <2>3. BullTypeOK'
      BY <2>1, <2>2
    <2>4. AttemptsAreBounded'
      BY <2>1, <2>2 DEF OutboxTypeOK
    <2> QED
      BY <1>1, <2>1, <2>3, <2>4
  <1> QED
    BY <1>2, <1>3, <1>4

\* Taking or leaving a claim keeps the rows well typed.
LEMMA SetInboxType ==
  ASSUME RowTypeOK, NEW e \in Events, NEW s \in InboxStatus, NEW b \in BOOLEAN,
         NEW by \in Workers \cup {NoWorker, Orphan}, SetInbox(e, s, b, by)
  PROVE  RowTypeOK'
  BY DEF RowTypeOK, SetInbox

\* The inbox rows after a step of run w, which holds a claim then iff c: only
\* PROCESSING rows are locked, and no other run has gained a lock.
RowsFit(w, c) ==
    \A e \in Events :
        /\ inboxLeased'[e] => inbox'[e] = "PROCESSING"
        /\ inbox'[e] = "PROCESSING" <=> inboxBy'[e] # NoWorker
        /\ \A v \in Workers : inboxBy'[e] = v =>
              \/ v # w /\ inboxBy[e] = v
              \/ v = w /\ c /\ e = job[w]

\* The rows fit when a step leaves them alone, as long as w keeps its claim or
\* has none on its event.
LEMMA SameRowsFit ==
  ASSUME InboxInv, NEW w \in Workers, NEW c \in BOOLEAN, UNCHANGED inboxRow,
         claimed[w] => c \/ inboxBy[job[w]] # w
  PROVE  RowTypeOK' /\ RowsFit(w, c) /\ (UNCHANGED returned => ResultMeansReturned')
  <1>1. RowTypeOK'
    BY InboxTypeParts DEF InboxInv, RowTypeOK, inboxRow
  <1> QED
    BY <1>1 DEF InboxInv, InboxLockBelongsToHandler, RowsFit, inboxRow, ResultMeansReturned

\* The rows fit when a step writes the row of its own event: it locks it for
\* itself or for nobody, or releases it.
LEMMA NewRowsFit ==
  ASSUME InboxInv, NEW w \in Workers, NEW c \in BOOLEAN, job[w] \in Events,
         NEW s \in InboxStatus, NEW b \in BOOLEAN, NEW by \in {w, NoWorker, Orphan},
         SetInbox(job[w], s, b, by),
         by = w => c, claimed[w] => c \/ inboxBy[job[w]] = w,
         b => s = "PROCESSING", s = "PROCESSING" <=> by # NoWorker,
         s = "SUCCEEDED" => job[w] \in returned, UNCHANGED returned
  PROVE  RowTypeOK' /\ RowsFit(w, c) /\ ResultMeansReturned'
  <1> USE InboxAssumption DEF InboxInv
  <1>1. RowTypeOK
    BY InboxTypeParts
  <1>2. RowTypeOK'
    BY <1>1, SetInboxType
  <1>3. RowsFit(w, c)
    BY <1>1 DEF RowTypeOK, InboxLockBelongsToHandler, RowsFit, SetInbox
  <1>4. ResultMeansReturned'
    BY <1>1 DEF RowTypeOK, SetInbox, ResultMeansReturned
  <1> QED
    BY <1>2, <1>3, <1>4

\* A step by which run w leaves its job.
LEMMA LeavingKeepsInv ==
  ASSUME InboxInv, OutboxInv', \A e \in Events : jobs[e] # "absent" => jobs'[e] # "absent",
         NEW w \in Workers, step[w] # "idle", JobReturns(w) \/ JobThrows(w),
         RowTypeOK', RowsFit(w, FALSE), ResultMeansReturned',
         UNCHANGED <<zombies, returned>>, workerFaults' \in 0..MaxWorkerFaults
  PROVE  InboxInv'
  <1>1. job[w] \in Events /\ jobs[job[w]] # "absent"
    BY DEF InboxInv, HandlerHasItsJob
  <1>2. /\ BullTypeOK' /\ HandlerTypeOK' /\ AttemptsAreBounded'
        /\ \A e \in Events, v \in Workers : owner'[e] = v => v # w /\ owner[e] = v
        /\ \A e \in dlq' : e \in dlq \/ e = job[w]
    BY <1>1, LeavingKeepsQueue
  <1>3. HandlerTypeOK /\ RestTypeOK /\ BullTypeOK
    BY InboxTypeParts DEF InboxInv
  <1>4. RestTypeOK'
    BY <1>3 DEF RestTypeOK
  <1>5. InboxTypeOK'
    BY <1>2, <1>4, InboxTypeParts DEF OutboxInv, InboxTypeOK, RowTypeOK, BullTypeOK,
       HandlerTypeOK, RestTypeOK
  <1>6. /\ step' = [step EXCEPT ![w] = "idle"] /\ job' = [job EXCEPT ![w] = NoEvent]
        /\ claimed' = [claimed EXCEPT ![w] = FALSE]
    BY DEF JobReturns, JobThrows, End
  <1>7. HandlerHasItsJob'
    BY <1>1, <1>2, <1>3, <1>6 DEF InboxInv, HandlerHasItsJob, HandlerTypeOK, RestTypeOK, BullTypeOK
  <1>8. InboxLockBelongsToHandler'
    BY <1>2, <1>3, <1>6 DEF InboxInv, InboxLockBelongsToHandler, RowsFit, HandlerTypeOK
  <1> QED
    BY <1>2, <1>5, <1>7, <1>8 DEF InboxInv

\* A step by which run w goes on to step s with claim c.
LEMMA GoingOnKeepsInv ==
  ASSUME InboxInv, OutboxInv', \A e \in Events : jobs[e] # "absent" => jobs'[e] # "absent",
         NEW w \in Workers, step[w] # "idle",
         NEW s \in HandlerStep \ {"idle"}, step' = [step EXCEPT ![w] = s],
         NEW c \in BOOLEAN, claimed' = [claimed EXCEPT ![w] = c],
         NEW f \in BOOLEAN, fatal' = [fatal EXCEPT ![w] = f],
         UNCHANGED <<job, jobs, bull>>,
         c => s \in {"processing", "completing", "failing"},
         s = "completing" => job[w] \in returned',
         returned \subseteq returned', returned' \subseteq returned \cup {job[w]},
         zombies' \subseteq zombies \cup {job[w]},
         RowTypeOK', RowsFit(w, c), ResultMeansReturned', workerFaults' \in 0..MaxWorkerFaults
  PROVE  InboxInv'
  <1>1. job[w] \in Events /\ jobs[job[w]] # "absent"
    BY DEF InboxInv, HandlerHasItsJob
  <1>2. HandlerTypeOK /\ RestTypeOK /\ BullTypeOK
    BY InboxTypeParts DEF InboxInv
  <1>3. BullTypeOK' /\ RestTypeOK'
    BY <1>1, <1>2 DEF BullTypeOK, RestTypeOK, bull
  <1>4. HandlerTypeOK'
    BY <1>2 DEF HandlerTypeOK
  <1>5. InboxTypeOK'
    BY <1>3, <1>4 DEF OutboxInv, InboxTypeOK, RowTypeOK, BullTypeOK, HandlerTypeOK, RestTypeOK
  <1>6. HandlerHasItsJob'
    BY <1>1, <1>2 DEF InboxInv, HandlerHasItsJob, HandlerTypeOK, bull
  <1>7. AttemptsAreBounded'
    BY DEF InboxInv, AttemptsAreBounded, bull
  <1>8. InboxLockBelongsToHandler'
    BY <1>2 DEF InboxInv, InboxLockBelongsToHandler, RowsFit, HandlerTypeOK, bull
  <1> QED
    BY <1>5, <1>6, <1>7, <1>8 DEF InboxInv

\* A step of a handler run keeps the invariant.
LEMMA HandlerKeepsInv ==
  ASSUME InboxInv, OutboxInv', \A e \in Events : jobs[e] # "absent" => jobs'[e] # "absent",
         NEW w \in Workers, Handle(w)
  PROVE  InboxInv'
  <1>1. step[w] # "idle"
    BY DEF Handle, FirstClaim, WaitEnds, SecondClaim, ClaimError, ProcessorReturns,
       ProcessorThrows, Timeout, CompleteRuntimeInbox, FailRuntimeInbox
  <1>2. /\ job[w] \in Events /\ claimed[w] \in BOOLEAN /\ fatal[w] \in BOOLEAN
        /\ claimed = [claimed EXCEPT ![w] = claimed[w]]
        /\ fatal = [fatal EXCEPT ![w] = fatal[w]]
        /\ workerFaults \in 0..MaxWorkerFaults
        /\ inboxLeased[job[w]] \in BOOLEAN
    BY <1>1 DEF InboxInv, HandlerHasItsJob, InboxTypeOK
  <1>3. claimed[w] => step[w] \in {"processing", "completing", "failing"}
    BY DEF InboxInv, HandlerHasItsJob
  <1>4. WorkerFault => workerFaults' \in 0..MaxWorkerFaults
    BY <1>2, InboxAssumption DEF WorkerFault
  <1>5. "PROCESSING" \in InboxStatus /\ "SUCCEEDED" \in InboxStatus /\ "FAILED" \in InboxStatus
    BY DEF InboxStatus
  <1>6. /\ claimed[w] /\ ~HoldsInbox(w) => inboxBy[job[w]] # w
        /\ HoldsInbox(w) => inboxBy[job[w]] = w
    BY <1>2, InboxAssumption DEF HoldsInbox, InboxInv, InboxLockBelongsToHandler
  <1>7. CASE FirstClaim(w)
    <2> DEFINE answer == ClaimAnswer(job[w])
               c == answer = "claimed"
               f == answer = "expired"
               s == CASE answer \in {"outbox_pending", "expired"} -> "failing"
                      [] answer = "busy"                          -> "waiting"
                      [] answer = "claimed"                       -> "processing"
    <2>1. step[w] = "claiming" /\ ~claimed[w] /\ ClaimWrites(w, job[w]) /\ UNCHANGED rest
      BY <1>7, <1>3 DEF FirstClaim
    <2>2. CASE answer = "replayed" /\ JobReturns(w)
      <3>1. UNCHANGED inboxRow
        BY <1>2, <2>1, <2>2, ClaimEffect
      <3> QED
        BY <1>1, <1>2, <2>1, <2>2, <3>1, SameRowsFit, LeavingKeepsInv DEF rest
    <2>3. CASE /\ answer # "replayed" /\ UNCHANGED <<job, jobs, bull>>
               /\ step' = [step EXCEPT ![w] = s]
               /\ claimed' = [claimed EXCEPT ![w] = c] /\ fatal' = [fatal EXCEPT ![w] = f]
      <3>1. answer \in {"outbox_pending", "expired", "busy", "claimed"}
        BY <2>3 DEF ClaimAnswer
      <3>2. /\ s \in HandlerStep \ {"idle"} /\ s # "completing"
            /\ c => s \in {"processing", "completing", "failing"}
        BY <3>1 DEF HandlerStep
      <3>3. c \in BOOLEAN /\ f \in BOOLEAN
        OBVIOUS
      <3>4. RowTypeOK' /\ RowsFit(w, c) /\ ResultMeansReturned'
        <4>1. CASE UNCHANGED inboxRow
          BY <4>1, <2>1, <3>3, SameRowsFit DEF rest
        <4>2. CASE c /\ SetInbox(job[w], "PROCESSING", TRUE, w)
          BY <4>2, <1>2, <1>5, <2>1, <3>3, NewRowsFit, InboxAssumption DEF rest
        <4> QED
          BY <4>1, <4>2, <1>2, <2>1, ClaimEffect
      <3>5. UNCHANGED <<zombies, returned, workerFaults>>
        BY <2>1 DEF rest
      <3> HIDE DEF answer, s, c, f
      <3> QED
        BY <1>1, <1>2, <2>3, <3>2, <3>3, <3>4, <3>5, GoingOnKeepsInv, ZenonT(60)
    <2> QED
      BY <1>7, <2>2, <2>3 DEF FirstClaim
  <1>8. CASE SecondClaim(w)
    <2> DEFINE answer == ClaimAnswer(job[w])
               c == answer = "claimed"
               s == IF answer = "busy" THEN "failing" ELSE "processing"
    <2>1. /\ step[w] = "reclaiming" /\ ~claimed[w] /\ ClaimWrites(w, job[w])
          /\ step' = [step EXCEPT ![w] = s] /\ claimed' = [claimed EXCEPT ![w] = c]
          /\ UNCHANGED <<jobs, bull, job, fatal, rest>>
      BY <1>8, <1>3 DEF SecondClaim
    <2>2. /\ s \in HandlerStep \ {"idle"} /\ s # "completing" /\ c \in BOOLEAN
          /\ s \in {"processing", "completing", "failing"}
      BY DEF HandlerStep
    <2>3. RowTypeOK' /\ RowsFit(w, c) /\ ResultMeansReturned'
      <3>1. CASE UNCHANGED inboxRow
        BY <3>1, <2>1, <2>2, SameRowsFit DEF rest
      <3>2. CASE c /\ SetInbox(job[w], "PROCESSING", TRUE, w)
        BY <3>2, <1>2, <1>5, <2>1, <2>2, NewRowsFit, InboxAssumption DEF rest
      <3> QED
        BY <3>1, <3>2, <1>2, <2>1, ClaimEffect
    <2> HIDE DEF s, c
    <2> QED
      BY <1>1, <1>2, <2>1, <2>2, <2>3, GoingOnKeepsInv, ZenonT(60) DEF rest
  <1>9. CASE ClaimError(w)
    <2>1. /\ ~claimed[w] /\ step' = [step EXCEPT ![w] = "failing"]
          /\ UNCHANGED <<jobs, bull, job, claimed, fatal, zombies, returned>>
          /\ \/ UNCHANGED <<inboxRow, workerFaults>>
             \/ WorkerFault /\ ClaimWrites(Orphan, job[w])
      BY <1>9, <1>3 DEF ClaimError, Go
    <2>2. RowTypeOK' /\ RowsFit(w, FALSE) /\ ResultMeansReturned'
      <3>1. CASE UNCHANGED inboxRow
        BY <3>1, <2>1, SameRowsFit
      <3>2. CASE SetInbox(job[w], "PROCESSING", TRUE, Orphan)
        BY <3>2, <1>2, <1>5, <2>1, NewRowsFit, InboxAssumption
      <3> QED
        BY <3>1, <3>2, <1>2, <2>1, ClaimEffect
    <2>3. "failing" \in HandlerStep \ {"idle"} /\ claimed[w] = FALSE
      BY <2>1, <1>2 DEF HandlerStep
    <2> QED
      BY <1>1, <1>2, <1>4, <2>1, <2>2, <2>3, GoingOnKeepsInv
  <1>10. CASE WaitEnds(w)
    <2>1. step[w] = "waiting" /\ ~claimed[w] /\ UNCHANGED <<inboxRow, rest>>
      BY <1>10, <1>3 DEF WaitEnds
    <2>2. RowTypeOK' /\ RowsFit(w, FALSE) /\ ResultMeansReturned'
      BY <2>1, SameRowsFit DEF rest
    <2>3. CASE JobReturns(w)
      BY <2>3, <1>1, <1>2, <2>1, <2>2, LeavingKeepsInv DEF rest
    <2>4. ASSUME NEW s \in {"failing", "reclaiming"}, Go(w, s), UNCHANGED <<jobs, bull>>
          PROVE  InboxInv'
      <3>1. s \in HandlerStep \ {"idle"} /\ s # "completing" /\ claimed[w] = FALSE
        BY <1>2, <2>1 DEF HandlerStep
      <3> QED
        BY <1>1, <1>2, <2>1, <2>2, <2>4, <3>1, GoingOnKeepsInv DEF rest, Go
    <2> QED
      BY <1>10, <2>3, <2>4 DEF WaitEnds
  <1>11. CASE ProcessorReturns(w)
    <2>1. /\ step' = [step EXCEPT ![w] = "completing"] /\ returned' = returned \cup {job[w]}
          /\ UNCHANGED <<job, jobs, claimed, fatal, inboxRow, bull, zombies, workerFaults>>
      BY <1>11 DEF ProcessorReturns, Go
    <2>2. RowTypeOK' /\ RowsFit(w, claimed[w])
      BY <1>2, <2>1, SameRowsFit
    <2>3. ResultMeansReturned'
      BY <2>1 DEF InboxInv, ResultMeansReturned, inboxRow
    <2> QED
      BY <1>1, <1>2, <2>1, <2>2, <2>3, GoingOnKeepsInv DEF HandlerStep
  <1>12. CASE Timeout(w)
    <2>1. /\ step' = [step EXCEPT ![w] = "failing"] /\ zombies' = zombies \cup {job[w]}
          /\ UNCHANGED <<job, jobs, claimed, fatal, inboxRow, bull, returned, workerFaults>>
      BY <1>12 DEF Timeout, Go
    <2>2. RowTypeOK' /\ RowsFit(w, claimed[w]) /\ ResultMeansReturned'
      BY <1>2, <2>1, SameRowsFit
    <2>3. PICK s \in HandlerStep \ {"idle"} : s = "failing"
      BY DEF HandlerStep
    <2>4. s # "completing" /\ s \in {"processing", "completing", "failing"}
      BY <2>3
    <2> QED
      BY <1>1, <1>2, <2>1, <2>2, <2>3, <2>4, GoingOnKeepsInv, ZenonT(60)
  <1>13. ASSUME NEW f \in BOOLEAN, ProcessorThrows(w, f) PROVE InboxInv'
    <2>1. /\ step' = [step EXCEPT ![w] = "failing"] /\ fatal' = [fatal EXCEPT ![w] = f]
          /\ UNCHANGED <<job, jobs, claimed, inboxRow, bull, zombies, returned, workerFaults>>
      BY <1>13 DEF ProcessorThrows, rest
    <2>2. RowTypeOK' /\ RowsFit(w, claimed[w]) /\ ResultMeansReturned'
      BY <1>2, <2>1, SameRowsFit
    <2>3. PICK s \in HandlerStep \ {"idle"} : s = "failing"
      BY DEF HandlerStep
    <2>4. s # "completing" /\ s \in {"processing", "completing", "failing"}
      BY <2>3
    <2> QED
      BY <1>1, <1>2, <2>1, <2>2, <2>3, <2>4, GoingOnKeepsInv, ZenonT(60)
  <1>14. CASE CompleteRuntimeInbox(w)
    <2> USE DEF InboxStatus
    <2>1. step[w] = "completing" /\ job[w] \in returned /\ UNCHANGED <<zombies, returned>>
      BY <1>14 DEF CompleteRuntimeInbox, InboxInv, HandlerHasItsJob
    <2>2. ASSUME SetInbox(job[w], "SUCCEEDED", FALSE, NoWorker), HoldsInbox(w), NEW c \in BOOLEAN
          PROVE  RowTypeOK' /\ RowsFit(w, c) /\ ResultMeansReturned'
      BY <1>2, <1>5, <1>6, <2>1, <2>2, NewRowsFit, InboxAssumption
    <2>3. ASSUME UNCHANGED inboxRow, NEW c \in BOOLEAN,
                 claimed[w] => c \/ inboxBy[job[w]] # w
          PROVE  RowTypeOK' /\ RowsFit(w, c) /\ ResultMeansReturned'
      BY <2>1, <2>3, SameRowsFit
    <2>4. ASSUME Go(w, "failing"), UNCHANGED <<jobs, bull>>, workerFaults' \in 0..MaxWorkerFaults,
                 RowTypeOK', RowsFit(w, claimed[w]), ResultMeansReturned'
          PROVE  InboxInv'
      <3>1. /\ step' = [step EXCEPT ![w] = "failing"] /\ claimed' = [claimed EXCEPT ![w] = claimed[w]]
            /\ fatal' = [fatal EXCEPT ![w] = fatal[w]] /\ UNCHANGED job
        BY <1>2, <2>4 DEF Go
      <3> QED
        BY <1>1, <1>2, <2>1, <2>4, <3>1, GoingOnKeepsInv DEF HandlerStep
    <2>5. CASE ~claimed[w] /\ UNCHANGED <<inboxRow, workerFaults>> /\ JobReturns(w)
      BY <1>1, <1>2, <2>1, <2>3, <2>5, LeavingKeepsInv
    <2>6. CASE /\ HoldsInbox(w) /\ SetInbox(job[w], "SUCCEEDED", FALSE, NoWorker)
               /\ UNCHANGED workerFaults /\ JobReturns(w)
      BY <1>1, <1>2, <2>1, <2>2, <2>6, LeavingKeepsInv
    <2>7. CASE /\ claimed[w] /\ ~HoldsInbox(w) /\ UNCHANGED <<inboxRow, workerFaults>>
               /\ Go(w, "failing") /\ UNCHANGED <<jobs, bull>>
      BY <1>2, <2>3, <2>4, <2>7
    <2>8. CASE /\ HoldsInbox(w) /\ WorkerFault /\ Go(w, "failing") /\ UNCHANGED <<jobs, bull>>
               /\ SetInbox(job[w], "SUCCEEDED", FALSE, NoWorker) \/ UNCHANGED inboxRow
      BY <1>2, <1>4, <2>2, <2>3, <2>4, <2>8
    <2> QED
      BY <1>14, <2>5, <2>6, <2>7, <2>8 DEF CompleteRuntimeInbox
  <1>15. CASE FailRuntimeInbox(w)
    <2>1. JobThrows(w) /\ UNCHANGED <<zombies, returned>>
      BY <1>15 DEF FailRuntimeInbox
    <2>2. workerFaults' \in 0..MaxWorkerFaults
      BY <1>2, <1>4, <1>15 DEF FailRuntimeInbox
    <2>3. RowTypeOK' /\ RowsFit(w, FALSE) /\ ResultMeansReturned'
      <3>1. CASE HoldsInbox(w) /\ SetInbox(job[w], "FAILED", FALSE, NoWorker)
        BY <3>1, <1>2, <1>5, <1>6, <2>1, NewRowsFit, InboxAssumption
      <3>2. CASE HoldsInbox(w) /\ SetInbox(job[w], "PROCESSING", inboxLeased[job[w]], Orphan)
        BY <3>2, <1>2, <1>5, <1>6, <2>1, NewRowsFit, InboxAssumption, ZenonT(60)
      <3>3. CASE ~HoldsInbox(w) /\ UNCHANGED inboxRow
        BY <3>3, <1>6, <2>1, SameRowsFit
      <3> QED
        BY <1>15, <3>1, <3>2, <3>3 DEF FailRuntimeInbox
    <2> QED
      BY <1>1, <2>1, <2>2, <2>3, LeavingKeepsInv
  <1> QED
    BY <1>7, <1>8, <1>9, <1>10, <1>11, <1>12, <1>13, <1>14, <1>15 DEF Handle

\* What the queue, the death of a worker and time do keeps the invariant.
LEMMA SurroundingsKeepInv ==
  ASSUME InboxInv, OutboxInv', \A e \in Events : jobs[e] # "absent" => jobs'[e] # "absent",
         \/ \E e \in Events : Bull(e) \/ InboxTimers(e)
         \/ \E w \in Workers : WorkerCrash(w)
  PROVE  InboxInv'
  <1>1. OutboxTypeOK /\ RowTypeOK /\ BullTypeOK /\ HandlerTypeOK /\ RestTypeOK
    BY InboxTypeParts DEF InboxInv
  <1>2. OutboxTypeOK'
    BY DEF OutboxInv
  <1>3. ASSUME RowTypeOK', BullTypeOK', HandlerTypeOK', RestTypeOK' PROVE InboxTypeOK'
    BY <1>2, <1>3 DEF InboxTypeOK, RowTypeOK, BullTypeOK, HandlerTypeOK, RestTypeOK
  <1>4. WorkerFault => workerFaults' \in 0..MaxWorkerFaults
    BY <1>1, InboxAssumption DEF WorkerFault, RestTypeOK
  <1>5. NoWorker \notin Workers /\ Orphan \notin Workers /\ NoWorker # Orphan
    BY InboxAssumption
  <1>6. ASSUME NEW e \in Events, NEW w \in Workers, TakeJob(w, e) PROVE InboxInv'
    <2>1. /\ step[w] = "idle" /\ jobs[e] = "waiting" /\ ~claimed[w]
          /\ jobs' = [jobs EXCEPT ![e] = "active"] /\ owner' = [owner EXCEPT ![e] = w]
          /\ step' = [step EXCEPT ![w] = "claiming"] /\ job' = [job EXCEPT ![w] = e]
          /\ UNCHANGED <<inbox, inboxLeased, inboxBy, attemptsMade, dlq, claimed, fatal,
                         zombies, returned, workerFaults>>
      BY <1>6 DEF TakeJob, inboxRow, rest, InboxInv, HandlerHasItsJob
    <2>2. InboxTypeOK'
      BY <1>1, <1>3, <2>1 DEF RowTypeOK, BullTypeOK, HandlerTypeOK, RestTypeOK, HandlerStep
    <2>3. HandlerHasItsJob'
      BY <1>1, <2>1 DEF InboxInv, HandlerHasItsJob, HandlerTypeOK, OutboxTypeOK, RestTypeOK, BullTypeOK
    <2>4. AttemptsAreBounded'
      BY <1>1, <2>1 DEF InboxInv, AttemptsAreBounded, BullTypeOK, OutboxTypeOK
    <2>5. InboxLockBelongsToHandler'
      BY <1>1, <1>5, <2>1 DEF InboxInv, InboxLockBelongsToHandler, BullTypeOK, HandlerTypeOK
    <2>6. ResultMeansReturned'
      BY <2>1 DEF InboxInv, ResultMeansReturned
    <2> QED
      BY <2>2, <2>3, <2>4, <2>5, <2>6 DEF InboxInv
  <1>7. ASSUME NEW e \in Events, StallDetected(e) \/ RemoveJob(e) PROVE InboxInv'
    <2>1. UNCHANGED <<inbox, inboxLeased, inboxBy, owner, dlq, step, job, claimed, fatal,
                      zombies, returned, workerFaults>>
      BY <1>7 DEF StallDetected, RemoveJob, inboxVars, inboxRow, bull, handler, rest
    <2>2. attemptsMade' = attemptsMade \/ attemptsMade' = [attemptsMade EXCEPT ![e] = 0]
      BY <1>7 DEF StallDetected, RemoveJob, inboxVars, bull
    <2>3. BullTypeOK'
      BY <1>1, <2>1, <2>2, InboxAssumption DEF BullTypeOK
    <2>4. InboxTypeOK'
      BY <1>1, <1>3, <2>1, <2>3 DEF RowTypeOK, HandlerTypeOK, RestTypeOK
    <2>5. HandlerHasItsJob'
      BY <1>1, <2>1 DEF InboxInv, HandlerHasItsJob, BullTypeOK, RestTypeOK
    <2>6. AttemptsAreBounded'
      <3>1. CASE StallDetected(e)
        BY <1>1, <2>1, <3>1 DEF StallDetected, InboxInv, AttemptsAreBounded, OutboxTypeOK,
           inboxVars, bull
      <3>2. CASE RemoveJob(e)
        BY <1>1, <1>5, <2>1, <3>2 DEF RemoveJob, InboxInv, AttemptsAreBounded, OutboxTypeOK, BullTypeOK
      <3> QED
        BY <1>7, <3>1, <3>2
    <2>7. InboxLockBelongsToHandler' /\ ResultMeansReturned'
      BY <2>1 DEF InboxInv, InboxLockBelongsToHandler, ResultMeansReturned
    <2> QED
      BY <2>4, <2>5, <2>6, <2>7 DEF InboxInv
  <1>8. ASSUME NEW e \in Events, JobLockLost(e) PROVE InboxInv'
    <2>1. /\ UNCHANGED <<inbox, inboxLeased, inboxBy, jobs, attemptsMade, dlq, step, job, claimed,
                         fatal, zombies, returned>>
          /\ owner' = [owner EXCEPT ![e] = NoWorker] /\ workerFaults' \in 0..MaxWorkerFaults
      BY <1>4, <1>8 DEF JobLockLost, outboxVars, inboxRow, handler
    <2>2. InboxTypeOK'
      BY <1>1, <1>3, <2>1 DEF RowTypeOK, BullTypeOK, HandlerTypeOK, RestTypeOK
    <2>3. HandlerHasItsJob' /\ ResultMeansReturned'
      BY <2>1 DEF InboxInv, HandlerHasItsJob, ResultMeansReturned
    <2>4. AttemptsAreBounded'
      BY <1>1, <2>1 DEF InboxInv, AttemptsAreBounded, BullTypeOK
    <2>5. InboxLockBelongsToHandler'
      BY <1>1, <1>5, <2>1 DEF InboxInv, InboxLockBelongsToHandler, BullTypeOK
    <2> QED
      BY <2>2, <2>3, <2>4, <2>5 DEF InboxInv
  <1>9. ASSUME NEW e \in Events, OrphanInboxLeaseExpires(e) \/ HeldInboxLeaseExpires(e)
        PROVE  InboxInv'
    <2>1. /\ UNCHANGED <<inbox, inboxBy, jobs, owner, attemptsMade, dlq, step, job, claimed,
                         fatal, zombies, returned>>
          /\ inboxLeased' = [inboxLeased EXCEPT ![e] = FALSE]
          /\ workerFaults' \in 0..MaxWorkerFaults
      BY <1>1, <1>4, <1>9 DEF OrphanInboxLeaseExpires, HeldInboxLeaseExpires, outboxVars, bull,
         handler, rest, RestTypeOK
    <2>2. InboxTypeOK'
      BY <1>1, <1>3, <2>1 DEF RowTypeOK, BullTypeOK, HandlerTypeOK, RestTypeOK
    <2>3. HandlerHasItsJob' /\ ResultMeansReturned' /\ AttemptsAreBounded'
      BY <2>1 DEF InboxInv, HandlerHasItsJob, ResultMeansReturned, AttemptsAreBounded
    <2>4. InboxLockBelongsToHandler'
      BY <1>1, <2>1 DEF InboxInv, InboxLockBelongsToHandler, RowTypeOK
    <2> QED
      BY <2>2, <2>3, <2>4 DEF InboxInv
  <1>10. ASSUME NEW e \in Events, CaptureDeadLetter(e) \/ CaptureLost(e) \/ ZombieEnds(e)
         PROVE  InboxInv'
    <2>1. /\ UNCHANGED <<inbox, inboxLeased, inboxBy, jobs, owner, attemptsMade, step, job,
                         claimed, fatal, returned>>
          /\ dlq' \subseteq dlq /\ zombies' \subseteq zombies
          /\ workerFaults' \in 0..MaxWorkerFaults
      BY <1>1, <1>4, <1>10 DEF CaptureDeadLetter, CaptureLost, ZombieEnds, outboxVars, inboxRow,
         bull, handler, rest, RestTypeOK
    <2>2. InboxTypeOK'
      BY <1>1, <1>3, <2>1 DEF RowTypeOK, BullTypeOK, HandlerTypeOK, RestTypeOK
    <2>3. HandlerHasItsJob'
      BY <2>1 DEF InboxInv, HandlerHasItsJob
    <2>4. ResultMeansReturned' /\ AttemptsAreBounded' /\ InboxLockBelongsToHandler'
      BY <2>1 DEF InboxInv, ResultMeansReturned, AttemptsAreBounded, InboxLockBelongsToHandler
    <2> QED
      BY <2>2, <2>3, <2>4 DEF InboxInv
  <1>11. ASSUME NEW w \in Workers, WorkerCrash(w) PROVE InboxInv'
    <2>1. /\ UNCHANGED <<inbox, inboxLeased, jobs, attemptsMade, dlq, zombies, returned>>
          /\ inboxBy' = [e \in Events |-> IF inboxBy[e] = w THEN Orphan ELSE inboxBy[e]]
          /\ owner' = [e \in Events |-> IF owner[e] = w THEN NoWorker ELSE owner[e]]
          /\ step' = [step EXCEPT ![w] = "idle"] /\ job' = [job EXCEPT ![w] = NoEvent]
          /\ claimed' = [claimed EXCEPT ![w] = FALSE] /\ fatal' = [fatal EXCEPT ![w] = FALSE]
          /\ workerFaults' \in 0..MaxWorkerFaults
      BY <1>4, <1>11 DEF WorkerCrash, End, outboxVars
    <2>2. RowTypeOK' /\ BullTypeOK' /\ RestTypeOK'
      BY <1>1, <2>1 DEF RowTypeOK, BullTypeOK, RestTypeOK
    <2>3. HandlerTypeOK'
      BY <1>1, <2>1 DEF HandlerTypeOK, HandlerStep
    <2>4. HandlerHasItsJob'
      BY <1>1, <2>1 DEF InboxInv, HandlerHasItsJob, HandlerTypeOK
    <2>5. AttemptsAreBounded' /\ ResultMeansReturned'
      BY <1>1, <2>1 DEF InboxInv, AttemptsAreBounded, ResultMeansReturned, BullTypeOK
    <2>6. InboxLockBelongsToHandler'
      BY <1>1, <1>5, <2>1 DEF InboxInv, InboxLockBelongsToHandler, HandlerTypeOK, RowTypeOK, BullTypeOK
    <2> QED
      BY <1>3, <2>2, <2>3, <2>4, <2>5, <2>6 DEF InboxInv
  <1> QED
    BY <1>6, <1>7, <1>8, <1>9, <1>10, <1>11 DEF Bull, InboxTimers

\* Every step of the composition keeps the invariant.
LEMMA InboxStepInv == InboxInv /\ [Next]_vars => InboxInv'
  <1> SUFFICES ASSUME InboxInv, [Next]_vars PROVE InboxInv'
    OBVIOUS
  <1>1. [OutboxNext]_outboxVars /\ OutboxInv
    BY InboxStepSimulates DEF InboxInv
  <1>2. OutboxInv' /\ OutboxTypeOK
    BY <1>1, OutboxStepInv DEF OutboxInv
  <1>3. \A e \in Events : jobs[e] # "absent" => jobs'[e] # "absent"
    BY <1>1, <1>2, QueuedStaysQueued
  <1>4. CASE DispatcherNext /\ UNCHANGED inboxVars
    BY <1>2, <1>3, <1>4, DispatcherKeepsInbox
  <1>5. CASE \E w \in Workers : Handle(w)
    BY <1>2, <1>3, <1>5, HandlerKeepsInv
  <1>6. CASE \/ \E e \in Events : Bull(e) \/ InboxTimers(e)
             \/ \E w \in Workers : WorkerCrash(w)
    BY <1>2, <1>3, <1>6, SurroundingsKeepInv
  <1>7. CASE UNCHANGED vars
    <2>1. UNCHANGED <<outboxVars, inboxRow, bull, handler, rest>>
      BY <1>7 DEF vars, inboxVars
    <2> QED
      BY <1>2, <2>1 DEF inboxRow, bull, handler, rest, outboxVars, InboxInv, InboxTypeOK, OutboxInv,
         HandlerHasItsJob, AttemptsAreBounded, InboxLockBelongsToHandler, ResultMeansReturned
  <1> QED
    BY <1>4, <1>5, <1>6, <1>7 DEF Next

\* The composition keeps its inductive invariant.
LEMMA InboxAlways == Spec => []InboxInv
  BY InboxInitInv, InboxStepInv, PTL DEF Spec

\* The state is well typed, attempts stay within their bound, and no result is
\* stored that no processor returned in time, however many handlers of an event
\* overlap, time out, die or run without a claim (completeRuntimeInbox).
THEOREM InboxSafety == Spec => []InboxInvariant
  <1>1. InboxInv => InboxInvariant
    BY DEF InboxInv, InboxInvariant
  <1> QED
    BY <1>1, InboxAlways, PTL

\* The lock of an inbox row, and the ownership of a job, is always that of a
\* run still working on that event, or of nobody (claimRuntimeInbox).
THEOREM InboxLocks == Spec => []InboxLockBelongsToHandler
  <1>1. InboxInv => InboxLockBelongsToHandler
    BY DEF InboxInv
  <1> QED
    BY <1>1, InboxAlways, PTL

\* The composition implements the outbox: whatever the workers do, to the
\* outbox they are its abstract consumer (processLeadVirtJobWithReliability).
THEOREM InboxImplementsOutbox == Spec => ImplementsOutbox
  <1>1. Init => OutboxInit
    BY DEF Init
  <1> QED
    BY <1>1, InboxAlways, InboxStepSimulates, PTL DEF Spec, OutboxSpec, ImplementsOutbox

\* So all that was proved of the outbox holds of the composition, and the
\* whole queue, dispatchers and workers together, delivers as EventDelivery
\* promises.
THEOREM RuntimeImplementsDelivery ==
    Spec => /\ ImplementsDelivery /\ SettledRowsStaySettled
            /\ [](/\ PublishedWasQueued /\ DeadLetterClosesWork /\ GivenUpForCause)
  BY InboxImplementsOutbox, OutboxImplementsDelivery, OutboxSettled, OutboxSafety, PTL
  DEF ImplementsOutbox

\* Who may move the row of e: nobody once it holds a result, and while its
\* lease is live only the run that holds it, by a step of its own.
MayMove(e) ==
    /\ inbox[e] # "SUCCEEDED"
    /\ Busy(e) => \E w \in Workers : inboxBy[e] = w /\ step'[w] # step[w]

\* Every step that moves a row was allowed to.
LEMMA RowMoves ==
  ASSUME InboxInv, [Next]_vars, NEW e \in Events,
         inbox'[e] # inbox[e] \/ inboxBy'[e] # inboxBy[e]
  PROVE  MayMove(e)
  <1>1. RowTypeOK /\ HandlerTypeOK
    BY InboxTypeParts DEF InboxInv
  <1>2. ~ UNCHANGED <<inbox, inboxBy>>
    OBVIOUS
  <1>3. \A w \in Workers : inboxBy[e] = w => inbox[e] = "PROCESSING"
    BY InboxAssumption DEF InboxInv, InboxLockBelongsToHandler
  <1>4. ASSUME NEW w \in Workers, job[w] \in Events, NEW lockId, ClaimWrites(lockId, job[w])
        PROVE  MayMove(e)
    <2>1. /\ inbox[job[w]] # "SUCCEEDED" /\ ~Busy(job[w])
          /\ SetInbox(job[w], "PROCESSING", TRUE, lockId)
      BY <1>2, <1>4, ClaimEffect DEF inboxRow
    <2>2. e = job[w]
      BY <1>1, <2>1 DEF SetInbox, RowTypeOK
    <2> QED
      BY <2>1, <2>2 DEF MayMove
  <1>5. ASSUME NEW w \in Workers, HoldsInbox(w), step'[w] # step[w], job[w] \in Events,
               NEW s, NEW b, NEW by, SetInbox(job[w], s, b, by)
        PROVE  MayMove(e)
    <2>1. e = job[w]
      BY <1>1, <1>5 DEF SetInbox, RowTypeOK
    <2> QED
      BY <1>5, <2>1 DEF MayMove, HoldsInbox
  <1>6. ASSUME NEW w \in Workers, Handle(w) PROVE MayMove(e)
    <2>1. step[w] # "idle"
      BY <1>6 DEF Handle, FirstClaim, WaitEnds, SecondClaim, ClaimError, ProcessorReturns,
         ProcessorThrows, Timeout, CompleteRuntimeInbox, FailRuntimeInbox
    <2>2. job[w] \in Events
      BY <2>1 DEF InboxInv, HandlerHasItsJob
    <2>3. CASE FirstClaim(w) \/ SecondClaim(w) \/ ClaimError(w)
      BY <1>2, <1>4, <2>2, <2>3 DEF FirstClaim, SecondClaim, ClaimError, inboxRow
    <2>4. CASE \/ WaitEnds(w) \/ ProcessorReturns(w) \/ Timeout(w)
               \/ \E unrecoverable \in BOOLEAN : ProcessorThrows(w, unrecoverable)
      BY <1>2, <2>4 DEF WaitEnds, ProcessorReturns, Timeout, ProcessorThrows, inboxRow
    <2>5. CASE CompleteRuntimeInbox(w)
      <3>1. HoldsInbox(w) /\ SetInbox(job[w], "SUCCEEDED", FALSE, NoWorker)
        BY <1>2, <2>5 DEF CompleteRuntimeInbox, inboxRow
      <3>2. step[w] = "completing" /\ (JobReturns(w) \/ Go(w, "failing"))
        BY <2>5 DEF CompleteRuntimeInbox
      <3>3. step'[w] # step[w]
        BY <1>1, <3>2 DEF JobReturns, End, Go, HandlerTypeOK
      <3> QED
        BY <1>5, <2>2, <3>1, <3>3
    <2>6. CASE FailRuntimeInbox(w)
      <3>1. HoldsInbox(w) /\ \E s, b, by : SetInbox(job[w], s, b, by)
        BY <1>2, <2>6 DEF FailRuntimeInbox, inboxRow
      <3>2. step[w] = "failing" /\ JobThrows(w)
        BY <2>6 DEF FailRuntimeInbox
      <3>3. step'[w] # step[w]
        BY <1>1, <3>2 DEF JobThrows, End, HandlerTypeOK
      <3> QED
        BY <1>5, <2>2, <3>1, <3>3
    <2> QED
      BY <1>6, <2>3, <2>4, <2>5, <2>6 DEF Handle
  <1>7. ASSUME NEW w \in Workers, WorkerCrash(w) PROVE MayMove(e)
    <2>1. inboxBy[e] = w /\ step'[w] # step[w]
      BY <1>1, <1>7 DEF WorkerCrash, End, HandlerTypeOK, RowTypeOK
    <2> QED
      BY <1>3, <2>1 DEF MayMove
  <1>8. ASSUME NEW f \in Events, Bull(f) \/ InboxTimers(f) PROVE UNCHANGED <<inbox, inboxBy>>
    BY <1>8 DEF Bull, InboxTimers, TakeJob, StallDetected, JobLockLost, RemoveJob,
       OrphanInboxLeaseExpires, HeldInboxLeaseExpires, CaptureDeadLetter, CaptureLost, ZombieEnds,
       inboxVars, inboxRow
  <1>9. CASE UNCHANGED inboxVars \/ UNCHANGED vars
    BY <1>2, <1>9 DEF vars, inboxVars, inboxRow
  <1> QED
    BY <1>2, <1>6, <1>7, <1>8, <1>9 DEF Next

\* A stored result is never taken back: no late failure, no claim of an
\* overlapping handler, no crash and no timer moves a SUCCEEDED row
\* (claimRuntimeInbox, failRuntimeInbox).
THEOREM ResultsAreFinal == Spec => ResultIsFinal
  <1>1. InboxInv /\ [Next]_vars =>
          [\A e \in Events : inbox[e] = "SUCCEEDED" => inbox'[e] = "SUCCEEDED"]_vars
    BY RowMoves DEF MayMove
  <1> QED
    BY <1>1, InboxAlways, PTL DEF Spec, ResultIsFinal

\* A run under a claim whose lease is live keeps it until it acts itself: no
\* overlapping run, timer or late failure takes over, releases or settles its
\* row (claimRuntimeInbox, the lockedBy guards).
THEOREM LiveClaims == Spec => LiveClaimIsUndisturbed
  <1>1. ASSUME InboxInv, [Next]_vars, NEW w \in Workers, NEW e, e = job[w],
               claimed[w], inboxBy[e] = w, inboxLeased[e], step'[w] = step[w]
        PROVE  inboxBy'[e] = w /\ inbox'[e] = inbox[e]
    <2>1. e \in Events
      BY <1>1 DEF InboxInv, HandlerHasItsJob
    <2>2. Busy(e)
      BY <1>1, <2>1 DEF Busy, InboxInv, InboxLockBelongsToHandler
    <2> QED
      BY <1>1, <2>1, <2>2, RowMoves DEF MayMove
  <1>2. InboxInv /\ [Next]_vars =>
          [\A w \in Workers : LET e == job[w] IN
             claimed[w] /\ inboxBy[e] = w /\ inboxLeased[e] /\ step'[w] = step[w]
             => inboxBy'[e] = w /\ inbox'[e] = inbox[e]]_vars
    BY <1>1
  <1> QED
    BY <1>2, InboxAlways, PTL DEF Spec, LiveClaimIsUndisturbed

=============================================================================
