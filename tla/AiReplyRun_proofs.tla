-------------------------- MODULE AiReplyRun_proofs --------------------------
(***************************************************************************)
(* Proofs about AiReplyRun, for any number of messages, attempts, retries  *)
(* and takeovers.                                                          *)
(***************************************************************************)
EXTENDS AiReplyRun, TLAPS

\* A run belongs to a persisted message and was made in this generation or an
\* earlier one; that of an overtaken message in an earlier one.
RunsArePlaced ==
    \A m \in Messages :
        /\ runStatus[m] # "NONE" => m \in arrived
        /\ runGeneration[m] <= generation
        /\ m \in overtaken => runStatus[m] # "NONE" /\ runGeneration[m] < generation

\* An attempt at work has a run, and a number its run has counted.
AttemptsAreCounted ==
    \A a \in Attempts : pc[a] # "idle" =>
        /\ message[a] \in Messages
        /\ runStatus[message[a]] # "NONE"
        /\ token[a] <= attemptCount[message[a]]

\* The inductive invariant.
ReplyInv ==
    /\ ReplyTypeOK
    /\ OneReplyPerSuccess
    /\ ActiveRunIsAtTheFence
    /\ AttemptsAreNumbered
    /\ RunsArePlaced
    /\ AttemptsAreCounted

-----------------------------------------------------------------------------

\* There are no runs and no attempts at the start.
LEMMA ReplyInitInv == Init => ReplyInv
  BY ReplyAssumption
  DEF Init, ReplyInv, ReplyTypeOK, OneReplyPerSuccess, ActiveRunIsAtTheFence,
      AttemptsAreNumbered, RunsArePlaced, AttemptsAreCounted, Active,
      RunStatus, ActiveStatus, TerminalStatus, AttemptStep

\* Superseding changes active runs only, and leaves none active.
LEMMA SupersedeActiveRuns ==
  ASSUME ReplyTypeOK
  PROVE  /\ SupersedeActive \in [Messages -> RunStatus]
         /\ \A m \in Messages :
               /\ SupersedeActive[m] \notin ActiveStatus
               /\ SupersedeActive[m] = "NONE" <=> runStatus[m] = "NONE"
               /\ SupersedeActive[m] = "SUCCEEDED" <=> runStatus[m] = "SUCCEEDED"
               /\ runStatus[m] \in TerminalStatus => SupersedeActive[m] = runStatus[m]
  BY DEF ReplyTypeOK, SupersedeActive, Active, RunStatus, ActiveStatus, TerminalStatus

\* A step that moves one run to a status other than SUCCEEDED, and changes no
\* fence, keeps what the invariant says of runs, if the run had not succeeded
\* and does not become active out of the fence's reach.
LEMMA RunStepInv ==
  ASSUME ReplyInv, NEW m \in Messages, NEW s \in RunStatus \ {"NONE", "SUCCEEDED"},
         runStatus[m] \notin {"NONE", "SUCCEEDED"},
         s \in ActiveStatus => Active(m),
         runStatus' = [runStatus EXCEPT ![m] = s],
         UNCHANGED <<inputVars, fenceVars, runGeneration, runSequence, replies, overtaken>>
  PROVE  OneReplyPerSuccess' /\ ActiveRunIsAtTheFence' /\ RunsArePlaced'
  BY DEF ReplyInv, ReplyTypeOK, OneReplyPerSuccess, ActiveRunIsAtTheFence, RunsArePlaced,
         Active, inputVars, fenceVars, RunStatus, ActiveStatus, TerminalStatus

\* Every step of intake, humans, events and attempts keeps the invariant.
LEMMA ReplyStepInv == ReplyInv /\ [Next]_vars => ReplyInv'
  <1> SUFFICES ASSUME ReplyInv, [Next]_vars PROVE ReplyInv'
    OBVIOUS
  <1> USE ReplyAssumption DEF ReplyInv, inputVars, fenceVars, runVars, attemptVars
  <1>1. ASSUME NEW m \in Messages, CreateAiReplyQueueEvent(m) PROVE ReplyInv'
    <2>1. CASE admitted
      <3>1. /\ runStatus[m] = "NONE" /\ arrived' = arrived \cup {m}
            /\ sequence' = sequence + 1 /\ fence' = sequence + 1
            /\ runStatus' = [SupersedeActive EXCEPT ![m] = "QUEUED"]
            /\ runGeneration' = [runGeneration EXCEPT ![m] = generation]
            /\ runSequence' = [runSequence EXCEPT ![m] = sequence + 1]
            /\ bound' = bound \cup {m}
            /\ UNCHANGED <<generation, attemptCount, edited, admitted, replies, attemptVars, overtaken>>
        BY <1>1, <2>1 DEF CreateAiReplyQueueEvent
      <3>2. /\ runStatus'[m] = "QUEUED"
            /\ \A k \in Messages : k # m => runStatus'[k] = SupersedeActive[k]
            /\ runStatus' \in [Messages -> RunStatus]
        BY <3>1, SupersedeActiveRuns DEF RunStatus, ActiveStatus
      <3>3. ReplyTypeOK'
        BY <3>1, <3>2 DEF ReplyTypeOK
      <3>4. OneReplyPerSuccess'
        BY <3>1, <3>2, SupersedeActiveRuns DEF OneReplyPerSuccess
      <3>5. ActiveRunIsAtTheFence'
        BY <3>1, <3>2, SupersedeActiveRuns DEF ActiveRunIsAtTheFence, Active, ReplyTypeOK
      <3>6. RunsArePlaced'
        BY <3>1, <3>2, SupersedeActiveRuns DEF RunsArePlaced, ReplyTypeOK
      <3>7. AttemptsAreNumbered'
        BY <3>1 DEF AttemptsAreNumbered
      <3>8. AttemptsAreCounted'
        BY <3>1, <3>2, SupersedeActiveRuns DEF AttemptsAreCounted
      <3> QED
        BY <3>3, <3>4, <3>5, <3>6, <3>7, <3>8
    <2>2. CASE ~admitted
      BY <1>1, <2>2, ZenonT(60) DEF CreateAiReplyQueueEvent, ReplyTypeOK, OneReplyPerSuccess,
         ActiveRunIsAtTheFence, AttemptsAreNumbered, RunsArePlaced, AttemptsAreCounted, Active
    <2> QED
      BY <2>1, <2>2
  <1>2. ASSUME NEW m \in Messages, EditMessage(m) PROVE ReplyInv'
    BY <1>2 DEF EditMessage, ReplyTypeOK, OneReplyPerSuccess, ActiveRunIsAtTheFence,
       AttemptsAreNumbered, RunsArePlaced, AttemptsAreCounted, Active
  <1>3. ASSUME NEW m \in Messages, EventGivenUp(m) PROVE ReplyInv'
    <2>1. /\ runStatus' = [runStatus EXCEPT ![m] = "DEAD_LETTER"]
          /\ runStatus[m] \notin {"NONE", "SUCCEEDED"}
          /\ UNCHANGED <<inputVars, admitted, fenceVars, runGeneration, runSequence, attemptCount,
                         bound, replies, attemptVars, overtaken>>
      BY <1>3 DEF EventGivenUp, Active, ActiveStatus
    <2>2. OneReplyPerSuccess' /\ ActiveRunIsAtTheFence' /\ RunsArePlaced'
      BY <2>1, RunStepInv DEF RunStatus, ActiveStatus, TerminalStatus
    <2>3. ReplyTypeOK'
      BY <2>1 DEF ReplyTypeOK, RunStatus, TerminalStatus
    <2>4. AttemptsAreNumbered' /\ AttemptsAreCounted'
      BY <2>1 DEF AttemptsAreNumbered, AttemptsAreCounted, ReplyTypeOK
    <2> QED
      BY <2>2, <2>3, <2>4
  <1>4. ASSUME NEW admit \in BOOLEAN, TakeOver(admit) PROVE ReplyInv'
    <2>1. /\ runStatus' = SupersedeActive
          /\ generation' = generation + 1 /\ sequence' = sequence + 1 /\ fence' = sequence + 1
          /\ admitted' = admit
          /\ overtaken' = {m \in Messages : runStatus[m] # "NONE"}
          /\ UNCHANGED <<inputVars, runGeneration, runSequence, attemptCount, bound, replies, attemptVars>>
      BY <1>4 DEF TakeOver
    <2>2. ReplyTypeOK'
      BY <2>1, SupersedeActiveRuns DEF ReplyTypeOK
    <2>3. OneReplyPerSuccess' /\ ActiveRunIsAtTheFence'
      BY <2>1, SupersedeActiveRuns DEF OneReplyPerSuccess, ActiveRunIsAtTheFence, Active
    <2>4. RunsArePlaced'
      BY <2>1, SupersedeActiveRuns DEF RunsArePlaced, ReplyTypeOK
    <2>5. AttemptsAreNumbered' /\ AttemptsAreCounted'
      BY <2>1, SupersedeActiveRuns DEF AttemptsAreNumbered, AttemptsAreCounted
    <2> QED
      BY <2>2, <2>3, <2>4, <2>5
  <1>5. ASSUME AdmissionChanges \/ BindingChanges PROVE ReplyInv'
    BY <1>5, ZenonT(60) DEF AdmissionChanges, BindingChanges, ReplyTypeOK, OneReplyPerSuccess,
       ActiveRunIsAtTheFence, AttemptsAreNumbered, RunsArePlaced, AttemptsAreCounted, Active
  <1>6. ASSUME NEW a \in Attempts, NEW m \in Messages, BeginAiReplyAttempt(a, m) PROVE ReplyInv'
    <2>1. /\ pc[a] = "idle" /\ runStatus[m] # "NONE"
          /\ UNCHANGED <<inputVars, admitted, fenceVars, runGeneration, runSequence, bound,
                         replies, overtaken>>
      BY <1>6 DEF BeginAiReplyAttempt
    <2>2. CASE Decline(a, m)
      <3>1. UNCHANGED <<attemptCount, attemptVars>>
        BY <2>2 DEF Decline
      <3>2. CASE ~Active(m)
        <4>1. UNCHANGED runStatus
          BY <2>2, <3>2 DEF Decline, ReplyTypeOK
        <4> QED
          BY <2>1, <3>1, <4>1 DEF ReplyTypeOK, OneReplyPerSuccess, ActiveRunIsAtTheFence,
             AttemptsAreNumbered, RunsArePlaced, AttemptsAreCounted, Active
      <3>3. CASE Active(m)
        <4>1. PICK s \in {"DEAD_LETTER", "SUPERSEDED"} : runStatus' = [runStatus EXCEPT ![m] = s]
          BY <2>2, <3>3 DEF Decline
        <4>2. runStatus[m] \notin {"NONE", "SUCCEEDED"}
          BY <3>3 DEF Active, ActiveStatus
        <4>3. OneReplyPerSuccess' /\ ActiveRunIsAtTheFence' /\ RunsArePlaced'
          BY <2>1, <4>1, <4>2, RunStepInv DEF RunStatus, ActiveStatus, TerminalStatus
        <4>4. ReplyTypeOK'
          BY <2>1, <3>1, <4>1 DEF ReplyTypeOK, RunStatus, TerminalStatus
        <4>5. AttemptsAreNumbered' /\ AttemptsAreCounted'
          BY <3>1, <4>1 DEF AttemptsAreNumbered, AttemptsAreCounted, ReplyTypeOK
        <4> QED
          BY <4>3, <4>4, <4>5
      <3> QED
        BY <3>2, <3>3
    <2>3. CASE Start(a, m)
      <3>1. /\ runStatus' = [runStatus EXCEPT ![m] = "RUNNING"]
            /\ attemptCount' = [attemptCount EXCEPT ![m] = attemptCount[m] + 1]
            /\ pc' = [pc EXCEPT ![a] = "running"]
            /\ message' = [message EXCEPT ![a] = m]
            /\ token' = [token EXCEPT ![a] = attemptCount[m] + 1]
        BY <2>3 DEF Start
      <3>2. /\ Active(m) /\ attemptCount[m] + 1 \in 0..MaxAttempts
            /\ runStatus[m] \notin {"NONE", "SUCCEEDED"}
        BY <2>3 DEF Start, Stale, Active, ActiveStatus, ReplyTypeOK
      <3>3. OneReplyPerSuccess' /\ ActiveRunIsAtTheFence' /\ RunsArePlaced'
        BY <2>1, <3>1, <3>2, RunStepInv DEF RunStatus, ActiveStatus, TerminalStatus
      <3>4. ReplyTypeOK'
        BY <2>1, <3>1, <3>2 DEF ReplyTypeOK, RunStatus, ActiveStatus, AttemptStep
      <3>5. AttemptsAreCounted'
        <4>1. ASSUME NEW b \in Attempts, b # a, pc'[b] # "idle"
              PROVE  /\ message'[b] \in Messages /\ runStatus'[message'[b]] # "NONE"
                     /\ token'[b] <= attemptCount'[message'[b]]
          <5>1. /\ message'[b] = message[b] /\ token'[b] = token[b] /\ pc[b] # "idle"
            BY <3>1, <4>1 DEF ReplyTypeOK
          <5>2. PICK k \in Messages : k = message[b]
            BY <5>1 DEF AttemptsAreCounted
          <5>3. token[b] <= attemptCount[k] /\ runStatus[k] # "NONE" /\ token[b] \in Nat
            BY <5>1, <5>2 DEF AttemptsAreCounted, ReplyTypeOK
          <5>4. attemptCount[k] <= attemptCount'[k] /\ runStatus'[k] # "NONE"
                /\ attemptCount[k] \in Nat /\ attemptCount'[k] \in Nat
            BY <3>1, <3>2, <5>3 DEF ReplyTypeOK
          <5> QED
            BY <5>1, <5>2, <5>3, <5>4
        <4>2. /\ message'[a] = m /\ runStatus'[m] # "NONE"
              /\ token'[a] = attemptCount'[m] /\ attemptCount'[m] \in Nat
          BY <3>1, <3>2 DEF ReplyTypeOK
        <4> QED
          BY <4>1, <4>2 DEF AttemptsAreCounted
      <3>6. AttemptsAreNumbered'
        <4>1. ASSUME NEW b \in Attempts, b # a, pc'[b] # "idle", message'[b] = m
              PROVE  token'[b] # token'[a]
          <5>1. message[b] = m /\ token'[b] = token[b] /\ pc[b] # "idle"
            BY <3>1, <4>1 DEF ReplyTypeOK
          <5>2. token[b] <= attemptCount[m] /\ token[b] \in Nat /\ attemptCount[m] \in Nat
            BY <5>1 DEF AttemptsAreCounted, ReplyTypeOK
          <5> QED
            BY <3>1, <5>1, <5>2 DEF ReplyTypeOK
        <4> QED
          BY <3>1, <4>1 DEF AttemptsAreNumbered, ReplyTypeOK
      <3> QED
        BY <3>3, <3>4, <3>5, <3>6
    <2> QED
      BY <1>6, <2>2, <2>3 DEF BeginAiReplyAttempt
  <1>7. ASSUME NEW a \in Attempts, NEW handoff \in BOOLEAN, CommitReply(a, handoff) PROVE ReplyInv'
    <2>1. PICK m \in Messages : m = message[a]
      BY <1>7 DEF CommitReply, AttemptsAreCounted
    <2>2. /\ runStatus[m] = "RUNNING" /\ m \in arrived
          /\ replies' = [replies EXCEPT ![m] = replies[m] + 1]
          /\ runStatus' = [runStatus EXCEPT ![m] = "SUCCEEDED"]
          /\ admitted' = (admitted /\ ~handoff)
          /\ Return(a) \/ GoTo(a, "failing")
          /\ UNCHANGED <<inputVars, fenceVars, runGeneration, runSequence, attemptCount, bound, overtaken>>
      BY <1>7, <2>1 DEF CommitReply, AssertAttempt, Owns, RunsArePlaced
    <2>3. replies[m] = 0 /\ replies'[m] = 1 /\ replies' \in [Messages -> Nat]
      BY <2>2 DEF OneReplyPerSuccess, ReplyTypeOK
    <2>4. ReplyTypeOK'
      <3>1. runStatus' \in [Messages -> RunStatus] /\ admitted' \in BOOLEAN
        BY <2>2 DEF ReplyTypeOK, RunStatus, TerminalStatus
      <3>2. /\ pc' \in [Attempts -> AttemptStep]
            /\ message' \in [Attempts -> Messages \cup {NoMessage}]
            /\ token' \in [Attempts -> 0..MaxAttempts]
        BY <2>2 DEF ReplyTypeOK, Return, GoTo, AttemptStep
      <3> QED
        BY <2>2, <2>3, <3>1, <3>2 DEF ReplyTypeOK
    <2>5. OneReplyPerSuccess'
      BY <2>2, <2>3 DEF OneReplyPerSuccess, ReplyTypeOK
    <2>6. ActiveRunIsAtTheFence' /\ RunsArePlaced'
      BY <2>2 DEF ActiveRunIsAtTheFence, RunsArePlaced, Active, ActiveStatus, ReplyTypeOK
    <2>7. AttemptsAreNumbered' /\ AttemptsAreCounted'
      BY <1>7, <2>2 DEF CommitReply, AttemptsAreNumbered, AttemptsAreCounted, ReplyTypeOK, Return, GoTo
    <2> QED
      BY <2>4, <2>5, <2>6, <2>7
  <1>8. ASSUME NEW a \in Attempts, FenceRejects(a) \/ AttemptThrows(a) \/ Crash(a) PROVE ReplyInv'
    <2>1. /\ UNCHANGED <<inputVars, admitted, fenceVars, runVars, replies, overtaken>>
          /\ pc[a] # "idle"
          /\ Return(a) \/ GoTo(a, "revoked") \/ GoTo(a, "fenced") \/ GoTo(a, "failing")
      BY <1>8 DEF FenceRejects, AttemptThrows, Crash
    <2>2. ReplyTypeOK'
      BY <2>1 DEF ReplyTypeOK, Return, GoTo, AttemptStep
    <2>3. AttemptsAreNumbered' /\ AttemptsAreCounted'
      BY <2>1 DEF AttemptsAreNumbered, AttemptsAreCounted, ReplyTypeOK, Return, GoTo
    <2> QED
      BY <2>1, <2>2, <2>3 DEF OneReplyPerSuccess, ActiveRunIsAtTheFence, RunsArePlaced, Active
  <1>9. ASSUME NEW a \in Attempts,
               SupersedeOwnAttempt(a) \/ \E timedOut \in BOOLEAN : MarkAiReplyAttemptFailed(a, timedOut)
        PROVE  ReplyInv'
    <2>1. /\ UNCHANGED <<inputVars, admitted, fenceVars, runGeneration, runSequence,
                         attemptCount, bound, replies, overtaken>>
          /\ pc[a] # "idle"
          /\ Return(a) \/ GoTo(a, "failing")
      BY <1>9 DEF SupersedeOwnAttempt, MarkAiReplyAttemptFailed
    <2>2. PICK m \in Messages : m = message[a]
      BY <2>1 DEF AttemptsAreCounted
    <2>3. \/ UNCHANGED runStatus
          \/ /\ runStatus[m] = "RUNNING"
             /\ \E s \in {"SUPERSEDED", "RETRY_SCHEDULED", "TIMED_OUT", "DEAD_LETTER"} :
                    runStatus' = [runStatus EXCEPT ![m] = s]
      BY <1>9, <2>2 DEF SupersedeOwnAttempt, MarkAiReplyAttemptFailed, Owns
    <2>4. OneReplyPerSuccess' /\ ActiveRunIsAtTheFence' /\ RunsArePlaced'
          /\ runStatus' \in [Messages -> RunStatus]
          /\ \A k \in Messages : runStatus[k] # "NONE" => runStatus'[k] # "NONE"
      <3>1. CASE UNCHANGED runStatus
        BY <2>1, <3>1 DEF OneReplyPerSuccess, ActiveRunIsAtTheFence, RunsArePlaced, Active, ReplyTypeOK
      <3>2. CASE runStatus' # runStatus
        <4>1. PICK s \in {"SUPERSEDED", "RETRY_SCHEDULED", "TIMED_OUT", "DEAD_LETTER"} :
                 runStatus[m] = "RUNNING" /\ runStatus' = [runStatus EXCEPT ![m] = s]
          BY <2>3, <3>2
        <4>2. s \in RunStatus \ {"NONE", "SUCCEEDED"} /\ Active(m)
          BY <4>1 DEF RunStatus, ActiveStatus, TerminalStatus, Active
        <4>3. OneReplyPerSuccess' /\ ActiveRunIsAtTheFence' /\ RunsArePlaced'
          BY <2>1, <4>1, <4>2, RunStepInv
        <4> QED
          BY <4>1, <4>2, <4>3 DEF ReplyTypeOK
      <3> QED
        BY <3>1, <3>2
    <2>5. ReplyTypeOK'
      BY <2>1, <2>4 DEF ReplyTypeOK, Return, GoTo, AttemptStep
    <2>6. AttemptsAreNumbered' /\ AttemptsAreCounted'
      BY <2>1, <2>4, ZenonT(60) DEF AttemptsAreNumbered, AttemptsAreCounted, ReplyTypeOK, Return, GoTo
    <2> QED
      BY <2>4, <2>5, <2>6
  <1>10. CASE UNCHANGED vars
    BY <1>10 DEF vars, ReplyTypeOK, OneReplyPerSuccess, ActiveRunIsAtTheFence,
       AttemptsAreNumbered, RunsArePlaced, AttemptsAreCounted, Active
  <1> QED
    BY <1>1, <1>2, <1>3, <1>4, <1>5, <1>6, <1>7, <1>8, <1>9, <1>10 DEF Next, Attempt

\* The type invariant and the safety invariants of the replies hold for every
\* number of messages, attempts, retries and takeovers: one reply per success,
\* one active run at the fence, distinct attempt numbers
\* (createAiReplyQueueEvent, beginAiReplyAttempt, withFencedAiReplyTransaction).
THEOREM ReplySafety ==
    Spec => [](ReplyTypeOK /\ OneReplyPerSuccess /\ ActiveRunIsAtTheFence /\ AttemptsAreNumbered)
  <1>1. Spec => []ReplyInv
    BY ReplyInitInv, ReplyStepInv, PTL DEF Spec
  <1>2. ReplyInv => ReplyTypeOK /\ OneReplyPerSuccess /\ ActiveRunIsAtTheFence /\ AttemptsAreNumbered
    BY DEF ReplyInv
  <1> QED
    BY <1>1, <1>2, PTL

\* A reply message is created only by the commit of an attempt on a run of the
\* current generation, to the newest persisted message.
LEMMA RepliesComeFromCommits ==
  ASSUME ReplyInv, [Next]_vars, NEW m \in Messages, replies'[m] # replies[m]
  PROVE  runGeneration[m] = generation /\ ~NewerInbound(m)
  <1>1. PICK a \in Attempts, handoff \in BOOLEAN : CommitReply(a, handoff)
    BY DEF Next, Attempt, vars, CreateAiReplyQueueEvent, EditMessage, EventGivenUp, TakeOver,
       AdmissionChanges, BindingChanges, BeginAiReplyAttempt, FenceRejects, SupersedeOwnAttempt,
       AttemptThrows, MarkAiReplyAttemptFailed, Crash
  <1>2. m = message[a]
    BY <1>1 DEF CommitReply, ReplyInv, ReplyTypeOK
  <1> QED
    BY <1>1, <1>2 DEF CommitReply, AssertAttempt

\* In every conversation at most one run is active, the one its fence admits, whatever
\* order messages arrive in (createAiReplyQueueEvent, fencePendingAiReply).
THEOREM ActiveRuns == Spec => []ActiveRunIsAtTheFence
  BY ReplySafety, PTL

\* No reply is created for a message once a human has overtaken it
\* (fencePendingAiReply).
THEOREM TakeOverIsFinal == Spec => NoReplyAfterTakeOver
  <1>1. ASSUME ReplyInv, [Next]_vars, NEW m \in overtaken PROVE replies'[m] = replies[m]
    <2>1. m \in Messages /\ runGeneration[m] # generation
      BY <1>1 DEF ReplyInv, ReplyTypeOK, RunsArePlaced
    <2> QED
      BY <1>1, <2>1, RepliesComeFromCommits
  <1>2. ReplyInv /\ [Next]_vars => [\A m \in overtaken : replies'[m] = replies[m]]_vars
    BY <1>1
  <1> QED
    BY <1>2, ReplyInitInv, ReplyStepInv, PTL DEF Spec, NoReplyAfterTakeOver

\* Replies are created in the order of their messages (hasLaterInboundMessage).
THEOREM RepliesAreOrdered == Spec => RepliesInOrder
  <1>1. ASSUME ReplyInv, [Next]_vars, NEW m \in Messages, NEW k \in Messages, m < k, replies[k] > 0
        PROVE  replies'[m] = replies[m]
    <2>1. runStatus[k] = "SUCCEEDED"
      BY <1>1 DEF ReplyInv, OneReplyPerSuccess
    <2>2. k \in arrived
      BY <2>1, <1>1 DEF ReplyInv, RunsArePlaced
    <2>3. NewerInbound(m)
      BY <2>2, <1>1, ReplyAssumption DEF NewerInbound
    <2> QED
      BY <1>1, <2>3, RepliesComeFromCommits
  <1>2. ReplyInv /\ [Next]_vars =>
          [\A m, k \in Messages : m < k /\ replies[k] > 0 => replies'[m] = replies[m]]_vars
    BY <1>1
  <1> QED
    BY <1>2, ReplyInitInv, ReplyStepInv, PTL DEF Spec, RepliesInOrder

\* A settled run stays settled (the where clauses of the run updates).
THEOREM SettledRuns == Spec => SettledRunsStaySettled
  <1>1. ASSUME ReplyInv, [Next]_vars, NEW m \in Messages, runStatus[m] \in TerminalStatus
        PROVE  runStatus'[m] = runStatus[m]
    <2> USE <1>1 DEF ReplyInv, ReplyTypeOK, TerminalStatus, ActiveStatus, Active
    <2>1. CASE \E k \in Messages : CreateAiReplyQueueEvent(k)
      BY <2>1, SupersedeActiveRuns DEF CreateAiReplyQueueEvent, runVars
    <2>2. CASE \E admit \in BOOLEAN : TakeOver(admit)
      BY <2>2, SupersedeActiveRuns DEF TakeOver
    <2>3. CASE \E a \in Attempts, k \in Messages : BeginAiReplyAttempt(a, k)
      BY <2>3 DEF BeginAiReplyAttempt, Decline, Start, Stale
    <2>4. CASE \E a \in Attempts : \/ \E h \in BOOLEAN : CommitReply(a, h)
                                   \/ SupersedeOwnAttempt(a)
                                   \/ \E t \in BOOLEAN : MarkAiReplyAttemptFailed(a, t)
      BY <2>4 DEF CommitReply, AssertAttempt, SupersedeOwnAttempt, MarkAiReplyAttemptFailed, Owns
    <2>5. CASE \E k \in Messages : EventGivenUp(k)
      BY <2>5 DEF EventGivenUp
    <2>6. CASE UNCHANGED runStatus
      BY <2>6
    <2> QED
      BY <2>1, <2>2, <2>3, <2>4, <2>5, <2>6 DEF Next, Attempt, vars, runVars, EditMessage,
         AdmissionChanges, BindingChanges, FenceRejects, AttemptThrows, Crash
  <1>2. ReplyInv /\ [Next]_vars =>
          [\A m \in Messages : runStatus[m] \in TerminalStatus => runStatus'[m] = runStatus[m]]_vars
    BY <1>1
  <1> QED
    BY <1>2, ReplyInitInv, ReplyStepInv, PTL DEF Spec, SettledRunsStaySettled

=============================================================================
