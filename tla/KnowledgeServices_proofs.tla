--------------------- MODULE KnowledgeServices_proofs ---------------------
(***************************************************************************)
(* Proofs about two services of the Knowledge API, which share no state:   *)
(* IdempotentMutation, for any number of calls and requests, and           *)
(* IndexSnapshot, for any number of preparers and partitions and any       *)
(* bounds on errors, stalls and losses.                                    *)
(***************************************************************************)
EXTENDS IdempotentMutation, IndexSnapshot, TLAPS

(* Idempotent mutations.                                                   *)

\* The record that a replay is answered from was made for the request of the
\* call that owns it.
RecordKeepsRequest ==
    record.status # "ABSENT" => record.request = request[record.id]

\* The inductive invariant.
MutationInv == MutationInvariant /\ RecordKeepsRequest

\* A row that is there was created by a call.
LEMMA RecordIsOwned ==
  ASSUME MutationTypeOK, record.status # "ABSENT"
  PROVE  /\ record \in [id : Executions, request : Requests,
                        status : {"IN_PROGRESS"} \cup Settled, live : BOOLEAN]
         /\ record.id \in Executions /\ record.request \in Requests
         /\ record.live \in BOOLEAN
         /\ record.status \in {"IN_PROGRESS"} \cup Settled
  BY DEF MutationTypeOK, Absent

\* Only a record that is there can be live.
LEMMA LiveIsThere ==
  ASSUME MutationTypeOK, record.live
  PROVE  record.status # "ABSENT"
  <1>1. CASE record = Absent
    BY <1>1 DEF Absent
  <1>2. CASE record # Absent
    BY <1>2 DEF MutationTypeOK, Settled
  <1> QED
    BY <1>1, <1>2

\* There is no record before the first call.
LEMMA MutationInitInv == Init => MutationInv
  BY NoneAssumption
  DEF Init, MutationInv, MutationInvariant, MutationTypeOK, ToldOfTheSameRequest,
      RecordKeepsRequest, Absent

\* Every step of a call, of the clock and of other keys keeps the invariant.
LEMMA MutationStepInv == MutationInv /\ [Next]_vars => MutationInv'
  <1> SUFFICES ASSUME MutationInv, [Next]_vars PROVE MutationInv'
    OBVIOUS
  <1> USE NoneAssumption DEF MutationInv, MutationInvariant, MutationTypeOK,
      ToldOfTheSameRequest, RecordKeepsRequest, GoTo
  <1>0. "ABSENT" \notin {"IN_PROGRESS"} \cup Settled /\ Settled = {"SUCCEEDED", "FAILED"}
    BY DEF Settled
  <1>1. CASE PurgeExpired
    BY <1>1 DEF PurgeExpired, Absent
  <1>2. CASE Expire
    <2>1. record.status # "ABSENT"
      BY <1>2, LiveIsThere DEF Expire
    <2>2. record \in [id : Executions, request : Requests,
                      status : {"IN_PROGRESS"} \cup Settled, live : BOOLEAN]
      BY <2>1, RecordIsOwned
    <2> QED
      BY <1>2, <2>1, <2>2 DEF Expire
  <1>3. ASSUME NEW e \in Executions, Start(e) PROVE MutationInv'
    <2>1. CASE Claim(e)
      BY <2>1, <1>0 DEF Claim, Create
    <2>2. CASE RefuseReuse(e) \/ Busy(e)
      BY <2>2 DEF RefuseReuse, Busy
    <2>3. CASE Replay(e)
      <3>1. record.status # "ABSENT" /\ record.request = request[e]
        BY <2>3, <1>0 DEF Replay, IsReplay
      <3>2. record.id \in Executions /\ request[record.id] = request[e]
        BY <3>1, RecordIsOwned
      <3> QED
        BY <2>3, <3>2 DEF Replay
    <2> QED
      BY <1>3, <2>1, <2>2, <2>3 DEF Start
  <1>4. ASSUME NEW e \in Executions, Retry(e) PROVE MutationInv'
    BY <1>4 DEF Retry
  <1>5. ASSUME NEW e \in Executions, RenewLease(e) PROVE MutationInv'
    <2>1. CASE Holds(e) /\ record' = [record EXCEPT !.live = TRUE]
               /\ UNCHANGED <<leaseLost, request, pc, effects, told>>
      <3>1. record \in [id : Executions, request : Requests,
                        status : {"IN_PROGRESS"} \cup Settled, live : BOOLEAN]
        BY <2>1, RecordIsOwned DEF Holds
      <3> QED
        BY <2>1, <3>1
    <2>2. CASE leaseLost' = [leaseLost EXCEPT ![e] = TRUE]
               /\ UNCHANGED <<record, request, pc, effects, told>>
      BY <2>2
    <2> QED
      BY <1>5, <2>1, <2>2 DEF RenewLease
  <1>6. ASSUME NEW e \in Executions, Work(e) PROVE MutationInv'
    <2>1. CASE Prepare(e)
      BY <2>1 DEF Prepare
    <2>2. ASSUME NEW s \in Settled, Store(e, s)
          PROVE  /\ record' \in [id : Executions, request : Requests,
                                 status : {"IN_PROGRESS"} \cup Settled, live : BOOLEAN]
                 /\ record'.request = request[record'.id]
      BY <2>2 DEF Store
    <2>3. CASE FinishPreparationFailure(e)
      <3>1. CASE Store(e, "FAILED") /\ told' = [told EXCEPT ![e] = e]
        BY <2>2, <2>3, <3>1, <1>0 DEF FinishPreparationFailure
      <3>2. CASE Delete(e) /\ UNCHANGED told
        BY <2>3, <3>2 DEF FinishPreparationFailure, Delete, Absent
      <3>3. CASE UNCHANGED <<record, told>>
        BY <2>3, <3>3 DEF FinishPreparationFailure
      <3> QED
        BY <2>3, <3>1, <3>2, <3>3 DEF FinishPreparationFailure
    <2>4. CASE Mutate(e)
      <3>1. PICK s \in Settled : Store(e, s)
        BY <2>4, <1>0 DEF Mutate, Perform, Reject
      <3>2. /\ told' \in {told, [told EXCEPT ![e] = e]}
            /\ effects' \in {effects, effects \cup {e}}
            /\ \E at \in {"done", "release"} : GoTo(e, at)
            /\ UNCHANGED <<request, leaseLost>>
        BY <2>4 DEF Mutate, Perform, Reject, Committed
      <3> QED
        BY <2>2, <3>1, <3>2
    <2>5. CASE Abort(e)
      BY <2>5 DEF Abort
    <2>6. CASE Release(e)
      BY <2>6 DEF Release, Delete, Absent
    <2> QED
      BY <1>6, <2>1, <2>3, <2>4, <2>5, <2>6 DEF Work
  <1>7. ASSUME NEW e \in Executions, Crash(e) PROVE MutationInv'
    BY <1>7 DEF Crash
  <1>8. CASE UNCHANGED vars
    BY <1>8 DEF vars
  <1> QED
    BY <1>1, <1>2, <1>3, <1>4, <1>5, <1>6, <1>7, <1>8 DEF Next

\* The record is well typed, and every call that is answered is answered the
\* outcome of a call with the same request, whatever leases run out and
\* whichever calls die (executePrepared, claim).
THEOREM MutationSafety == Spec => []MutationInvariant
  <1>1. MutationInv => MutationInvariant
    BY DEF MutationInv
  <1> QED
    BY <1>1, MutationInitInv, MutationStepInv, PTL DEF Spec

-----------------------------------------------------------------------------
(* Refinement.                                                             *)

\* The outcome that is kept for the key: the refinement mapping, named.
Kept == IF record.status \in Settled /\ record.live THEN record.id ELSE None

\* Every step of a call is a step of OncePerKey or invisible to it.
LEMMA MutationStepSimulates ==
    MutationInv /\ [Next]_vars => [Once!OnceNext]_(Once!onceVars)
  <1> SUFFICES ASSUME MutationInv, [Next]_vars
               PROVE  Once!OnceNext \/ UNCHANGED Once!onceVars
    OBVIOUS
  <1>0. Settled = {"SUCCEEDED", "FAILED"} /\ MutationTypeOK
    BY DEF Settled, MutationInv, MutationInvariant
  <1>1. ASSUME Kept' = Kept, UNCHANGED <<effects, told>>
        PROVE  UNCHANGED Once!onceVars
    BY <1>1 DEF Kept, Once!onceVars
  <1>2. ASSUME NEW e \in Executions, NEW s \in Settled, Kept = None, Store(e, s),
               effects' \in {effects, effects \cup {e}},
               told' \in {told, [told EXCEPT ![e] = e]}
        PROVE  Once!OnceNext
    <2>1. Kept' = e
      BY <1>2 DEF Kept, Store
    <2>2. Once!Settle(e)
      BY <1>2, <2>1 DEF Once!Settle, Kept
    <2> QED
      BY <2>2 DEF Once!OnceNext
  <1>3. ASSUME NEW e \in Executions, Holds(e) PROVE Kept = None
    BY <1>0, <1>3 DEF Kept, Holds
  <1>4. ASSUME NEW e \in Executions, Delete(e), UNCHANGED <<effects, told>>
        PROVE  UNCHANGED Once!onceVars
    <2>1. CASE Holds(e)
      BY <1>0, <1>1, <1>3, <1>4, <2>1 DEF Delete, Kept, Absent
    <2>2. CASE ~Holds(e)
      BY <1>1, <1>4, <2>2 DEF Delete, Kept
    <2> QED
      BY <2>1, <2>2
  <1>5. CASE PurgeExpired
    BY <1>0, <1>1, <1>5 DEF PurgeExpired, Kept, Absent
  <1>6. CASE Expire
    <2>1. record.status # "ABSENT"
      BY <1>0, <1>6, LiveIsThere DEF Expire
    <2>2. record.id \in Executions /\ record.id # None
      BY <1>0, <2>1, RecordIsOwned, NoneAssumption
    <2>3. Kept' = None /\ UNCHANGED <<effects, told>>
      BY <1>0, <1>6, RecordIsOwned, <2>1 DEF Expire, Kept
    <2>4. CASE record.status \in Settled
      <3>1. Kept # None
        BY <1>6, <2>2, <2>4 DEF Expire, Kept
      <3>2. Once!Forget
        BY <2>3, <3>1 DEF Once!Forget, Kept
      <3> QED
        BY <3>2 DEF Once!OnceNext
    <2>5. CASE record.status \notin Settled
      BY <1>1, <2>3, <2>5 DEF Kept
    <2> QED
      BY <2>4, <2>5
  <1>7. ASSUME NEW e \in Executions, Start(e)
        PROVE  Once!OnceNext \/ UNCHANGED Once!onceVars
    <2>1. CASE Claim(e)
      BY <1>0, <1>1, <2>1 DEF Claim, Usable, Create, Kept
    <2>2. CASE RefuseReuse(e) \/ Busy(e)
      BY <1>1, <2>2 DEF RefuseReuse, Busy, Kept
    <2>3. CASE Replay(e)
      <3>1. record.status # "ABSENT" /\ record.live /\ record.status \in Settled
        BY <1>0, <2>3 DEF Replay, IsReplay
      <3>2. Kept = record.id /\ Kept # None
        BY <1>0, <3>1, RecordIsOwned, NoneAssumption DEF Kept
      <3>3. Once!Tell(e)
        BY <2>3, <3>2 DEF Replay, Once!Tell, Kept
      <3> QED
        BY <3>3 DEF Once!OnceNext
    <2> QED
      BY <1>7, <2>1, <2>2, <2>3 DEF Start
  <1>8. ASSUME NEW e \in Executions, RenewLease(e)
        PROVE  UNCHANGED Once!onceVars
    <2>1. CASE UNCHANGED record
      BY <1>1, <1>8, <2>1 DEF RenewLease, Kept
    <2>2. CASE Holds(e) /\ record' = [record EXCEPT !.live = TRUE]
      <3>1. record'.status = "IN_PROGRESS"
        BY <1>0, <2>2, RecordIsOwned DEF Holds
      <3> QED
        BY <1>0, <1>1, <1>3, <1>8, <2>2, <3>1 DEF RenewLease, Kept
    <2> QED
      BY <1>8, <2>1, <2>2 DEF RenewLease
  <1>9. ASSUME NEW e \in Executions, Work(e)
        PROVE  Once!OnceNext \/ UNCHANGED Once!onceVars
    <2>1. CASE Prepare(e) \/ Abort(e)
      BY <1>1, <2>1 DEF Prepare, Abort, Kept
    <2>2. CASE FinishPreparationFailure(e)
      <3>1. CASE Holds(e) /\ Store(e, "FAILED") /\ told' = [told EXCEPT ![e] = e]
        BY <1>0, <1>2, <1>3, <2>2, <3>1 DEF FinishPreparationFailure
      <3>2. CASE Delete(e) /\ UNCHANGED told
        BY <1>4, <2>2, <3>2 DEF FinishPreparationFailure
      <3>3. CASE UNCHANGED <<record, told>>
        BY <1>1, <2>2, <3>3 DEF FinishPreparationFailure, Kept
      <3> QED
        BY <2>2, <3>1, <3>2, <3>3 DEF FinishPreparationFailure
    <2>3. CASE Mutate(e)
      <3>1. PICK s \in Settled : Store(e, s)
        BY <1>0, <2>3 DEF Mutate, Perform, Reject
      <3>2. /\ Holds(e)
            /\ told' \in {told, [told EXCEPT ![e] = e]}
            /\ effects' \in {effects, effects \cup {e}}
        BY <2>3 DEF Mutate, Perform, Reject, Committed
      <3> QED
        BY <1>2, <1>3, <3>1, <3>2
    <2>4. CASE Release(e)
      BY <1>1, <1>4, <2>4 DEF Release, Kept
    <2> QED
      BY <1>9, <2>1, <2>2, <2>3, <2>4 DEF Work
  <1>10. ASSUME NEW e \in Executions, Retry(e) \/ Crash(e)
         PROVE  UNCHANGED Once!onceVars
    BY <1>1, <1>10 DEF Retry, Crash, Kept
  <1>11. CASE UNCHANGED vars
    BY <1>1, <1>11 DEF vars, Kept
  <1> QED
    BY <1>5, <1>6, <1>7, <1>8, <1>9, <1>10, <1>11 DEF Next

\* The claims, leases, replays and lost answers of executePrepared implement
\* the promise of an idempotency key: while an outcome is kept no second
\* mutation commits, and what is replayed is what is kept.
THEOREM MutationImplementsOncePerKey == Spec => ImplementsOncePerKey
  <1>1. Init => Once!OnceInit
    BY DEF Init, Absent, Settled, Once!OnceInit
  <1> QED
    BY <1>1, MutationInitInv, MutationStepInv, MutationStepSimulates, PTL
    DEF Spec, ImplementsOncePerKey, Once!OnceSpec

-----------------------------------------------------------------------------
(* Index snapshots.                                                        *)

Building == {"purge", "embed", "rebuild", "wipe", "write", "upsert", "check", "reconcile", "commit"}

\* A preparer has claimed the row exactly while it builds; one that failed may have.
ClaimFits ==
    \A p \in Preparers :
        /\ stage[p] \in Building => claimed[p]
        /\ stage[p] \in {"idle", "verify", "commitVerified", "repair"} => ~claimed[p]

\* What is left to do at each step of a preparer.
TodoFits ==
    \A p \in Preparers :
        /\ stage[p] \in {"purge", "embed", "rebuild", "wipe"} => todo[p] = Partitions
        /\ stage[p] \in {"write", "upsert", "check", "reconcile", "verify"} => todo[p] # {}
        /\ stage[p] = "commit" => todo[p] = {}

\* The preparer that has claimed the row has it to itself.
ClaimantIsAlone ==
    \A p \in Preparers : claimed[p] => status = "PREPARING" /\ token = p /\ ~error /\ ~aged

\* Whoever else is at work verifies a snapshot that is READY.
OthersVerify ==
    \A p \in Preparers :
        ~claimed[p] /\ stage[p] # "idle" =>
            status = "READY" /\ stage[p] \in {"verify", "commitVerified", "failed", "record"}

\* What the claimant has done is in the index.
DoneIsStored ==
    \A p \in Preparers :
        stage[p] \in {"write", "upsert", "check", "reconcile", "commit"} =>
            Partitions \ todo[p] \subseteq points

ReadyHasAll == status = "READY" => points = Partitions

\* The inductive invariant.
SnapshotInv ==
    /\ SnapshotTypeOK
    /\ PublishedIsReady
    /\ ClaimFits
    /\ TodoFits
    /\ Undisturbed => ClaimantIsAlone /\ OthersVerify /\ DoneIsStored /\ ReadyHasAll

-----------------------------------------------------------------------------

\* There is no row and nobody is at work.
LEMMA SnapshotInitInv == SnapshotInit => SnapshotInv
  <1> SUFFICES ASSUME SnapshotInit PROVE SnapshotInv
    OBVIOUS
  <1>1. SnapshotTypeOK
    <2>1. points \in SUBSET Partitions /\ todo \in [Preparers -> SUBSET Partitions]
      BY DEF SnapshotInit
    <2>2. errors \in 0 .. MaxErrors /\ stalls \in 0 .. MaxStalls /\ losses \in 0 .. MaxLosses
      BY SnapshotAssumption DEF SnapshotInit
    <2>3. /\ claimed \in [Preparers -> BOOLEAN] /\ preserved \in [Preparers -> BOOLEAN]
          /\ saw \in [Preparers -> BOOLEAN] /\ publishes \in [Preparers -> BOOLEAN]
          /\ stage \in [Preparers -> PreparerStep]
      BY DEF SnapshotInit, PreparerStep
    <2> QED
      BY <2>1, <2>2, <2>3 DEF SnapshotInit, SnapshotTypeOK
  <1>2. PublishedIsReady /\ ClaimFits /\ TodoFits
    BY DEF SnapshotInit, PublishedIsReady, ClaimFits, TodoFits, Building
  <1>3. ClaimantIsAlone /\ OthersVerify /\ DoneIsStored /\ ReadyHasAll
    BY DEF SnapshotInit, ClaimantIsAlone, OthersVerify, DoneIsStored, ReadyHasAll
  <1> QED
    BY <1>1, <1>2, <1>3 DEF SnapshotInv

\* Every step of a preparer, of the clock and of the index keeps the invariant.
LEMMA SnapshotStepInv == SnapshotInv /\ [SnapshotNext]_snapshotVars => SnapshotInv'
  <1> SUFFICES ASSUME SnapshotInv, [SnapshotNext]_snapshotVars PROVE SnapshotInv'
    OBVIOUS
  <1> USE SnapshotAssumption DEF SnapshotInv, SnapshotTypeOK, PublishedIsReady, ClaimFits,
      TodoFits, Undisturbed, ClaimantIsAlone, OthersVerify, DoneIsStored, ReadyHasAll,
      Building, PreparerStep, Enter, Step, Return, Take, Resolved, row, faults
  <1>1. ASSUME NEW p \in Preparers, CreateRow(p) PROVE SnapshotInv'
    BY <1>1, ZenonT(60) DEF CreateRow
  <1>2. ASSUME NEW p \in Preparers, Reuse(p) PROVE SnapshotInv'
    BY <1>2 DEF Reuse
  <1>3. ASSUME NEW p \in Preparers, Redrive(p) PROVE SnapshotInv'
    BY <1>3, ZenonT(60) DEF Redrive, Redrivable
  <1>4. ASSUME NEW p \in Preparers, Purge(p) PROVE SnapshotInv'
    BY <1>4 DEF Purge
  <1>5. ASSUME NEW p \in Preparers, Embed(p) PROVE SnapshotInv'
    BY <1>5 DEF Embed
  <1>6. ASSUME NEW p \in Preparers, Rebuild(p) PROVE SnapshotInv'
    BY <1>6 DEF Rebuild, Fence
  <1>7. ASSUME NEW p \in Preparers, Wipe(p) PROVE SnapshotInv'
    BY <1>7 DEF Wipe
  <1>8. ASSUME NEW p \in Preparers, FenceWrite(p) PROVE SnapshotInv'
    BY <1>8 DEF FenceWrite, Fence
  <1>9. ASSUME NEW p \in Preparers, Upsert(p) PROVE SnapshotInv'
    BY <1>9 DEF Upsert
  <1>10. ASSUME NEW p \in Preparers, FenceCheck(p) PROVE SnapshotInv'
    BY <1>10 DEF FenceCheck, Fence
  <1>11. ASSUME NEW p \in Preparers, Reconcile(p) PROVE SnapshotInv'
    <2> DEFINE x == CHOOSE x \in todo[p] : TRUE
    <2>1. /\ UNCHANGED <<row, points, claimed, preserved, saw, publishes, faults>>
          /\ stage[p] \in {"reconcile", "verify"}
          /\ IF x \in points
               THEN /\ todo' = [todo EXCEPT ![p] = @ \ {x}]
                    /\ Enter(p, CASE stage[p] = "reconcile" -> IF Last(p, x) THEN "commit" ELSE "write"
                                 [] stage[p] = "verify" -> IF Last(p, x) THEN "commitVerified" ELSE "verify")
               ELSE /\ Enter(p, IF stage[p] = "reconcile" THEN "failed" ELSE "repair")
                    /\ UNCHANGED todo
      BY <1>11 DEF Reconcile
    <2>2. x \in todo[p] /\ x \in Partitions
      BY <2>1
    <2> HIDE DEF x
    <2>3. CASE x \in points /\ Last(p, x) /\ stage[p] = "reconcile"
      BY <2>1, <2>2, <2>3 DEF Last
    <2>4. CASE x \in points /\ ~Last(p, x) /\ stage[p] = "reconcile"
      BY <2>1, <2>2, <2>4 DEF Last
    <2>5. CASE x \in points /\ Last(p, x) /\ stage[p] = "verify"
      BY <2>1, <2>2, <2>5 DEF Last
    <2>6. CASE x \in points /\ ~Last(p, x) /\ stage[p] = "verify"
      BY <2>1, <2>2, <2>6 DEF Last
    <2>7. CASE x \notin points
      BY <2>1, <2>2, <2>7
    <2> QED
      BY <2>1, <2>3, <2>4, <2>5, <2>6, <2>7
  <1>12. ASSUME NEW p \in Preparers, Commit(p) PROVE SnapshotInv'
    <2>1. CASE Fenced(p) /\ MakeReady(p) /\ Return(p)
      <3>1. Undisturbed => points = Partitions
        BY <1>12 DEF Commit
      <3>2. Undisturbed' => \A q \in Preparers : stage'[q] = "idle"
        BY <1>12, <2>1 DEF Commit, Fenced, MakeReady
      <3> QED
        BY <1>12, <2>1, <3>1, <3>2 DEF Commit, MakeReady
    <2>2. CASE ~Fenced(p) /\ Step(p, "failed") /\ UNCHANGED <<row, points>>
      BY <1>12, <2>2 DEF Commit
    <2> QED
      BY <1>12, <2>1, <2>2 DEF Commit
  <1>13. ASSUME NEW p \in Preparers, CommitVerified(p) PROVE SnapshotInv'
    BY <1>13 DEF CommitVerified, MakeReady
  <1>14. ASSUME NEW p \in Preparers, ClaimRepair(p) PROVE SnapshotInv'
    <2>1. ~Undisturbed
      BY <1>14 DEF ClaimRepair
    <2>2. CASE MayLeaveReady
      <3>1. /\ Take(p) /\ Enter(p, "embed") /\ ~attached
            /\ claimed' = [claimed EXCEPT ![p] = TRUE]
            /\ saw' = [saw EXCEPT ![p] = TRUE]
            /\ todo' = [todo EXCEPT ![p] = Partitions]
            /\ UNCHANGED <<stored, counted, attached, preserved, publishes, points, faults>>
        BY <1>14, <2>2 DEF ClaimRepair, MayLeaveReady
      <3>2. SnapshotTypeOK'
        BY <3>1
      <3>3. PublishedIsReady' /\ ClaimFits' /\ TodoFits'
        BY <3>1
      <3> QED
        BY <2>1, <3>1, <3>2, <3>3
    <2>3. CASE ~MayLeaveReady
      BY <1>14, <2>1, <2>3 DEF ClaimRepair
    <2> QED
      BY <2>2, <2>3
  <1>15. ASSUME NEW p \in Preparers, Compensate(p) PROVE SnapshotInv'
    BY <1>15 DEF Compensate
  <1>16. ASSUME NEW p \in Preparers, RecordError(p) PROVE SnapshotInv'
    BY <1>16 DEF RecordError
  <1>17. ASSUME NEW p \in Preparers, Throw(p) PROVE SnapshotInv'
    BY <1>17 DEF Throw
  <1>18. ASSUME NEW p \in Preparers, Die(p) PROVE SnapshotInv'
    BY <1>18 DEF Die
  <1>19. ASSUME NEW p \in Preparers, FailVerification(p) PROVE SnapshotInv'
    BY <1>19 DEF FailVerification
  <1>20. ASSUME NEW p \in Preparers, CommitUnanswered(p) PROVE SnapshotInv'
    <2>1. /\ MakeReady(p) /\ Step(p, "failed")
          /\ stage[p] \in {"commit", "commitVerified"}
          /\ errors' \in 0 .. MaxErrors /\ unanswered' = (unanswered \/ claimed[p])
          /\ UNCHANGED <<stalls, losses>>
      BY <1>20 DEF CommitUnanswered
    <2>2. SnapshotTypeOK'
      BY <2>1 DEF MakeReady
    <2>3. PublishedIsReady' /\ ClaimFits' /\ TodoFits'
      BY <2>1 DEF MakeReady
    <2>4. ASSUME Undisturbed' PROVE ClaimantIsAlone' /\ OthersVerify' /\ DoneIsStored' /\ ReadyHasAll'
      <3>1. Undisturbed /\ ~claimed[p] /\ status = "READY"
        BY <2>1, <2>4
      <3>2. \A q \in Preparers : ~claimed[q]
        BY <3>1
      <3> QED
        BY <2>1, <3>1, <3>2 DEF MakeReady
    <2> QED
      BY <2>2, <2>3, <2>4
  <1>21. ASSUME NEW p \in Preparers, ClaimUnanswered(p) PROVE SnapshotInv'
    <2>1. /\ Take(p) /\ Step(p, "failed") /\ ~attached /\ stage[p] = "repair"
          /\ errors' \in 0 .. MaxErrors
          /\ UNCHANGED <<stored, counted, attached, points, stalls, losses, unanswered>>
      BY <1>21 DEF ClaimUnanswered, MayLeaveReady
    <2>2. SnapshotTypeOK'
      BY <2>1
    <2>3. PublishedIsReady' /\ ClaimFits' /\ TodoFits'
      BY <2>1
    <2>4. ~Undisturbed'
      BY <2>1
    <2> QED
      BY <2>2, <2>3, <2>4
  <1>22. ASSUME NEW p \in Preparers, FailCompensation(p) PROVE SnapshotInv'
    BY <1>22 DEF FailCompensation
  <1>23. CASE PreparationAges
    BY <1>23 DEF PreparationAges, local
  <1>24. ASSUME NEW x \in Partitions, LosePoints(x) PROVE SnapshotInv'
    BY <1>24 DEF LosePoints, local
  <1>25. CASE UNCHANGED snapshotVars
    BY <1>25 DEF snapshotVars, local
  <1> QED
    BY <1>1, <1>2, <1>3, <1>4, <1>5, <1>6, <1>7, <1>8, <1>9, <1>10, <1>11, <1>12, <1>13,
       <1>14, <1>15, <1>16, <1>17, <1>18, <1>19, <1>20, <1>21, <1>22, <1>23, <1>24, <1>25
    DEF SnapshotNext, Resolve, PrepareManifest, Fail

\* The row, the index and the preparers are well typed, and a snapshot that a
\* publication references stays READY with its membership and its count
\* (claimReadySnapshotRepair, commitReadySnapshot).
THEOREM SnapshotSafety == SnapshotSpec => []SnapshotInvariant
  <1>1. SnapshotInv => SnapshotInvariant
    BY DEF SnapshotInv, SnapshotInvariant
  <1> QED
    BY <1>1, SnapshotInitInv, SnapshotStepInv, PTL DEF SnapshotSpec

\* Whichever preparers throw, die or fail to compensate, a snapshot that is READY
\* has all its points, as long as no preparation outlives stalePreparationMs, no
\* claimed preparation's commit goes unanswered and the index loses nothing
\* (prepareManifest as a whole; without these premises the code fails).
THEOREM ReadySnapshotsAreComplete == SnapshotSpec => []ReadyIsComplete
  <1>1. SnapshotInv => ReadyIsComplete
    BY DEF SnapshotInv, ReadyIsComplete, ReadyHasAll
  <1> QED
    BY <1>1, SnapshotInitInv, SnapshotStepInv, PTL DEF SnapshotSpec

=============================================================================
