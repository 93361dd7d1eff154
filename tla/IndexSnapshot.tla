---------------------------- MODULE IndexSnapshot ----------------------------
(***************************************************************************)
(* The preparation of one index snapshot: the KnowledgeIndexSnapshot row   *)
(* of a manifest in PostgreSQL, its points in the vector index, and the    *)
(* calls of prepareManifest that build, verify, repair and redrive it for  *)
(* candidates and publications.                                            *)
(*                                                                         *)
(* The row and the index have no transaction in common: a preparer looks   *)
(* at the row (assertPreparationFence) and then writes to the index.  A    *)
(* preparer's preparationStartedAt is the preparer itself.  Membership and *)
(* authorization manifest are stored together and do not change; what      *)
(* matters of them is that they are there, and the expected point count.   *)
(***************************************************************************)
EXTENDS Naturals, FiniteSets

CONSTANTS
    Preparers,      \* concurrent calls of prepareManifest for this manifest
    Partitions,     \* permission partitions of the snapshot's points
    MaxErrors,      \* bound on errors and deaths of preparers
    MaxStalls,      \* bound on preparations that outlive stalePreparationMs
    MaxLosses,      \* bound on partitions the index loses and verifications it fails
    NoPreparer

ASSUME SnapshotAssumption ==
    /\ NoPreparer \notin Preparers
    /\ Partitions # {} /\ IsFiniteSet(Partitions)
    /\ MaxErrors \in Nat /\ MaxStalls \in Nat /\ MaxLosses \in Nat

VARIABLES
    status, token, aged, error,      \* status, preparationStartedAt and its age, errorCode
    stored, counted,                 \* membership and manifest are stored; expectedPointCount is theirs
    attached,                        \* a publication references the snapshot
    points,                          \* partitions whose points the index has
    stage, todo,                        \* the preparer, and the partitions it has still to do
    claimed, preserved, saw,         \* preparingAttempt; stored and counted when it resolved the row
    publishes,                       \* it prepares for a publication and not for a candidate
    errors, stalls, losses,
    unanswered                       \* the commit of a claimed preparation went unanswered

row == <<status, token, aged, error, stored, counted, attached>>
local == <<stage, todo, claimed, preserved, saw, publishes>>
faults == <<errors, stalls, losses, unanswered>>
snapshotVars == <<row, points, local, faults>>

PreparerStep == {"idle", "purge", "embed", "rebuild", "wipe", "write", "upsert", "check", "reconcile",
                 "commit", "verify", "commitVerified", "repair", "failed", "record"}

SnapshotInit ==
    /\ status = "NONE" /\ token = NoPreparer /\ aged = FALSE /\ error = FALSE
    /\ stored = FALSE /\ counted = FALSE /\ attached = FALSE
    /\ points = {}
    /\ stage = [p \in Preparers |-> "idle"]
    /\ todo = [p \in Preparers |-> {}]
    /\ claimed = [p \in Preparers |-> FALSE]
    /\ preserved = [p \in Preparers |-> FALSE]
    /\ saw = [p \in Preparers |-> FALSE]
    /\ publishes = [p \in Preparers |-> FALSE]
    /\ errors = 0 /\ stalls = 0 /\ losses = 0 /\ unanswered = FALSE

Enter(p, step) == stage' = [stage EXCEPT ![p] = step]

\* prepareManifest returns or throws.
Return(p) ==
    /\ Enter(p, "idle")
    /\ todo' = [todo EXCEPT ![p] = {}]
    /\ claimed' = [claimed EXCEPT ![p] = FALSE]
    /\ preserved' = [preserved EXCEPT ![p] = FALSE]
    /\ saw' = [saw EXCEPT ![p] = FALSE]
    /\ publishes' = [publishes EXCEPT ![p] = FALSE]

\* assertPreparationFence of a preparer that has claimed the row.
Fenced(p) == status = "PREPARING" /\ token = p

-----------------------------------------------------------------------------
(* resolveSnapshot                                                         *)

Take(p) == status' = "PREPARING" /\ token' = p /\ aged' = FALSE /\ error' = FALSE

Resolved(p, step, mine, kept, count) ==
    /\ Enter(p, step)
    /\ claimed' = [claimed EXCEPT ![p] = mine]
    /\ preserved' = [preserved EXCEPT ![p] = kept]
    /\ saw' = [saw EXCEPT ![p] = count]
    /\ todo' = [todo EXCEPT ![p] = Partitions]
    /\ \E b \in BOOLEAN : publishes' = [publishes EXCEPT ![p] = b]

CreateRow(p) ==
    /\ stage[p] = "idle"
    /\ status = "NONE"
    /\ Take(p)
    /\ Resolved(p, "embed", TRUE, FALSE, FALSE)
    /\ UNCHANGED <<stored, counted, attached, points, faults>>

\* A READY snapshot is verified and reused.
Reuse(p) ==
    /\ stage[p] = "idle"
    /\ status = "READY"
    /\ Resolved(p, "verify", FALSE, TRUE, counted)
    /\ UNCHANGED <<row, points, faults>>

\* Mutant: only a preparation that has failed is redriven.
RedrivableIfFailed == status = "PREPARING" /\ error

\* mayRedrive.  A preparation in progress is left alone (INDEX_PREPARATION_IN_PROGRESS).
Redrivable == status = "PREPARING" /\ (error \/ aged)

\* The redrive, under the row's lock; it sets expectedPointCount to 0.
Redrive(p) ==
    /\ stage[p] = "idle"
    /\ Redrivable
    /\ Take(p)
    /\ counted' = FALSE
    /\ Resolved(p, IF stored THEN "embed" ELSE "purge", TRUE, stored, FALSE)
    /\ UNCHANGED <<stored, attached, points, faults>>

-----------------------------------------------------------------------------
(* The points of a claimed snapshot.                                       *)

Step(p, step) == Enter(p, step) /\ UNCHANGED <<todo, claimed, preserved, saw, publishes>>

\* deleteSnapshotPartition of a redrive that keeps no membership.
Purge(p) ==
    /\ stage[p] = "purge"
    /\ points' = {}
    /\ Step(p, "embed")
    /\ UNCHANGED <<row, faults>>

\* preparePoints, the fence between its batches, and the comparison with a stored
\* manifest (reconcileStoredAuthorizationManifest), which includes the point count.
Embed(p) ==
    /\ stage[p] = "embed"
    /\ Step(p, IF ~Fenced(p) \/ (preserved[p] /\ ~saw[p]) THEN "failed"
               ELSE IF preserved[p] THEN "rebuild" ELSE "write")
    /\ UNCHANGED <<row, points, faults>>

\* A look at the row before the next write to the index.
Fence(p, from, next) ==
    /\ stage[p] = from
    /\ Step(p, IF Fenced(p) THEN next ELSE "failed")
    /\ UNCHANGED <<row, points, faults>>

Rebuild(p) == Fence(p, "rebuild", "wipe")

Wipe(p) ==
    /\ stage[p] = "wipe"
    /\ points' = {}
    /\ Step(p, "write")
    /\ UNCHANGED <<row, faults>>

\* upsertAndReconcile, one permission partition after the other.
FenceWrite(p) == Fence(p, "write", "upsert")

Upsert(p) ==
    /\ stage[p] = "upsert"
    /\ points' = points \cup {CHOOSE x \in todo[p] : TRUE}
    /\ Step(p, "check")
    /\ UNCHANGED <<row, faults>>

FenceCheck(p) == Fence(p, "check", "reconcile")

\* Mutant: the first partition stands for all.
LastAlways(p, x) == TRUE

Last(p, x) == todo[p] = {x}

\* reconcilePermissionPartition, of a preparer that has written or that verifies.
Reconcile(p) ==
    /\ stage[p] \in {"reconcile", "verify"}
    /\ LET x == CHOOSE x \in todo[p] : TRUE
       IN IF x \in points
            THEN /\ todo' = [todo EXCEPT ![p] = @ \ {x}]
                 /\ Enter(p, CASE stage[p] = "reconcile" -> IF Last(p, x) THEN "commit" ELSE "write"
                              [] stage[p] = "verify" -> IF Last(p, x) THEN "commitVerified" ELSE "verify")
            ELSE /\ Enter(p, IF stage[p] = "reconcile" THEN "failed" ELSE "repair")
                 /\ UNCHANGED todo
    /\ UNCHANGED <<row, points, claimed, preserved, saw, publishes, faults>>

-----------------------------------------------------------------------------
(* commitReadySnapshot                                                     *)

\* The transaction.
MakeReady(p) ==
    /\ status' = "READY" /\ token' = NoPreparer /\ aged' = FALSE /\ error' = FALSE
    /\ stored' = TRUE /\ counted' = TRUE
    /\ attached' = (attached \/ publishes[p])
    /\ UNCHANGED points

Commit(p) ==
    /\ stage[p] = "commit"
    /\ \/ Fenced(p) /\ MakeReady(p) /\ Return(p)
       \/ ~Fenced(p) /\ Step(p, "failed") /\ UNCHANGED <<row, points>>
    /\ UNCHANGED faults

\* The commit of a verification has no preparationStartedAt to compare.
CommitVerified(p) ==
    /\ stage[p] = "commitVerified"
    /\ MakeReady(p) /\ Return(p)
    /\ UNCHANGED faults

\* Either commit is made and its answer is lost: the catch clause takes it for a
\* failure, and compensates for a claimed preparation.
CommitUnanswered(p) ==
    /\ stage[p] \in {"commit", "commitVerified"}
    /\ stage[p] = "commit" => Fenced(p)
    /\ errors < MaxErrors
    /\ MakeReady(p) /\ Step(p, "failed")
    /\ errors' = errors + 1
    /\ unanswered' = (unanswered \/ claimed[p])
    /\ UNCHANGED <<stalls, losses>>

\* Mutant: the database lets a published snapshot leave READY.
LeavesReadyAnyway == status = "READY" /\ counted

\* The conditions of claimReadySnapshotRepair, and the trigger that keeps the status
\* of a snapshot that a publication references.
MayLeaveReady == status = "READY" /\ counted /\ ~attached

\* claimReadySnapshotRepair, after a verification that found points missing.
ClaimRepair(p) ==
    /\ stage[p] = "repair"
    /\ IF MayLeaveReady
         THEN /\ Take(p)
              /\ Enter(p, "embed")
              /\ claimed' = [claimed EXCEPT ![p] = TRUE]
              /\ saw' = [saw EXCEPT ![p] = TRUE]
              /\ todo' = [todo EXCEPT ![p] = Partitions]
              /\ UNCHANGED <<stored, counted, attached, preserved, publishes>>
         ELSE Step(p, "failed") /\ UNCHANGED row
    /\ UNCHANGED <<points, faults>>

\* The row is claimed and the answer is lost: preparingAttempt is not set.
ClaimUnanswered(p) ==
    /\ stage[p] = "repair" /\ MayLeaveReady
    /\ errors < MaxErrors
    /\ Take(p) /\ Step(p, "failed")
    /\ errors' = errors + 1
    /\ UNCHANGED <<stored, counted, attached, points, stalls, losses, unanswered>>

-----------------------------------------------------------------------------
(* Failure.                                                                *)

\* The compensation of an attempt that has claimed the row, whoever has it now.
Compensate(p) ==
    /\ stage[p] = "failed"
    /\ points' = IF claimed[p] THEN {} ELSE points
    /\ Step(p, "record")
    /\ UNCHANGED <<row, faults>>

\* The compensating deletion fails too; the errorCode is recorded all the same.
FailCompensation(p) ==
    /\ stage[p] = "failed" /\ claimed[p]
    /\ errors < MaxErrors
    /\ errors' = errors + 1
    /\ Step(p, "record")
    /\ UNCHANGED <<row, points, stalls, losses, unanswered>>

\* The errorCode of a row in preparation, whoever prepares it.
RecordError(p) ==
    /\ stage[p] = "record"
    /\ error' = (error \/ status = "PREPARING")
    /\ Return(p)
    /\ UNCHANGED <<status, token, aged, stored, counted, attached, points, faults>>

\* The index, the provider, the database or a fence on sources fails the preparer.
\* (After a row was created or redriven without an answer the call is over: Die.)
Throw(p) ==
    /\ stage[p] \notin {"idle", "failed", "record"}
    /\ errors < MaxErrors
    /\ errors' = errors + 1
    /\ Step(p, "failed")
    /\ UNCHANGED <<row, points, stalls, losses, unanswered>>

Die(p) ==
    /\ stage[p] # "idle"
    /\ errors < MaxErrors
    /\ errors' = errors + 1
    /\ Return(p)
    /\ UNCHANGED <<row, points, stalls, losses, unanswered>>

\* stalePreparationMs passes, over a preparer at work or over a dead one.
PreparationAges ==
    /\ status = "PREPARING" /\ ~aged
    /\ aged' = TRUE
    /\ IF token \in Preparers /\ claimed[token]
         THEN stalls < MaxStalls /\ stalls' = stalls + 1
         ELSE UNCHANGED stalls
    /\ UNCHANGED <<status, token, error, stored, counted, attached, points, local, errors, losses, unanswered>>

\* An error of the index during a verification counts as missing points
\* (repairableReadySnapshotFailure).
FailVerification(p) ==
    /\ stage[p] = "verify"
    /\ losses < MaxLosses
    /\ losses' = losses + 1
    /\ Step(p, "repair")
    /\ UNCHANGED <<row, points, errors, stalls, unanswered>>

\* The index loses a partition.
LosePoints(x) ==
    /\ x \in points
    /\ losses < MaxLosses
    /\ losses' = losses + 1
    /\ points' = points \ {x}
    /\ UNCHANGED <<row, local, errors, stalls, unanswered>>

-----------------------------------------------------------------------------

Resolve(p) == CreateRow(p) \/ Reuse(p) \/ Redrive(p)

PrepareManifest(p) ==
    \/ Purge(p) \/ Embed(p) \/ Rebuild(p) \/ Wipe(p)
    \/ FenceWrite(p) \/ Upsert(p) \/ FenceCheck(p) \/ Reconcile(p)
    \/ Commit(p) \/ CommitVerified(p) \/ ClaimRepair(p)
    \/ Compensate(p) \/ RecordError(p)

Fail(p) ==
    \/ Throw(p) \/ Die(p) \/ FailVerification(p)
    \/ CommitUnanswered(p) \/ ClaimUnanswered(p) \/ FailCompensation(p)

SnapshotNext ==
    \/ \E p \in Preparers : Resolve(p) \/ PrepareManifest(p) \/ Fail(p)
    \/ PreparationAges
    \/ \E x \in Partitions : LosePoints(x)

SnapshotSpec == SnapshotInit /\ [][SnapshotNext]_snapshotVars

\* Preparers go on, the preparation of a dead one ages, and somebody keeps asking
\* for the snapshot while it is not ready (a validation or a dispatch is repeated).
LiveSpec ==
    /\ SnapshotSpec
    /\ \A p \in Preparers : WF_snapshotVars(PrepareManifest(p)) /\ WF_snapshotVars(CreateRow(p) \/ Redrive(p))
    /\ WF_snapshotVars(~(token \in Preparers /\ claimed[token]) /\ PreparationAges)

-----------------------------------------------------------------------------
(* Properties.                                                             *)

\* Type invariant of the row, the index and the preparers.
SnapshotTypeOK ==
    /\ status \in {"NONE", "PREPARING", "READY"}
    /\ token \in Preparers \cup {NoPreparer}
    /\ aged \in BOOLEAN /\ error \in BOOLEAN
    /\ stored \in BOOLEAN /\ counted \in BOOLEAN /\ attached \in BOOLEAN
    /\ points \in SUBSET Partitions
    /\ stage \in [Preparers -> PreparerStep]
    /\ todo \in [Preparers -> SUBSET Partitions]
    /\ claimed \in [Preparers -> BOOLEAN]
    /\ preserved \in [Preparers -> BOOLEAN]
    /\ saw \in [Preparers -> BOOLEAN]
    /\ publishes \in [Preparers -> BOOLEAN]
    /\ errors \in 0 .. MaxErrors /\ stalls \in 0 .. MaxStalls /\ losses \in 0 .. MaxLosses
    /\ unanswered \in BOOLEAN

\* No preparation has outlived stalePreparationMs, no claimed preparation has
\* committed without learning of it, and the index has lost nothing.
Undisturbed == stalls = 0 /\ losses = 0 /\ ~unanswered

\* Whichever preparers throw, die or fail to compensate, a READY snapshot has all
\* its points (the reconciliation before commitReadySnapshot, and the errorCode
\* that admits the next preparer only after the last one has done) while the
\* preparations are undisturbed.  All three disturbances break it in the code:
\* the compensation of a preparer taken for dead, and that of one whose commit
\* was made and not answered, delete the points of a READY snapshot.
ReadyIsComplete ==
    Undisturbed /\ status = "READY" => points = Partitions

\* A snapshot that a publication references stays READY with its membership and its
\* count, whichever repairs and redrives are under way.
PublishedIsReady == attached => status = "READY" /\ stored /\ counted

\* The row is well typed, and right when a publication references it.
SnapshotInvariant == SnapshotTypeOK /\ PublishedIsReady

\* A snapshot that is asked for becomes READY in the end, whichever preparers fail or
\* die, as long as no preparation outlives stalePreparationMs: one that does
\* marks its successor's row as failed, which admits the next one, and so on.
PreparedInTheEnd == <>(stored \/ stalls > 0)

-----------------------------------------------------------------------------
(* What the repository says of the snapshot and the code does not do.      *)

\* "Qdrant stores rebuildable immutable index snapshots referenced by an atomic
\* active publication" (docs/DECISION_LOG.md): the points of a published
\* snapshot stay, if the index keeps them.  They do not after a preparation that
\* was taken for dead, after a commit whose answer was lost, or after a
\* verification that commits while another caller repairs.
PublishedSnapshotIsImmutable ==
    [][attached /\ losses' = losses => points \subseteq points']_snapshotVars

=============================================================================
