------------------------- MODULE KnowledgeIngestion -------------------------
(***************************************************************************)
(* One website source of a workspace's knowledge: the source with its      *)
(* document and revisions, the jobs that import, synchronise, reconcile    *)
(* and delete it (one per generation, knowledge-v2-source.service), the    *)
(* ledger of what is still to be deleted, the object store and the vector  *)
(* index, and the workers that execute the jobs                            *)
(* (knowledge-ingestion-processor), the same job possibly several at once. *)
(*                                                                         *)
(* A transaction is one step.  An attempt is fenced by its number and by   *)
(* the source's generation; the writes to store and index are not in any   *)
(* transaction.  The raw and the extracted object of an attempt are one    *)
(* object here, whose key is the job and the content.  The chunks of a     *)
(* revision are denied together (live).  KnowledgeJobAttempt rows follow   *)
(* the job's status and attemptCount and are left out.  Clocks are         *)
(* choices: fresh says that a running job's heartbeat is recent.  The      *)
(* ledger's rows of the cache, QUARANTINED revisions (which have no        *)
(* chunks), rollbacks of publications and sources from files are left out. *)
(***************************************************************************)
EXTENDS Naturals, Sequences, FiniteSets

CONSTANTS
    Workers,        \* executions of jobs
    Contents,       \* what the website may show
    MaxAttempts,    \* maxAttempts
    MaxGeneration,  \* bound: generations of the source
    MaxFaults,      \* bound: errors, deaths, stalls, timeouts and undeliverable events
    MaxUpserted,    \* bound: drafts with points that no commit has acknowledged
    None

ASSUME IngestionAssumption ==
    /\ MaxAttempts \in Nat \ {0} /\ MaxGeneration \in Nat \ {0}
    /\ MaxFaults \in Nat /\ MaxUpserted \in Nat

VARIABLES
    source,    \* KnowledgeV2Source: status, generation, permission version, deferred work
    job,       \* job[g]: the KnowledgeJob of generation g
    document,  \* KnowledgeV2Document: status, current draft and published revision
    revision,  \* its revisions, in the order of their numbers
    ledger,    \* the KnowledgeV2DeletionLedger rows
    stored,    \* keys of the objects in the store
    points,    \* revisions with points in the vector index that a commit has acknowledged
    upserted,  \* <<generation, revision>> with points in it that no commit has
    run,       \* run[w]: the attempt that w executes
    faults

vars == <<source, job, document, revision, ledger, stored, points, upserted, run, faults>>

Generations == 1..MaxGeneration
Revisions == 1..Len(revision)
Gone == {"DELETING", "DELETED"}
Ended == {"SUCCEEDED", "FAILED", "CANCELLED", "DEAD_LETTER"}
Ingests == {"IMPORT", "SYNC"}

\* reconciliationSubsystems and deletionSubsystems, without the row of the cache.
Reconciled == {"VECTOR_INDEX"}
Deleted == {"OBJECT_STORAGE", "POSTGRES_CONTENT", "VECTOR_INDEX"}
Rank == [s \in Deleted |-> CASE s = "OBJECT_STORAGE" -> 1 [] s = "POSTGRES_CONTENT" -> 2
                             [] s = "VECTOR_INDEX" -> 3]
\* The target of a row: the source, or one revision.
Source == 0

NoJob == [op |-> "NONE", status |-> "NONE", attempt |-> 0, fresh |-> FALSE,
          excluded |-> 0, exact |-> TRUE]
NoRun == [at |-> "idle", gen |-> 0, attempt |-> 0, content |-> None, permission |-> 0,
          created |-> FALSE, rows |-> {}, error |-> "none", aborted |-> FALSE]

Queued(op, excluded) ==
    [op |-> op, status |-> "QUEUED", attempt |-> 0, fresh |-> FALSE,
     excluded |-> excluded, exact |-> TRUE]

\* createSource
Init ==
    /\ source = [status |-> "CONNECTING", generation |-> 1, permission |-> 1, deferred |-> FALSE]
    /\ job = [g \in Generations |-> IF g = 1 THEN Queued("IMPORT", 0) ELSE NoJob]
    /\ document = [status |-> "NONE", draft |-> 0, published |-> 0]
    /\ revision = <<>>
    /\ ledger = {}
    /\ stored = {}
    /\ points = {}
    /\ upserted = {}
    /\ run = [w \in Workers |-> NoRun]
    /\ faults = 0

Fault == faults < MaxFaults /\ faults' = faults + 1

Rows(g, target, subsystems) ==
    {[gen |-> g, target |-> target, sub |-> s, status |-> "PENDING", by |-> None] :
        s \in subsystems}

\* The chunks of these revisions are denied.
Denied(rs) == [r \in Revisions |-> [revision[r] EXCEPT !.live = @ /\ r \notin rs]]

-----------------------------------------------------------------------------
(* The requests of the API.  Each bumps the generation and creates the job *)
(* of the new one.                                                         *)

Next1 == source.generation + 1
Mutable == source.status \notin Gone /\ source.generation < MaxGeneration

\* ensureReconciliationLedgers: the rows of the source that are not completed move
\* to the new generation.
MovedRows ==
    LET open == {l \in ledger : /\ l.gen = source.generation /\ l.target = Source
                                /\ l.status # "COMPLETED"}
    IN  (ledger \ open) \cup Rows(Next1, Source, Reconciled)

\* updateSource, of scope, classification or locale: all chunks are denied.  A
\* paused source defers the job.
Update ==
    /\ Mutable
    /\ LET deferred == source.status = "PAUSED" \/ source.deferred
       IN  /\ source' = [status |-> IF deferred THEN "NEEDS_REVIEW" ELSE "SYNCING",
                         generation |-> Next1, permission |-> source.permission + 1,
                         deferred |-> deferred]
           /\ job' = IF deferred THEN job ELSE [job EXCEPT ![Next1] = Queued("RECONCILE", 0)]
    /\ revision' = Denied(Revisions)
    /\ ledger' = MovedRows
    /\ UNCHANGED <<document, stored, points, upserted, run, faults>>

\* queuePermissionReconciliation, a reviewer's decision.  Its job has an idempotency
\* key of its own, which beginAttempt does not accept.
VerifyPermission ==
    /\ Mutable
    /\ source' = [status |-> "SYNCING", generation |-> Next1,
                  permission |-> source.permission + 1, deferred |-> FALSE]
    /\ job' = [job EXCEPT ![Next1] = [Queued("RECONCILE", 0) EXCEPT !.exact = FALSE]]
    /\ revision' = Denied(Revisions)
    /\ ledger' = ledger \cup Rows(Next1, Source, Reconciled)
    /\ UNCHANGED <<document, stored, points, upserted, run, faults>>

Pause ==
    /\ source.status = "READY"
    /\ source' = [source EXCEPT !.status = "PAUSED", !.deferred = FALSE]
    /\ UNCHANGED <<job, document, revision, ledger, stored, points, upserted, run, faults>>

\* queueSourceAction: SYNC, and RESUME of a source without deferred work.
Sync ==
    /\ Mutable /\ ~source.deferred
    /\ source.status \in {"READY", "FAILED", "NEEDS_REVIEW", "PAUSED"}
    /\ source' = [source EXCEPT !.status = "SYNCING", !.generation = Next1]
    /\ job' = [job EXCEPT ![Next1] = Queued("SYNC", 0)]
    /\ UNCHANGED <<document, revision, ledger, stored, points, upserted, run, faults>>

\* RESUME of a source with deferred work: the generation has no job yet.
Resume ==
    /\ source.status = "NEEDS_REVIEW" /\ source.deferred
    /\ source' = [source EXCEPT !.status = "SYNCING", !.deferred = FALSE]
    /\ job' = [job EXCEPT ![source.generation] = Queued("RECONCILE", 0)]
    /\ UNCHANGED <<document, revision, ledger, stored, points, upserted, run, faults>>

ExcludeRevision(r) ==
    /\ Mutable
    /\ revision[r].state \notin {"REJECTED", "SUPERSEDED", "DELETED"}
    /\ source' = [source EXCEPT !.status = "SYNCING", !.generation = Next1, !.deferred = FALSE]
    /\ revision' = [Denied({r}) EXCEPT ![r].state = "REJECTED"]
    /\ document' = [status |-> IF r \in {document.draft, document.published} THEN "NEEDS_REVIEW"
                               ELSE document.status,
                    draft |-> IF document.draft = r THEN 0 ELSE document.draft,
                    published |-> IF document.published = r THEN 0 ELSE document.published]
    /\ ledger' = ledger \cup Rows(Next1, r, Reconciled)
    /\ job' = [job EXCEPT ![Next1] = Queued("RECONCILE", r)]
    /\ UNCHANGED <<stored, points, upserted, run, faults>>

DeleteSource ==
    /\ Mutable
    /\ source' = [source EXCEPT !.status = "DELETING", !.generation = Next1]
    /\ revision' = Denied(Revisions)
    /\ document' = [document EXCEPT !.status = IF @ = "NONE" THEN @ ELSE "TOMBSTONED"]
    /\ ledger' = ledger \cup Rows(Next1, Source, Deleted)
    /\ job' = [job EXCEPT ![Next1] = Queued("DELETE", 0)]
    /\ UNCHANGED <<stored, points, upserted, run, faults>>

-----------------------------------------------------------------------------
(* Validation and publication, which use the draft.                        *)

Indexable == {"CHUNKING", "READY", "PUBLISHED"}

\* The sources, revisions and chunks that assertPreparationFence accepts.  (FAILED for
\* want of an index is accepted, too, but nothing sets that code.)
Preparable(d) ==
    /\ d # 0 /\ d = document.draft
    /\ revision[d].live /\ revision[d].state \in Indexable
    /\ revision[d].fingerprint = source.permission
    /\ source.status \in {"SYNCING", "READY", "PAUSED"}

\* upsertAndReconcile of a preparer of the draft: outside of any transaction, and perhaps
\* long after its fence.  As only its own compensation deletes these points, they are
\* counted from the fence on.  A preparer that dies leaves them.
Upsert ==
    /\ Preparable(document.draft) /\ Cardinality(upserted) < MaxUpserted
    /\ upserted' = upserted \cup {<<source.generation, document.draft>>}
    /\ UNCHANGED <<source, job, document, revision, ledger, stored, points, run, faults>>

\* Its commit (module IndexSnapshot): it fences once more, in the generation in which it
\* began, and acknowledges its points as the items of a snapshot.
Index ==
    LET d == document.draft
        x == <<source.generation, d>>
    IN
    /\ Preparable(d) /\ x \in upserted
    /\ document.status \in {"DISCOVERED", "ACTIVE"}
    /\ points' = points \cup {d}
    /\ upserted' = upserted \ {x}
    /\ revision' = [revision EXCEPT ![d].indexed = TRUE,
                                    ![d].state = IF @ = "CHUNKING" THEN "READY" ELSE @]
    /\ document' = [document EXCEPT !.status = "ACTIVE"]
    /\ source' = [source EXCEPT !.status = IF @ = "PAUSED" THEN @ ELSE "READY"]
    /\ UNCHANGED <<job, ledger, stored, run, faults>>

\* It fails, for whatever reason, and deletes what it has written.
Compensate(x) ==
    /\ x \in upserted
    /\ upserted' = upserted \ {x}
    /\ UNCHANGED <<source, job, document, revision, ledger, stored, points, run, faults>>

\* The activation of a publication (module KnowledgePublication) with the draft.
Publish ==
    LET d == document.draft IN
    /\ d # 0 /\ d # document.published
    /\ revision[d].live /\ revision[d].indexed /\ revision[d].state \in Indexable
    /\ source.status \notin Gone
    /\ revision' = [revision EXCEPT ![d].state = "PUBLISHED"]
    /\ document' = [document EXCEPT !.published = d, !.status = "ACTIVE"]
    /\ source' = IF source.status = "PAUSED" THEN source
                 ELSE [source EXCEPT !.status = "READY", !.deferred = FALSE]
    /\ UNCHANGED <<job, ledger, stored, points, upserted, run, faults>>

-----------------------------------------------------------------------------
(* Attempts.                                                               *)

GoTo(w, at) == run' = [run EXCEPT ![w].at = at]
Return(w) == run' = [run EXCEPT ![w] = NoRun]

\* The attempt fails; what it has put into the store is removed first.
Raise(w, error) ==
    run' = [run EXCEPT ![w].error = error, ![w].at = IF run[w].created THEN "drop" ELSE "fail"]

Current(w) == job[run[w].gen].status = "RUNNING" /\ job[run[w].gen].attempt = run[w].attempt

\* Mutant: the attempt is compared, the source's generation is not.
FencedByJob(w) == Current(w)

Fenced(w) == Current(w) /\ source.generation = run[w].gen

JobBecomes(g, status) == job' = [job EXCEPT ![g].status = status, ![g].fresh = FALSE]

\* What the job leaves in its source when it ends badly.
SourceFails(g, status) ==
    source' = IF source.generation = g /\ source.status # "DELETED" /\ job[g].op # "DELETE"
              THEN [source EXCEPT !.status = status, !.deferred = FALSE] ELSE source

Deliverable(w, g) == run[w].at = "idle" /\ job[g].status \notin Ended \cup {"NONE"}

Started(w, g, at) ==
    /\ job' = [job EXCEPT ![g].status = "RUNNING", ![g].attempt = @ + 1, ![g].fresh = TRUE]
    /\ source' = IF source.generation = g /\ job[g].op \in Ingests
                 THEN [source EXCEPT !.status = "SYNCING"] ELSE source
    /\ run' = [run EXCEPT ![w] = [NoRun EXCEPT !.at = at, !.gen = g, !.attempt = job[g].attempt + 1,
                                               !.permission = source.permission,
                                               !.error = IF at = "fail" THEN "terminal" ELSE "none"]]

\* beginAttempt.  A fresh heartbeat refuses the delivery (KNOWLEDGE_VALIDATION_JOB_BUSY).
Begin(w, g) ==
    /\ Deliverable(w, g) /\ job[g].exact
    /\ source.generation = g
    /\ ~(job[g].status = "RUNNING" /\ job[g].fresh)
    /\ IF job[g].attempt < MaxAttempts
       THEN Started(w, g, CASE job[g].op \in Ingests -> "prepare"
                            [] job[g].op = "RECONCILE" -> "reconcile"
                            [] job[g].op = "DELETE" -> "delete")
       ELSE /\ JobBecomes(g, "DEAD_LETTER")
            /\ SourceFails(g, "FAILED")
            /\ UNCHANGED run
    /\ UNCHANGED <<document, revision, ledger, stored, points, upserted, faults>>

\* A job that does not match its event, an actor without the role or a deadline that
\* has passed: the attempt starts, whatever the heartbeat says, and fails.
BeginRefused(w, g) ==
    /\ Deliverable(w, g)
    /\ \/ ~job[g].exact /\ UNCHANGED faults
       \/ job[g].exact /\ Fault
    /\ IF job[g].attempt < MaxAttempts
       THEN Started(w, g, "fail")
       ELSE /\ JobBecomes(g, "DEAD_LETTER")
            /\ SourceFails(g, "FAILED")
            /\ UNCHANGED run
    /\ UNCHANGED <<document, revision, ledger, stored, points, upserted>>

\* The generation is over.
BeginStale(w, g) ==
    /\ Deliverable(w, g) /\ job[g].exact
    /\ source.generation # g
    /\ job' = [job EXCEPT ![g].status = "CANCELLED", ![g].attempt = @ + 1, ![g].fresh = FALSE]
    /\ UNCHANGED <<source, document, revision, ledger, stored, points, upserted, run, faults>>

\* failAttempt does nothing when the attempt was replaced.
Fail(w) ==
    /\ run[w].at = "fail"
    /\ LET g == run[w].gen
           retried == run[w].error = "retryable" /\ run[w].attempt < MaxAttempts
       IN  IF ~Current(w) THEN UNCHANGED <<job, source>>
           ELSE /\ JobBecomes(g, CASE run[w].error = "stale" -> "CANCELLED"
                                    [] retried -> "RETRY_SCHEDULED"
                                    [] OTHER -> "FAILED")
                /\ IF run[w].error = "stale" THEN UNCHANGED source
                   ELSE SourceFails(g, IF retried THEN "SYNCING" ELSE "FAILED")
    /\ Return(w)
    /\ UNCHANGED <<document, revision, ledger, stored, points, upserted, faults>>

\* completeAttempt
Complete(w) ==
    /\ run[w].at = "complete"
    /\ IF Fenced(w) THEN JobBecomes(run[w].gen, "SUCCEEDED") /\ Return(w)
       ELSE UNCHANGED job /\ Raise(w, "stale")
    /\ UNCHANGED <<source, document, revision, ledger, stored, points, upserted, faults>>

-----------------------------------------------------------------------------
(* Import and synchronisation.                                             *)

\* setStage, the acquisition, the parser and the scan.
Prepare(w, c) ==
    /\ run[w].at = "prepare"
    /\ IF Current(w)
       THEN /\ job' = [job EXCEPT ![run[w].gen].fresh = TRUE]
            /\ run' = [run EXCEPT ![w].at = "compare", ![w].content = c]
       ELSE UNCHANGED job /\ Raise(w, "stale")
    /\ UNCHANGED <<source, document, revision, ledger, stored, points, upserted, faults>>

\* The draft has this content and these permissions.
Unchanged(w) ==
    /\ document.draft # 0
    /\ revision[document.draft].content = run[w].content
    /\ revision[document.draft].fingerprint = run[w].permission

\* sourceStatusAfterRevision of the current draft
DraftStatus ==
    LET d == revision[document.draft] IN
    IF d.state = "NEEDS_REVIEW" THEN "NEEDS_REVIEW"
    ELSE IF d.state \in {"READY", "PUBLISHED"} /\ d.live /\ d.indexed THEN "READY"
    ELSE "SYNCING"

SettleUnchanged == source' = [source EXCEPT !.status = DraftStatus, !.deferred = FALSE]

\* noChangeWebsite
Compare(w) ==
    /\ run[w].at = "compare"
    /\ \/ ~Fenced(w) /\ Raise(w, "stale") /\ UNCHANGED source
       \/ Fenced(w) /\ Unchanged(w) /\ SettleUnchanged /\ GoTo(w, "list")
       \/ Fenced(w) /\ ~Unchanged(w) /\ UNCHANGED source /\ GoTo(w, "put")
    /\ UNCHANGED <<job, document, revision, ledger, stored, points, upserted, faults>>

Key(w) == <<run[w].gen, run[w].content>>

\* setStage, before the objects are written.
FencePut(w) ==
    /\ run[w].at = "put"
    /\ IF Current(w)
       THEN job' = [job EXCEPT ![run[w].gen].fresh = TRUE] /\ GoTo(w, "write")
       ELSE UNCHANGED job /\ Raise(w, "stale")
    /\ UNCHANGED <<source, document, revision, ledger, stored, points, upserted, faults>>

\* putOrVerify: an object that is there already is used.
Put(w) ==
    /\ run[w].at = "write"
    /\ stored' = stored \cup {Key(w)}
    /\ run' = [run EXCEPT ![w].at = "persist", ![w].created = Key(w) \notin stored]
    /\ UNCHANGED <<source, job, document, revision, ledger, points, upserted, faults>>

\* Mutant: the draft that is superseded is denied, but no rows are written for it.
SupersededRowsForgotten(w) == ledger

\* The cleanup of the draft that is superseded, unless it is the published one.
SupersededRows(w) ==
    IF document.draft \in {0, document.published} THEN ledger
    ELSE ledger \cup {l \in Rows(run[w].gen, document.draft, Reconciled) :
                         ~\E k \in ledger : k.gen = l.gen /\ k.target = l.target /\ k.sub = l.sub}

SupersededDraft ==
    IF document.draft \in {0, document.published} THEN revision
    ELSE [Denied({document.draft}) EXCEPT
             ![document.draft].state = IF @ \in {"READY", "NEEDS_REVIEW"} THEN "SUPERSEDED" ELSE @]

DocumentStatus(state) == IF state = "CHUNKING" THEN "DISCOVERED" ELSE "NEEDS_REVIEW"

\* What persistWebsite throws: its fence, or the unique key of the artifact, which an
\* earlier attempt of the job has created from the same content.
PersistError(w) ==
    IF ~Fenced(w) \/ source.status \in Gone THEN "stale"
    ELSE IF ~Unchanged(w) /\ \E r \in Revisions : revision[r].key = Key(w) THEN "retryable"
    ELSE "none"

\* persistWebsite: the revision with its chunks, or none when the draft is the same by
\* now.  The scan may have asked for a review.  The answer may be lost.
Persist(w) ==
    /\ run[w].at = "persist" /\ ~run[w].aborted
    /\ \/ /\ PersistError(w) # "none"
          /\ Raise(w, PersistError(w))
          /\ UNCHANGED <<source, document, revision, ledger, faults>>
       \/ /\ PersistError(w) = "none" /\ Unchanged(w)
          /\ SettleUnchanged
          /\ GoTo(w, IF run[w].created THEN "drop" ELSE "list")
          /\ UNCHANGED <<document, revision, ledger, faults>>
       \/ /\ PersistError(w) = "none" /\ ~Unchanged(w)
          /\ \E state \in {"CHUNKING", "NEEDS_REVIEW"} :
                /\ revision' = Append(SupersededDraft,
                       [state |-> state, content |-> run[w].content, key |-> Key(w),
                        fingerprint |-> run[w].permission, permission |-> source.permission,
                        live |-> TRUE, indexed |-> FALSE])
                /\ document' = [document EXCEPT !.draft = Len(revision) + 1,
                                                !.status = DocumentStatus(state)]
                /\ source' = [source EXCEPT !.deferred = FALSE,
                                 !.status = IF state = "CHUNKING" THEN "SYNCING" ELSE "NEEDS_REVIEW"]
          /\ ledger' = SupersededRows(w)
          /\ \/ GoTo(w, "list") /\ UNCHANGED faults
             \/ Raise(w, "retryable") /\ Fault
    /\ UNCHANGED <<job, stored, points, upserted>>

\* The objects that this attempt has created are deleted.
Drop(w) ==
    /\ run[w].at = "drop"
    /\ stored' = stored \ {Key(w)}
    /\ run' = [run EXCEPT ![w].created = FALSE,
                          ![w].at = IF run[w].error = "none" THEN "list" ELSE "fail"]
    /\ UNCHANGED <<source, job, document, revision, ledger, points, upserted, faults>>

-----------------------------------------------------------------------------
(* Reconciliation.                                                         *)

Stale(r) == revision[r].permission # source.permission
Changed(r) == revision[r].fingerprint # source.permission

\* The draft is copied under the current permissions.
Copied ==
    LET d == document.draft
        old == [Denied({r \in Revisions : Stale(r)}) EXCEPT
                   ![d].state = IF @ = "PUBLISHED" THEN @ ELSE "SUPERSEDED"]
        state == IF revision[d].state = "NEEDS_REVIEW" THEN "NEEDS_REVIEW" ELSE "CHUNKING"
    IN  Append(old, [revision[d] EXCEPT !.state = state, !.fingerprint = source.permission,
                        !.permission = source.permission, !.live = TRUE, !.indexed = FALSE])

\* reconcileSource: an exclusion, or new permissions.
Reconcile(w) ==
    /\ run[w].at = "reconcile"
    /\ LET excluded == job[run[w].gen].excluded
           d == document.draft
       IN  \/ ~Fenced(w) /\ Raise(w, "stale") /\ UNCHANGED <<source, document, revision>>
           \/ /\ Fenced(w) /\ ~(excluded = 0 /\ d # 0 /\ Changed(d))
              /\ revision' = IF excluded # 0 THEN revision
                             ELSE Denied({r \in Revisions : Stale(r)})
              /\ source' = [source EXCEPT !.deferred = FALSE, !.status =
                    IF (IF excluded # 0 THEN document.status = "NEEDS_REVIEW"
                        ELSE d # 0 /\ revision[d].state = "NEEDS_REVIEW")
                    THEN "NEEDS_REVIEW" ELSE "SYNCING"]
              /\ GoTo(w, "list")
              /\ UNCHANGED document
           \/ /\ Fenced(w) /\ excluded = 0 /\ d # 0 /\ Changed(d)
              /\ revision' = Copied
              /\ document' = [document EXCEPT !.draft = Len(revision) + 1,
                                 !.status = DocumentStatus(Copied[Len(revision) + 1].state)]
              /\ source' = [source EXCEPT !.deferred = FALSE, !.status =
                    IF revision[d].state = "NEEDS_REVIEW" THEN "NEEDS_REVIEW" ELSE "SYNCING"]
              /\ GoTo(w, "list")
    /\ UNCHANGED <<job, ledger, stored, points, upserted, faults>>

-----------------------------------------------------------------------------
(* The rows of the ledger, of a reconciliation or of a deletion.           *)

Deleting(w) == job[run[w].gen].op = "DELETE"

\* assertAttemptFence and assertDeletionFence
RowFence(w) ==
    /\ Fenced(w)
    /\ IF Deleting(w) THEN source.status = "DELETING" ELSE source.status \notin Gone

Mine(w, l) == l.gen = run[w].gen

\* deleteSource begins with its fence; then all rows of the generation are read.
ListRows(w) ==
    /\ run[w].at \in {"list", "delete"}
    /\ IF run[w].at = "delete" /\ ~RowFence(w) THEN Raise(w, "stale")
       ELSE LET open == {l \in ledger : Mine(w, l) /\ l.status # "COMPLETED"}
            IN  run' = [run EXCEPT ![w].at = "rows", ![w].rows = {<<l.target, l.sub>> : l \in open}]
    /\ UNCHANGED <<source, job, document, revision, ledger, stored, points, upserted, faults>>

FirstOf(rows) == CHOOSE x \in rows : \A y \in rows :
                     x[1] < y[1] \/ (x[1] = y[1] /\ Rank[x[2]] <= Rank[y[2]])

First(w) == FirstOf(run[w].rows)

IsFirst(w, l) == Mine(w, l) /\ l.target = First(w)[1] /\ l.sub = First(w)[2]

\* The next row, or the end: setStage of an ingestion, the last transaction of a deletion.
NextRow(w) ==
    /\ run[w].at = "rows"
    /\ IF run[w].rows = {} THEN GoTo(w, IF Deleting(w) THEN "finish" ELSE "complete")
       ELSE IF RowFence(w) THEN GoTo(w, "claim") ELSE Raise(w, "stale")
    /\ UNCHANGED <<source, job, document, revision, ledger, stored, points, upserted, faults>>

\* claimDeletionLedger: also a row in progress.  The claim is its startedAt.
ClaimRow(w) ==
    /\ run[w].at = "claim"
    /\ LET rows == {l \in ledger : IsFirst(w, l) /\ l.status # "COMPLETED"}
       IN  IF rows = {} THEN Raise(w, "retryable") /\ UNCHANGED ledger
           ELSE /\ ledger' = (ledger \ rows) \cup
                     {[l EXCEPT !.status = "IN_PROGRESS", !.by = w] : l \in rows}
                /\ GoTo(w, "clean")
    /\ UNCHANGED <<source, job, document, revision, stored, points, upserted, faults>>

Covered(target) == IF target = Source THEN Revisions ELSE {target}

\* acknowledgedVectorPointIds; a deletion takes the live ones, too.
Acknowledged(w) ==
    {r \in Covered(First(w)[1]) : revision[r].indexed /\ (Deleting(w) \/ ~revision[r].live)}

\* The work of the row: vectors and objects are deleted one by one, outside of any
\* transaction; the object row and the content row end in a fenced transaction.
CleanRow(w) ==
    /\ run[w].at = "clean"
    /\ LET sub == First(w)[2] IN
       /\ points' = IF sub = "VECTOR_INDEX" THEN points \ Acknowledged(w) ELSE points
       /\ stored' = IF sub = "OBJECT_STORAGE"
                    THEN stored \ {revision[r].key : r \in Revisions} ELSE stored
       /\ IF sub \in {"OBJECT_STORAGE", "POSTGRES_CONTENT"} /\ ~RowFence(w)
          THEN run' = [run EXCEPT ![w].at = "failRow", ![w].error = "stale"]
               /\ UNCHANGED <<revision, document>>
          ELSE /\ GoTo(w, "cleaned")
               /\ revision' = IF sub # "POSTGRES_CONTENT" THEN revision
                              ELSE [r \in Revisions |-> [revision[r] EXCEPT !.state = "DELETED",
                                                                           !.live = FALSE]]
               /\ document' = IF sub = "POSTGRES_CONTENT" /\ document.status # "NONE"
                              THEN [document EXCEPT !.status = "DELETED"] ELSE document
    /\ UNCHANGED <<source, job, ledger, upserted, faults>>

FenceCleaned(w) ==
    /\ run[w].at = "cleaned"
    /\ run' = IF RowFence(w) THEN [run EXCEPT ![w].at = "completeRow"]
              ELSE [run EXCEPT ![w].at = "failRow", ![w].error = "stale"]
    /\ UNCHANGED <<source, job, document, revision, ledger, stored, points, upserted, faults>>

MyClaim(w) == {l \in ledger : IsFirst(w, l) /\ l.status = "IN_PROGRESS" /\ l.by = w}

Settled(w, status) ==
    (ledger \ MyClaim(w)) \cup {[l EXCEPT !.status = status, !.by = None] : l \in MyClaim(w)}

\* completeDeletionLedger
CompleteRow(w) ==
    /\ run[w].at = "completeRow"
    /\ IF MyClaim(w) = {}
       THEN run' = [run EXCEPT ![w].at = "failRow", ![w].error = "stale"] /\ UNCHANGED ledger
       ELSE ledger' = Settled(w, "COMPLETED")
            /\ run' = [run EXCEPT ![w].at = "rows", ![w].rows = @ \ {First(w)}]
    /\ UNCHANGED <<source, job, document, revision, stored, points, upserted, faults>>

\* failDeletionLedger
FailRow(w) ==
    /\ run[w].at = "failRow"
    /\ ledger' = Settled(w, "FAILED")
    /\ GoTo(w, "fail")
    /\ UNCHANGED <<source, job, document, revision, stored, points, upserted, faults>>

\* The last transaction of deleteSource.
FinishDelete(w) ==
    /\ run[w].at = "finish"
    /\ IF RowFence(w) /\ \A l \in ledger : Mine(w, l) => l.status = "COMPLETED"
       THEN source' = [source EXCEPT !.status = "DELETED"] /\ GoTo(w, "complete")
       ELSE UNCHANGED source /\ Raise(w, "stale")
    /\ UNCHANGED <<job, document, revision, ledger, stored, points, upserted, faults>>

-----------------------------------------------------------------------------
(* Faults.                                                                 *)

Working(w) == run[w].at \notin {"idle", "fail", "drop", "failRow"}

\* The website, the store, the index or the database fails, or the abort of a timed-out
\* attempt is noticed.
Throw(w) ==
    /\ Working(w)
    /\ IF run[w].aborted THEN UNCHANGED faults ELSE Fault
    /\ \E error \in {"retryable"} \cup (IF run[w].aborted THEN {} ELSE {"terminal"}) :
          IF run[w].at \in {"clean", "cleaned", "completeRow"}
          THEN run' = [run EXCEPT ![w].at = "failRow", ![w].error = error]
          ELSE Raise(w, error)
    /\ UNCHANGED <<source, job, document, revision, ledger, stored, points, upserted>>

Crash(w) ==
    /\ run[w].at # "idle"
    /\ Fault
    /\ Return(w)
    /\ UNCHANGED <<source, job, document, revision, ledger, stored, points, upserted>>

\* fenceTimedOutKnowledgeJob: whichever attempt is running; the timed-out one goes on
\* until it looks at the signal.
TimeOut(w) ==
    /\ Working(w) /\ ~run[w].aborted
    /\ Fault
    /\ LET g == run[w].gen IN
         IF job[g].status = "RUNNING"
         THEN /\ JobBecomes(g, "RETRY_SCHEDULED")
              /\ SourceFails(g, "SYNCING")
         ELSE UNCHANGED <<job, source>>
    /\ run' = [run EXCEPT ![w].aborted = TRUE]
    /\ UNCHANGED <<document, revision, ledger, stored, points, upserted>>

\* The event cannot be delivered, has expired or has used up its deliveries, perhaps
\* after its job was executed.
DeadLetter(g) ==
    /\ job[g].status # "NONE"
    /\ Fault
    /\ IF job[g].status \in Ended \ {"FAILED"} THEN UNCHANGED job ELSE JobBecomes(g, "DEAD_LETTER")
    /\ SourceFails(g, "FAILED")
    /\ UNCHANGED <<document, revision, ledger, stored, points, upserted, run>>

AtWork(g) ==
    \E w \in Workers : run[w].at # "idle" /\ run[w].gen = g /\ run[w].attempt = job[g].attempt

\* staleAttemptMs passes, over an attempt at work or over a dead one.
HeartbeatAges(g) ==
    /\ job[g].status = "RUNNING" /\ job[g].fresh
    /\ job' = [job EXCEPT ![g].fresh = FALSE]
    /\ IF AtWork(g) THEN Fault ELSE UNCHANGED faults
    /\ UNCHANGED <<source, document, revision, ledger, stored, points, upserted, run>>

-----------------------------------------------------------------------------
Request ==
    \/ Update \/ VerifyPermission \/ Pause \/ Sync \/ Resume \/ DeleteSource
    \/ \E r \in Revisions : ExcludeRevision(r)

Work(w) ==
    \/ \E c \in Contents : Prepare(w, c)
    \/ Compare(w) \/ FencePut(w) \/ Put(w) \/ Persist(w) \/ Drop(w) \/ Reconcile(w)
    \/ ListRows(w) \/ NextRow(w) \/ ClaimRow(w) \/ CleanRow(w) \/ FenceCleaned(w)
    \/ CompleteRow(w) \/ FailRow(w) \/ FinishDelete(w) \/ Complete(w) \/ Fail(w)

Next ==
    \/ Request \/ Upsert \/ Index \/ Publish
    \/ \E x \in upserted : Compensate(x)
    \/ \E w \in Workers :
          \/ Work(w) \/ Throw(w) \/ Crash(w) \/ TimeOut(w)
          \/ \E g \in Generations : Begin(w, g) \/ BeginRefused(w, g) \/ BeginStale(w, g)
    \/ \E g \in Generations : DeadLetter(g) \/ HeartbeatAges(g)

Spec == Init /\ [][Next]_vars

-----------------------------------------------------------------------------
(* Properties.                                                             *)

SourceTypeOK ==
    /\ source.status \in Gone \cup
           {"CONNECTING", "SYNCING", "READY", "PAUSED", "NEEDS_REVIEW", "FAILED"}
    /\ source.generation \in Generations
    /\ \A g \in Generations :
          /\ job[g].status \in Ended \cup {"NONE", "QUEUED", "RUNNING", "RETRY_SCHEDULED"}
          /\ job[g].fresh => job[g].status = "RUNNING"
    /\ {document.draft, document.published} \subseteq Revisions \cup {0}
    /\ points \subseteq Revisions /\ upserted \subseteq Generations \X Nat
    /\ faults \in 0..MaxFaults

\* Once its deletion has been asked for, no late attempt, timeout, dead letter,
\* validation or publication brings the source back (failAttempt,
\* fenceTimedOutKnowledgeJob and their generation conditions).
DeletionHolds ==
    (\E g \in Generations : job[g].op = "DELETE") <=> source.status \in Gone

\* Only content that was scanned under the source's current permissions, and under
\* the version its chunks name, can be retrieved, and none of a source that is being
\* deleted: an attempt that prepared its content before an edit or a deletion does not
\* persist it afterwards (persistWebsite, reconcileSource).
OnlyAdmittedContentIsLive ==
    \A r \in Revisions : revision[r].live =>
        /\ source.status \notin Gone
        /\ revision[r].fingerprint = source.permission
        /\ revision[r].permission = source.permission

\* The source's state fits the requests made and the attempts that ran.
SourceInvariant == SourceTypeOK /\ DeletionHolds /\ OnlyAdmittedContentIsLive

\* A deleted source has no acknowledged points in the index and no content in the
\* database (deleteSource).
DeletedIsErased ==
    source.status = "DELETED" =>
        points = {} /\ \A r \in Revisions : revision[r].state = "DELETED"

\* What commitReadySnapshot has acknowledged is found again: its points of denied chunks
\* are in the index only while a row of the ledger says so, although rows move between
\* generations, are claimed twice and are completed by attempts that were replaced, and
\* although preparations commit between requests (processReconciliationLedgers,
\* ensureReconciliationLedgers); and a deleted source has neither content nor such
\* points.  Points of a preparation that did not commit are not covered: the ledger's
\* work does not know them, and the code leaves them in the index (DeletedHasNoPoints).
CleanupIsProven ==
    /\ \A r \in points : ~revision[r].live =>
          \E l \in ledger : /\ l.sub = "VECTOR_INDEX" /\ l.status # "COMPLETED"
                            /\ l.target \in {Source, r}
    /\ DeletedIsErased

\* "A deletion ledger tracks every physical subsystem and completion status", and of an
\* abandoned candidate "delete its staged points through a durable cleanup job"
\* (docs/BUSINESS_KNOWLEDGE_SYSTEM_DESIGN.md): a deleted source has no points at all.
\* The code does not ensure it: acknowledgedVectorPointIds and deleteVectors find only the
\* points of a snapshot that was committed, and a preparer that has written others may
\* die, or write them after the row was completed.
DeletedHasNoPoints == source.status = "DELETED" => points = {} /\ upserted = {}

\* What can be retrieved has its raw and extracted content in the store.  The code does
\* not ensure it: an attempt whose commit succeeded and whose answer was lost deletes
\* the objects that it has created (ingestPreparedContent).
LiveContentIsStored ==
    \A r \in Revisions : revision[r].live => revision[r].key \in stored

\* "Retries cannot resurrect deleted content" (docs/BUSINESS_KNOWLEDGE_SYSTEM_DESIGN.md):
\* the store has no object of a revision of a deleted source.  The code does not ensure
\* it: an attempt that has passed setStage writes its objects whenever it gets to it.
DeletedHasNoObjects ==
    source.status = "DELETED" => \A r \in Revisions : revision[r].key \notin stored

=============================================================================
