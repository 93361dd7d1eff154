--------------------------- MODULE BusinessImport ---------------------------
(***************************************************************************)
(* One business import: its row, the ledger of the objects it stores, and  *)
(* the object store.  The API uploads the file, finalizes, retries and     *)
(* cancels (business-import-upload, -workflow and -object-lifecycle); the  *)
(* workers process the jobs that finalize and retry publish                *)
(* (business-import-processor), a job possibly more than once and at the   *)
(* same time, because the inbox lease of a slow worker runs out; the       *)
(* sweeper expires abandoned uploads and deletes objects                   *)
(* (business-import-object-sweeper).                                       *)
(*                                                                         *)
(* An object is stored only under a ledger row, which is pending until a   *)
(* transaction adopts it together with the reference to it, and which      *)
(* leaves RETAINED for good before its object is deleted.  The key of the  *)
(* staging object and of the raw artifact belong to the import; the keys   *)
(* of the parser's output (manifest and evidence, one object here) also    *)
(* contain the generation.  A transaction is one step.  Clocks are         *)
(* choices: an upload's deadline may have passed at any moment, a row's    *)
(* retention ends at any moment, and a deletion may always be taken for    *)
(* abandoned.                                                              *)
(***************************************************************************)
EXTENDS Naturals

CONSTANTS
    Workers,        \* executions of import jobs
    Collectors,     \* executions that delete objects
    MaxGeneration,  \* bound: generations of the import (retries and a cancellation)
    MaxFaults,      \* bound: errors, deaths and ends of retentions
    None            \* no actor, no object

ASSUME BoundAssumption == MaxGeneration \in Nat \ {0} /\ MaxFaults \in Nat

VARIABLES
    import,      \* the BusinessImport row
    quota,       \* status of its BusinessImportQuotaReservation
    ledger,      \* ledger[o]: the BusinessImportObjectLedger row of object o
    stored,      \* the objects in the object store
    jobs,        \* the generations for which a parse event was created
    uploader,    \* where the request that uploads the file is
    job,         \* job[w]: where w is, its job's generation, the rows its cleanup found
    faults,      \* how many faults there were
    collecting   \* collecting[c]: the object c has claimed and what c does to it

vars == <<import, quota, ledger, stored, jobs, uploader, job, faults, collecting>>

Generations == 1..MaxGeneration

Staging == <<"staging", 0>>
Raw == <<"raw", 0>>
Output(g) == <<"output", g>>
Objects == {Staging, Raw} \cup {Output(g) : g \in Generations}

NoRow == [class |-> "none", scope |-> 0, status |-> "NONE", due |-> FALSE, by |-> None]
UploadScope == 0

Uploads == {"CREATED", "UPLOADING", "UPLOADED"}
Processing == {"SCANNING", "PARSING"}
Active == Processing \cup {"FAILED_RETRYABLE"}
Terminal == {"CANCELLED", "REJECTED", "FAILED", "EXPIRED"}
Parsed == {"READY_FOR_REVIEW"}
Cancellable == Uploads \cup Active \cup Parsed

NoJob == [at |-> "idle", gen |-> 0, found |-> {}]

Idle == [object |-> None, step |-> "idle"]

Init ==
    /\ import = [state |-> "CREATED", generation |-> 1, staging |-> FALSE,
                 artifact |-> FALSE, parsed |-> 0]
    /\ quota = "RESERVED"
    /\ ledger = [o \in Objects |-> NoRow]
    /\ stored = {}
    /\ jobs = {}
    /\ uploader = "none"
    /\ job = [w \in Workers |-> NoJob]
    /\ faults = 0
    /\ collecting = [c \in Collectors |-> Idle]

\* One of the faults there may be.
Fault == faults < MaxFaults /\ faults' = faults + 1

-----------------------------------------------------------------------------
(* The ledger.                                                             *)

Retained(o) == ledger[o].status = "RETAINED"

IsPending(o, scope) == ledger[o].class = "pending" /\ ledger[o].scope = scope

Pending(scope) ==
    [class |-> "pending", scope |-> scope, status |-> "RETAINED", due |-> FALSE, by |-> None]

Adopted == [class |-> "final", scope |-> 0, status |-> "RETAINED", due |-> FALSE, by |-> None]

\* Every row of os that is retained, and of the right kind, is tombstoned.
Tombstone(os) ==
    [o \in Objects |-> IF o \in os /\ Retained(o)
                       THEN [ledger[o] EXCEPT !.status = "TOMBSTONED"] ELSE ledger[o]]

FinalStaging == IF ledger[Staging].class = "final" THEN {Staging} ELSE {}

Released == IF quota = "RESERVED" THEN "RELEASED" ELSE quota

\* The import ends: it lets go of its staging object and of its quota.
End(state) ==
    /\ import' = [import EXCEPT !.state = state, !.staging = FALSE]
    /\ quota' = Released
    /\ ledger' = IF import.staging THEN Tombstone(FinalStaging) ELSE ledger

-----------------------------------------------------------------------------
(* The upload.                                                             *)

ClaimUpload ==
    /\ import.state = "CREATED"
    /\ import' = [import EXCEPT !.state = "UPLOADING"]
    /\ uploader' = "reserve"
    /\ UNCHANGED <<quota, ledger, stored, jobs, job, faults, collecting>>

\* The upload link has expired.
UploadTooLate ==
    /\ import.state = "CREATED"
    /\ End("EXPIRED")
    /\ UNCHANGED <<stored, jobs, uploader, job, faults, collecting>>

ReserveStaging ==
    /\ uploader = "reserve"
    /\ ledger[Staging] = NoRow
    /\ ledger' = [ledger EXCEPT ![Staging] = Pending(UploadScope)]
    /\ uploader' = "put"
    /\ UNCHANGED <<import, quota, stored, jobs, job, faults, collecting>>

PutStaging ==
    /\ uploader = "put"
    /\ stored' = stored \cup {Staging}
    /\ uploader' = "adopt"
    /\ UNCHANGED <<import, quota, ledger, jobs, job, faults, collecting>>

\* The row is adopted and referenced in one transaction; the answer of its
\* commit may be lost.
AdoptStaging ==
    /\ uploader = "adopt"
    /\ IsPending(Staging, UploadScope) /\ Retained(Staging)
    /\ import.state = "UPLOADING"
    /\ ledger' = [ledger EXCEPT ![Staging] = Adopted]
    /\ import' = [import EXCEPT !.state = "UPLOADED", !.staging = TRUE]
    /\ \/ uploader' = "done" /\ UNCHANGED faults
       \/ uploader' = "reject" /\ Fault
    /\ UNCHANGED <<quota, stored, jobs, job, collecting>>

\* The row or the claim is lost: the transaction rolls back.
LoseUpload ==
    /\ uploader = "adopt"
    /\ ~(IsPending(Staging, UploadScope) /\ Retained(Staging)) \/ import.state # "UPLOADING"
    /\ uploader' = "reject"
    /\ UNCHANGED <<import, quota, ledger, stored, jobs, job, faults, collecting>>

\* The stream, the store or the database fails.
FailUpload ==
    /\ Fault
    /\ \/ uploader \in {"reserve", "adopt"} /\ uploader' = "reject"
       \/ uploader = "put" /\ uploader' = "abort"
    /\ UNCHANGED <<import, quota, ledger, stored, jobs, job, collecting>>

\* Mutant: the upload is rejected, whatever has become of the import.
RejectAnyway ==
    /\ uploader = "reject"
    /\ import' = [import EXCEPT !.state = "REJECTED"]
    /\ quota' = Released
    /\ uploader' = "cleanup"
    /\ UNCHANGED <<ledger, stored, jobs, job, faults, collecting>>

RejectUpload ==
    /\ uploader = "reject"
    /\ IF import.state = "UPLOADING"
       THEN import' = [import EXCEPT !.state = "REJECTED"] /\ quota' = Released
       ELSE UNCHANGED <<import, quota>>
    /\ uploader' = "cleanup"
    /\ UNCHANGED <<ledger, stored, jobs, job, faults, collecting>>

\* cleanupPendingBusinessImportObject: the row is tombstoned if it is still
\* the upload's own; its deletion is left to the collectors.  A failed put
\* cleans up before the upload is rejected, too.
CleanupUpload ==
    /\ \/ uploader = "abort" /\ uploader' = "reject"
       \/ uploader = "cleanup" /\ uploader' = "done"
    /\ ledger' = IF IsPending(Staging, UploadScope) THEN Tombstone({Staging}) ELSE ledger
    /\ UNCHANGED <<import, quota, stored, jobs, job, faults, collecting>>

CrashUpload ==
    /\ Fault
    /\ uploader \in {"reserve", "put", "adopt", "abort", "reject", "cleanup"}
    /\ uploader' = "done"
    /\ UNCHANGED <<import, quota, ledger, stored, jobs, job, collecting>>

-----------------------------------------------------------------------------
(* The workflow.                                                           *)

Finalize ==
    /\ import.state = "UPLOADED" /\ import.staging
    /\ import' = [import EXCEPT !.state = "SCANNING"]
    /\ jobs' = jobs \cup {import.generation}
    /\ UNCHANGED <<quota, ledger, stored, uploader, job, faults, collecting>>

Retry ==
    /\ import.state = "FAILED_RETRYABLE" /\ import.staging
    /\ import.generation < MaxGeneration
    /\ import' = [import EXCEPT !.state = "SCANNING", !.generation = @ + 1, !.parsed = 0]
    /\ jobs' = jobs \cup {import.generation + 1}
    /\ UNCHANGED <<quota, ledger, stored, uploader, job, faults, collecting>>

\* The generation after the last stands for itself: no job has it.
Cancel ==
    /\ import.state \in Cancellable
    /\ import' = [import EXCEPT !.state = "CANCELLED", !.staging = FALSE, !.generation = @ + 1]
    /\ quota' = Released
    /\ ledger' = IF import.staging THEN Tombstone(FinalStaging) ELSE ledger
    /\ UNCHANGED <<stored, jobs, uploader, job, faults, collecting>>

-----------------------------------------------------------------------------
(* The worker.                                                             *)

GoTo(w, at) == job' = [job EXCEPT ![w].at = at]

Return(w) == job' = [job EXCEPT ![w] = NoJob]

\* beginImport: a job of another generation, of an import that has ended or
\* that is parsed already returns and does nothing.
Begin(w, g) ==
    /\ job[w].at = "idle" /\ g \in jobs
    /\ g = import.generation /\ import.state \in Active
    /\ import.staging /\ Retained(Staging)
    /\ import' = [import EXCEPT !.state = IF @ = "FAILED_RETRYABLE" THEN "SCANNING" ELSE @]
    /\ job' = [job EXCEPT ![w] = [at |-> "findExpired", gen |-> g, found |-> {}]]
    /\ UNCHANGED <<quota, ledger, stored, jobs, uploader, faults, collecting>>

\* failUnstartedImport: the event has expired, the actor lost its role, the
\* quota is used up or the database fails.
FailUnstarted(w, g) ==
    /\ Fault
    /\ job[w].at = "idle" /\ g \in jobs
    /\ g = import.generation /\ import.state \in Active
    /\ \/ End("FAILED")
       \/ import' = [import EXCEPT !.state = "FAILED_RETRYABLE"] /\ UNCHANGED <<quota, ledger>>
    /\ UNCHANGED <<stored, jobs, uploader, job, collecting>>

\* Mutant: the rows of a cleanup are tombstoned even if they were adopted.
MayTombstoneAny(w) == job[w].found

\* cleanupBusinessImportPendingLedgerRows: the rows found earlier, if they
\* are pending still, for whatever generation.
MayTombstone(w) == {o \in job[w].found : ledger[o].class = "pending"}

\* cleanupExpiredPendingOutputs
FindExpired(w) ==
    /\ job[w].at = "findExpired"
    /\ LET due == {o \in Objects : /\ ledger[o].class = "pending" /\ ledger[o].due
                                   /\ ledger[o].scope # job[w].gen}
       IN  IF due = {} THEN GoTo(w, "scan")
           ELSE job' = [job EXCEPT ![w].at = "dropExpired", ![w].found = due]
    /\ UNCHANGED <<import, quota, ledger, stored, jobs, uploader, faults, collecting>>

DropExpired(w) ==
    /\ job[w].at = "dropExpired"
    /\ ledger' = Tombstone(MayTombstone(w))
    /\ job' = [job EXCEPT ![w].at = "scan", ![w].found = {}]
    /\ UNCHANGED <<import, quota, stored, jobs, uploader, faults, collecting>>

\* The staged file is read, if it is still there, and admitted.
Scan(w) ==
    /\ job[w].at = "scan"
    /\ GoTo(w, IF Staging \in stored THEN "reserveRaw" ELSE "failRetryable")
    /\ UNCHANGED <<import, quota, ledger, stored, jobs, uploader, faults, collecting>>

\* reserveObjectLedgers: a new row is pending for this generation, and so is
\* a row that was pending for any other; an adopted row is used as it is.
Reserve(w, o, next) ==
    /\ \/ /\ ledger[o] = NoRow \/ (ledger[o].class = "pending" /\ Retained(o))
          /\ ledger' = [ledger EXCEPT ![o] = Pending(job[w].gen)]
          /\ GoTo(w, next)
       \/ /\ ledger[o].class = "final" /\ Retained(o)
          /\ UNCHANGED ledger
          /\ GoTo(w, next)
       \/ /\ ledger[o] # NoRow /\ ~Retained(o)   \* OBJECT_IDENTITY_CONFLICT
          /\ UNCHANGED ledger
          /\ GoTo(w, "failTerminal")
    /\ UNCHANGED <<import, quota, stored, jobs, uploader, faults, collecting>>

Put(w, o, next) ==
    /\ stored' = stored \cup {o}
    /\ GoTo(w, next)
    /\ UNCHANGED <<import, quota, ledger, jobs, uploader, faults, collecting>>

ReserveRaw(w) == job[w].at = "reserveRaw" /\ Reserve(w, Raw, "putRaw")

PutRaw(w) == job[w].at = "putRaw" /\ Put(w, Raw, "promote")

\* promoteArtifact's transaction: the generation moved on, or the row is not
\* this generation's any more, or it is adopted with the reference to it.
Promote(w) ==
    /\ job[w].at = "promote"
    /\ LET stale == import.generation # job[w].gen \/ import.state \notin Processing
           ours == Retained(Raw) /\ (IsPending(Raw, job[w].gen) \/ ledger[Raw].class = "final")
       IN  \/ /\ stale
              /\ GoTo(w, "findCurrent")
              /\ UNCHANGED <<import, ledger>>
           \/ /\ ~stale /\ ~ours
              /\ GoTo(w, "failTerminal")
              /\ UNCHANGED <<import, ledger>>
           \/ /\ ~stale /\ ours
              /\ ledger' = IF ledger[Raw].class = "final" THEN ledger
                           ELSE [ledger EXCEPT ![Raw] = Adopted]
              /\ import' = [import EXCEPT !.state = "PARSING", !.artifact = TRUE]
              /\ GoTo(w, "reserveOutput")
    /\ UNCHANGED <<quota, stored, jobs, uploader, faults, collecting>>

ReserveOutput(w) == job[w].at = "reserveOutput" /\ Reserve(w, Output(job[w].gen), "putOutput")

PutOutput(w) == job[w].at = "putOutput" /\ Put(w, Output(job[w].gen), "persist")

\* Mutant: the generation of the import is not compared.
IsStaleState(w) == import.state # "PARSING" \/ ~import.artifact

IsStale(w) ==
    import.generation # job[w].gen \/ import.state # "PARSING" \/ ~import.artifact

\* persistPublication: the output is adopted and the staging object let go.
Persist(w) ==
    /\ job[w].at = "persist"
    /\ LET o == Output(job[w].gen)
           ours == IsPending(o, job[w].gen) /\ Retained(o) /\ quota = "RESERVED"
       IN  \/ /\ IsStale(w)
              /\ GoTo(w, "findCurrent")
              /\ UNCHANGED <<import, quota, ledger>>
           \/ /\ ~IsStale(w) /\ ~ours
              /\ GoTo(w, "failTerminal")
              /\ UNCHANGED <<import, quota, ledger>>
           \/ /\ ~IsStale(w) /\ ours
              /\ ledger' = [Tombstone({Staging}) EXCEPT ![o] = Adopted]
              /\ import' = [import EXCEPT !.state = "READY_FOR_REVIEW", !.staging = FALSE,
                                          !.parsed = job[w].gen]
              /\ quota' = "CONSUMED"
              /\ Return(w)
    /\ UNCHANGED <<stored, jobs, uploader, faults, collecting>>

\* Any step may fail, for good (a rejected file, no role) or for now.
Throw(w) ==
    /\ Fault
    /\ job[w].at \in {"scan", "reserveRaw", "putRaw", "promote", "reserveOutput", "putOutput", "persist"}
    /\ GoTo(w, "failRetryable") \/ GoTo(w, "failTerminal")
    /\ UNCHANGED <<import, quota, ledger, stored, jobs, uploader, collecting>>

MayFail(w) == import.generation = job[w].gen /\ import.state \in Processing

\* failImport; after an error of its own the job ends as if the worker died.
FailImport(w) ==
    /\ \/ /\ job[w].at = "failRetryable"
          /\ import' = IF MayFail(w) THEN [import EXCEPT !.state = "FAILED_RETRYABLE"] ELSE import
          /\ UNCHANGED <<quota, ledger>>
          /\ Return(w)
       \/ /\ job[w].at = "failTerminal" /\ MayFail(w)
          /\ End("FAILED") \/ End("REJECTED")
          /\ GoTo(w, "findCurrent")
       \/ /\ job[w].at = "failTerminal" /\ ~MayFail(w)
          /\ UNCHANGED <<import, quota, ledger>>
          /\ GoTo(w, "findCurrent")
    /\ UNCHANGED <<stored, jobs, uploader, faults, collecting>>

\* cleanupCurrentPendingOutputs
FindCurrent(w) ==
    /\ job[w].at = "findCurrent"
    /\ LET own == {o \in Objects : IsPending(o, job[w].gen)}
       IN  IF own = {} THEN Return(w)
           ELSE job' = [job EXCEPT ![w].at = "dropCurrent", ![w].found = own]
    /\ UNCHANGED <<import, quota, ledger, stored, jobs, uploader, faults, collecting>>

DropCurrent(w) ==
    /\ job[w].at = "dropCurrent"
    /\ ledger' = Tombstone(MayTombstone(w))
    /\ Return(w)
    /\ UNCHANGED <<import, quota, stored, jobs, uploader, faults, collecting>>

\* The worker dies; its job is delivered again.
CrashWorker(w) ==
    /\ Fault
    /\ job[w].at # "idle"
    /\ Return(w)
    /\ UNCHANGED <<import, quota, ledger, stored, jobs, uploader, collecting>>

-----------------------------------------------------------------------------
(* The sweeper, and the deletions that uploads and workers make of rows    *)
(* they tombstoned.                                                        *)

ExpireAbandoned ==
    /\ import.state \in Uploads
    /\ End("EXPIRED")
    /\ UNCHANGED <<stored, jobs, uploader, job, faults, collecting>>

Referenced(o) ==
    \/ o = Staging /\ import.staging
    \/ o = Raw /\ import.artifact
    \/ import.parsed # 0 /\ o = Output(import.parsed)

\* Mutant: a deletion that failed or was abandoned is not taken up again.
CollectableOnce(o) ==
    /\ ledger[o].status \in {"RETAINED", "TOMBSTONED"}
    /\ ledger[o].class = "pending" => (Retained(o) => ledger[o].due) /\ ~Referenced(o)
    /\ ledger[o].class = "final" =>
         IF o = Staging THEN ~Retained(o) /\ ~Referenced(o) ELSE ledger[o].due

\* The three kinds of rows claimExpiredObjects selects.
Collectable(o) ==
    LET row == ledger[o] IN
    \/ row.class = "pending" /\ (Retained(o) => row.due) /\ ~Referenced(o)
    \/ o = Staging /\ row.class = "final" /\ ~Retained(o) /\ ~Referenced(o)
    \/ o # Staging /\ row.class = "final" /\ row.due

\* A row that is due is tombstoned and claimed; so is one that is tombstoned,
\* whose deletion failed, or whose deletion was abandoned.  To take a deletion
\* for abandoned that is only slow is a fault.
ClaimObject(c, o) ==
    /\ collecting[c] = Idle
    /\ ledger[o] # NoRow /\ ledger[o].status # "DELETED"
    /\ Collectable(o)
    /\ IF \E d \in Collectors : collecting[d].object = o THEN Fault ELSE UNCHANGED faults
    /\ ledger' = [ledger EXCEPT ![o].status = "DELETING", ![o].by = c]
    /\ collecting' = [collecting EXCEPT ![c] = [object |-> o, step |-> "delete"]]
    /\ UNCHANGED <<import, quota, stored, jobs, uploader, job>>

DeleteObject(c) ==
    /\ collecting[c].step = "delete"
    /\ stored' = stored \ {collecting[c].object}
    /\ collecting' = [collecting EXCEPT ![c].step = "deleted"]
    /\ UNCHANGED <<import, quota, ledger, jobs, uploader, job, faults>>

\* Mutant: the outcome is recorded whoever has the claim by now.
HasClaimAnyway(c) == ledger[collecting[c].object].status \in {"DELETING", "DELETED"}

HasClaim(c) ==
    LET row == ledger[collecting[c].object] IN row.status = "DELETING" /\ row.by = c

\* The outcome is recorded, if the claim is still c's.
Record(c, status) ==
    /\ ledger' = IF ~HasClaim(c) THEN ledger
                 ELSE [ledger EXCEPT ![collecting[c].object].status = status,
                                     ![collecting[c].object].by = None]
    /\ collecting' = [collecting EXCEPT ![c] = Idle]
    /\ UNCHANGED <<import, quota, stored, jobs, uploader, job>>

RecordDeletion(c) == collecting[c].step = "deleted" /\ Record(c, "DELETED") /\ UNCHANGED faults

\* The store or the database throws.
FailDelete(c) == collecting[c].step # "idle" /\ Record(c, "FAILED") /\ Fault

CrashCollector(c) ==
    /\ Fault
    /\ collecting[c] # Idle
    /\ collecting' = [collecting EXCEPT ![c] = Idle]
    /\ UNCHANGED <<import, quota, ledger, stored, jobs, uploader, job>>

-----------------------------------------------------------------------------
(* Time.                                                                   *)

\* retainUntil has passed; nobody reads that of an adopted staging object.
RetentionEnds(o) ==
    /\ Fault
    /\ ledger[o] # NoRow /\ Retained(o) /\ ~ledger[o].due
    /\ o = Staging => ledger[o].class = "pending"
    /\ ledger' = [ledger EXCEPT ![o].due = TRUE]
    /\ UNCHANGED <<import, quota, stored, jobs, uploader, job, collecting>>

-----------------------------------------------------------------------------
Upload ==
    \/ ClaimUpload \/ UploadTooLate \/ ReserveStaging \/ PutStaging \/ AdoptStaging
    \/ LoseUpload \/ FailUpload \/ RejectUpload \/ CleanupUpload \/ CrashUpload

Work(w) ==
    \/ FindExpired(w) \/ DropExpired(w) \/ Scan(w) \/ ReserveRaw(w) \/ PutRaw(w)
    \/ Promote(w) \/ ReserveOutput(w) \/ PutOutput(w) \/ Persist(w) \/ Throw(w)
    \/ FailImport(w) \/ FindCurrent(w) \/ DropCurrent(w) \/ CrashWorker(w)

Collect(c) ==
    \/ \E o \in Objects : ClaimObject(c, o)
    \/ DeleteObject(c) \/ RecordDeletion(c)

Next ==
    \/ Upload \/ Finalize \/ Retry \/ Cancel
    \/ \E w \in Workers : Work(w) \/ \E g \in Generations : Begin(w, g) \/ FailUnstarted(w, g)
    \/ ExpireAbandoned
    \/ \E c \in Collectors : Collect(c) \/ FailDelete(c) \/ CrashCollector(c)
    \/ \E o \in Objects : RetentionEnds(o)

\* The sweeper runs at an interval.
Fairness == \A c \in Collectors : WF_vars(Collect(c))

Spec == Init /\ [][Next]_vars /\ Fairness

-----------------------------------------------------------------------------
(* Properties.                                                             *)

ImportTypeOK ==
    /\ import \in [state : Cancellable \cup Terminal, generation : 1..(MaxGeneration + 1),
                   staging : BOOLEAN, artifact : BOOLEAN, parsed : 0..MaxGeneration]
    /\ quota \in {"RESERVED", "RELEASED", "CONSUMED"}
    /\ ledger \in [Objects -> {NoRow} \cup
         [class : {"pending", "final"}, scope : 0..MaxGeneration,
          status : {"RETAINED", "TOMBSTONED", "DELETING", "FAILED", "DELETED"},
          due : BOOLEAN, by : Collectors \cup {None}]]
    /\ stored \subseteq {o \in Objects : ledger[o] # NoRow}
    /\ jobs \subseteq Generations
    /\ faults \in 0..MaxFaults
    /\ uploader \in {"none", "reserve", "put", "adopt", "abort", "reject", "cleanup", "done"}
    /\ \A w \in Workers :
         job[w] = NoJob \/ (job[w].gen \in Generations /\ job[w].found \subseteq Objects)
    /\ \A c \in Collectors : collecting[c] = Idle \/ collecting[c].object \in Objects

\* An import holds its quota until it ends or is parsed, and only parsed
\* imports consume it, whichever of the API, the workers and the sweeper
\* ends it (docs: "Failed/cancelled/expired imports release quotas").
QuotaFollowsImport ==
    /\ import.state \in Terminal => ~import.staging /\ quota # "RESERVED"
    /\ quota = "RESERVED" <=> import.state \in Uploads \cup Active
    /\ quota = "CONSUMED" <=> import.parsed # 0

\* The rows are well typed and the quota follows the import.
ImportInvariant == ImportTypeOK /\ QuotaFollowsImport

\* What the import refers to is there: the staging object as long as the
\* import points at it, the artifact and the output until their retention has
\* ended (NOT EXISTS in claimExpiredObjects, the adoptions in the
\* transactions that write the references).
ReferencedIsStored ==
    \A o \in Objects : Referenced(o) =>
        /\ ledger[o].class = "final"
        /\ (o # Staging /\ ledger[o].due) \/ (o \in stored /\ Retained(o))

\* An import that has ended is not touched by late uploads, late workers,
\* redelivered jobs or their failures, and the output it refers to is that of
\* its own generation (docs: "late work cannot commit").
EndedIsFinal ==
    [][/\ import.state \in Terminal => import' = import
       /\ import'.parsed \notin {0, import.parsed} => import'.parsed = import.generation]_vars

\* A row moves through its deletion in one direction and DELETED is the end
\* of it, although several processes claim the same deletion one after the
\* other (the claim token in lastErrorCode).
DeletionIsOneWay ==
    [][\A o \in Objects :
         /\ ledger[o].status = "DELETED" => ledger'[o] = ledger[o]
         /\ ~Retained(o) /\ ledger[o] # NoRow => ~Retained(o)'
         /\ o \in stored /\ o \notin stored' => ~Retained(o)]_vars

\* Deletions do not pile up: again and again there is no row whose deletion
\* was decided and not done, through failures and deaths in any of its steps.
DeletionsAreDone ==
    []<>(\A o \in Objects : ledger[o].status \notin {"TOMBSTONED", "DELETING", "FAILED"})

-----------------------------------------------------------------------------
(* What the repository says of the import and the code does not do.        *)

\* "Retry resumes from the last verified immutable stage"
\* (docs/BUSINESS_DATA_FILE_IMPORT_DESIGN.md): an import that can be retried has not
\* lost the row of its raw artifact, which no retry could reserve again.
RetryableCanGoOn ==
    import.state = "FAILED_RETRYABLE" => ledger[Raw] = NoRow \/ Retained(Raw)
=============================================================================
