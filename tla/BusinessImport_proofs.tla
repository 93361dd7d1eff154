------------------------ MODULE BusinessImport_proofs ------------------------
(***************************************************************************)
(* Proofs about BusinessImport, for any number of workers, collectors,     *)
(* generations and faults.                                                 *)
(***************************************************************************)
EXTENDS BusinessImport, TLAPS

\* The ledger row of an object that has one, and what a worker and a
\* collector remember.
Row == [class : {"pending", "final"}, scope : 0..MaxGeneration,
        status : {"RETAINED", "TOMBSTONED", "DELETING", "FAILED", "DELETED"},
        due : BOOLEAN, by : Collectors \cup {None}]
JobStep == {"idle", "findExpired", "dropExpired", "scan", "reserveRaw", "putRaw", "promote",
            "reserveOutput", "putOutput", "persist", "failRetryable", "failTerminal",
            "findCurrent", "dropCurrent"}
Job == [at : JobStep, gen : 0..MaxGeneration, found : SUBSET Objects]
Collection == [object : Objects \cup {None}, step : {"idle", "delete", "deleted"}]

\* The types, in parts, with those of the local records in full.
ImportRowOK ==
    /\ import \in [state : Cancellable \cup Terminal, generation : 1..(MaxGeneration + 1),
                   staging : BOOLEAN, artifact : BOOLEAN, parsed : 0..MaxGeneration]
    /\ quota \in {"RESERVED", "RELEASED", "CONSUMED"}
    /\ jobs \subseteq Generations
LedgerOK == ledger \in [Objects -> {NoRow} \cup Row]
StoredOK == stored \subseteq {o \in Objects : ledger[o] # NoRow}
UploaderOK ==
    /\ uploader \in {"none", "reserve", "put", "adopt", "abort", "reject", "cleanup", "done"}
    /\ faults \in 0..MaxFaults
JobOK ==
    /\ job \in [Workers -> Job]
    /\ \A w \in Workers : IF job[w].at = "idle" THEN job[w] = NoJob ELSE job[w].gen \in Generations
CollectingOK ==
    /\ collecting \in [Collectors -> Collection]
    /\ \A c \in Collectors : IF collecting[c].step = "idle" THEN collecting[c] = Idle
                             ELSE collecting[c].object \in Objects

\* Until its upload is adopted an import has no staging object, and only a
\* cancellation moves it past the last generation.
StateFits ==
    /\ import.state \in {"CREATED", "UPLOADING"} => ~import.staging
    /\ import.state # "CANCELLED" => import.generation <= MaxGeneration

\* The object o is reserved; it is stored, unless its row has left RETAINED.
IsReserved(o) == ledger[o] # NoRow
IsKept(o) == ledger[o] # NoRow /\ (Retained(o) => o \in stored)

\* An object is put under a row that exists, and adopted only when it was put:
\* the upload and the workers have not lost what they are about to refer to
\* without its row telling them.
PutUnderARow ==
    /\ uploader = "put" => IsReserved(Staging)
    /\ uploader = "adopt" => IsKept(Staging)
    /\ \A w \in Workers :
         /\ job[w].at = "putRaw" => IsReserved(Raw)
         /\ job[w].at = "promote" => IsKept(Raw)
         /\ job[w].at = "putOutput" => IsReserved(Output(job[w].gen))
         /\ job[w].at = "persist" => IsKept(Output(job[w].gen))

\* An object is claimed for deletion after its row has left RETAINED.
ClaimedIsGivenUp ==
    \A c \in Collectors : collecting[c].step # "idle" =>
        ledger[collecting[c].object] # NoRow /\ ~Retained(collecting[c].object)

\* An adopted object is stored as long as it is retained, and that of an
\* artifact or an output until its retention has ended.
AdoptedIsKept ==
    \A o \in Objects : ledger[o].class = "final" =>
        /\ Retained(o) => o \in stored
        /\ o # Staging => Retained(o) \/ ledger[o].due

\* The import refers to adopted objects, and to a retained one if it is the
\* staging object.
RefersToAdopted ==
    /\ import.staging => ledger[Staging].class = "final" /\ Retained(Staging)
    /\ import.artifact => ledger[Raw].class = "final"
    /\ import.parsed # 0 => ledger[Output(import.parsed)].class = "final"

\* The inductive invariant.
ImportInv ==
    /\ ImportRowOK /\ LedgerOK /\ StoredOK /\ UploaderOK /\ JobOK /\ CollectingOK
    /\ QuotaFollowsImport
    /\ StateFits
    /\ PutUnderARow
    /\ ClaimedIsGivenUp
    /\ AdoptedIsKept
    /\ RefersToAdopted

-----------------------------------------------------------------------------
(* Objects and rows.                                                       *)

\* The keys of the objects are different.
LEMMA ObjectKeys ==
    /\ Staging \in Objects /\ Raw \in Objects /\ Staging # Raw
    /\ \A g \in Generations : /\ Output(g) \in Objects /\ Output(g) # Staging /\ Output(g) # Raw
                              /\ \A h \in Generations : Output(g) = Output(h) => g = h
  BY DEF Objects, Staging, Raw, Output

\* What is known of a row that is not NoRow.
LEMMA RowFields ==
  ASSUME LedgerOK, NEW o \in Objects
  PROVE  /\ ledger[o] # NoRow => ledger[o] \in Row
         /\ ledger[o] = NoRow => ledger[o].class = "none" /\ ~Retained(o)
                                 /\ ledger[o].status = "NONE"
  BY DEF LedgerOK, NoRow, Retained

\* The rows that the code writes are rows.
LEMMA NewRows ==
    /\ Adopted \in Row /\ Adopted # NoRow
    /\ Adopted.class = "final" /\ Adopted.status = "RETAINED" /\ Adopted.due = FALSE
    /\ \A g \in 0..MaxGeneration : /\ Pending(g) \in Row /\ Pending(g) # NoRow
                                   /\ Pending(g).class = "pending" /\ Pending(g).scope = g
                                   /\ Pending(g).status = "RETAINED"
    /\ \A r \in Row : r # NoRow
  BY BoundAssumption DEF Adopted, Pending, Row, NoRow

\* A row's changes, each with what it needs: the row is reserved, adopted,
\* tombstoned, due, claimed for deletion, or its deletion is recorded.
RowMoves(o) ==
    \/ ledger'[o] = ledger[o]
    \/ /\ ledger[o] = NoRow \/ (ledger[o].class = "pending" /\ Retained(o))
       /\ \E g \in 0..MaxGeneration : ledger'[o] = Pending(g)
    \/ /\ ledger[o].class = "pending" /\ Retained(o) /\ o \in stored
       /\ ledger'[o] = Adopted
    \/ /\ Retained(o) /\ (ledger[o].class = "pending" \/ (o = Staging /\ ~import'.staging))
       /\ ledger'[o] = [ledger[o] EXCEPT !.status = "TOMBSTONED"]
    \/ /\ Retained(o)
       /\ ledger'[o] = [ledger[o] EXCEPT !.due = TRUE]
    \/ /\ ledger[o] # NoRow /\ ledger[o].status # "DELETED" /\ Collectable(o) /\ UNCHANGED import
       /\ \E c \in Collectors : ledger'[o] = [ledger[o] EXCEPT !.status = "DELETING", !.by = c]
    \/ /\ ledger[o].status = "DELETING"
       /\ \E s \in {"FAILED", "DELETED"} :
             ledger'[o] = [ledger[o] EXCEPT !.status = s, !.by = None]

\* The ledger stays a ledger and every row moves as it may.
LedgerMoves ==
    /\ ledger' = [o \in Objects |-> ledger'[o]]
    /\ \A o \in Objects : RowMoves(o)

\* One row is written, the others stay.
LEMMA OneRowMoves ==
  ASSUME LedgerOK, NEW o \in Objects, NEW row, ledger' = [ledger EXCEPT ![o] = row], RowMoves(o)
  PROVE  LedgerMoves
  <1>1. \A p \in Objects : p # o => ledger'[p] = ledger[p]
    BY DEF LedgerOK
  <1>2. \A p \in Objects : RowMoves(p)
    BY <1>1, ZenonT(60) DEF RowMoves
  <1> QED
    BY <1>2 DEF LedgerMoves, LedgerOK

\* No row is written.
LEMMA SameRowsMove ==
  ASSUME LedgerOK, UNCHANGED ledger
  PROVE  LedgerMoves
  BY DEF LedgerOK, LedgerMoves, RowMoves

\* Rows are tombstoned that are pending, or that of a staging object which the
\* import lets go of.
LEMMA TombstoneMoves ==
  ASSUME LedgerOK, NEW os,
         \A o \in os : ledger[o].class = "pending" \/ (o = Staging /\ ~import'.staging),
         ledger' = Tombstone(os)
  PROVE  LedgerMoves
  <1>1. ASSUME NEW o \in Objects PROVE RowMoves(o)
    BY DEF Tombstone, RowMoves
  <1> QED
    BY <1>1 DEF LedgerMoves, Tombstone

\* What a row's change means for it, whichever it was.
LEMMA RowFacts ==
  ASSUME LedgerOK, NEW o \in Objects, RowMoves(o)
  PROVE  /\ ledger'[o] \in {NoRow} \cup Row
         /\ ledger[o] # NoRow => ledger'[o] # NoRow /\ (Retained(o)' => Retained(o))
         /\ ledger[o].class = "final" => ledger'[o].class = "final"
         /\ ledger'[o].class = "final" =>
              \/ ledger[o].class = "final" /\ (ledger[o].due => ledger'[o].due)
                   /\ (o # Staging => ledger'[o].due \/ Retained(o)' \/ ~Retained(o))
              \/ ledger[o].class = "pending" /\ Retained(o) /\ Retained(o)' /\ o \in stored
         /\ ledger[o].status = "DELETED" => ledger'[o] = ledger[o]
         /\ ledger[o] # NoRow /\ ~Retained(o) => ~Retained(o)'
  <1>1. CASE ledger'[o] = ledger[o]
    BY <1>1 DEF LedgerOK, Retained
  <1>2. CASE /\ ledger[o] = NoRow \/ (ledger[o].class = "pending" /\ Retained(o))
             /\ \E g \in 0..MaxGeneration : ledger'[o] = Pending(g)
    BY <1>2, RowFields, NewRows DEF Retained
  <1>3. CASE ledger[o].class = "pending" /\ Retained(o) /\ o \in stored /\ ledger'[o] = Adopted
    BY <1>3, NewRows DEF Retained
  <1>4. CASE /\ Retained(o) /\ (ledger[o].class = "pending" \/ (o = Staging /\ ~import'.staging))
             /\ ledger'[o] = [ledger[o] EXCEPT !.status = "TOMBSTONED"]
    <2>1. ledger[o] \in Row
      BY <1>4, RowFields
    <2>2. /\ ledger'[o] \in Row /\ ledger'[o].status = "TOMBSTONED"
          /\ ledger'[o].class = ledger[o].class /\ ledger'[o].due = ledger[o].due
      BY <1>4, <2>1 DEF Row
    <2> QED
      BY <1>4, <2>2, NewRows DEF Retained
  <1>5. CASE Retained(o) /\ ledger'[o] = [ledger[o] EXCEPT !.due = TRUE]
    <2>1. ledger[o] \in Row
      BY <1>5, RowFields
    <2>2. /\ ledger'[o] \in Row /\ ledger'[o].status = ledger[o].status
          /\ ledger'[o].class = ledger[o].class /\ ledger'[o].due
      BY <1>5, <2>1 DEF Row
    <2> QED
      BY <1>5, <2>2, NewRows DEF Retained
  <1>6. CASE /\ ledger[o] # NoRow /\ ledger[o].status # "DELETED" /\ Collectable(o)
             /\ \E c \in Collectors : ledger'[o] = [ledger[o] EXCEPT !.status = "DELETING", !.by = c]
    <2>1. ledger[o] \in Row
      BY <1>6, RowFields
    <2>2. /\ ledger'[o] \in Row /\ ledger'[o].status = "DELETING"
          /\ ledger'[o].class = ledger[o].class /\ ledger'[o].due = ledger[o].due
      BY <1>6, <2>1 DEF Row
    <2> QED
      BY <1>6, <2>2, NewRows DEF Retained, Collectable
  <1>7. CASE /\ ledger[o].status = "DELETING"
             /\ \E s \in {"FAILED", "DELETED"} :
                   ledger'[o] = [ledger[o] EXCEPT !.status = s, !.by = None]
    <2>1. ledger[o] \in Row
      BY <1>7, RowFields
    <2>2. /\ ledger'[o] \in Row /\ ledger'[o].status \in {"FAILED", "DELETED"}
          /\ ledger'[o].class = ledger[o].class /\ ledger'[o].due = ledger[o].due
      BY <1>7, <2>1 DEF Row
    <2> QED
      BY <1>7, <2>2, NewRows DEF Retained
  <1> QED
    BY <1>1, <1>2, <1>3, <1>4, <1>5, <1>6, <1>7 DEF RowMoves

\* Every step moves the rows of the ledger as they may.
LEMMA StepMovesLedger ==
  ASSUME ImportInv, [Next]_vars
  PROVE  LedgerMoves
  <1> USE ObjectKeys DEF ImportInv
  <1>1. LedgerOK
    OBVIOUS
  <1>2. UNCHANGED ledger => LedgerMoves
    BY SameRowsMove
  <1>3. \A w \in Workers : job[w].at # "idle" =>
          job[w].gen \in Generations /\ job[w].gen \in 0..MaxGeneration
    BY DEF JobOK, Generations
  <1>4. ASSUME NEW s, End(s) PROVE LedgerMoves
    <2>1. ~import'.staging
      BY <1>4 DEF End, ImportRowOK
    <2>2. CASE import.staging
      BY <1>4, <2>1, <2>2, TombstoneMoves DEF End, FinalStaging
    <2>3. CASE ~import.staging
      BY <1>2, <1>4, <2>3 DEF End
    <2> QED
      BY <2>2, <2>3
  <1>5. CASE Upload
    <2>1. CASE ReserveStaging
      <3>1. ledger[Staging] = NoRow /\ ledger' = [ledger EXCEPT ![Staging] = Pending(UploadScope)]
        BY <2>1 DEF ReserveStaging
      <3>2. RowMoves(Staging)
        BY <3>1, BoundAssumption DEF RowMoves, LedgerOK, UploadScope
      <3> QED
        BY <3>1, <3>2, OneRowMoves
    <2>2. CASE AdoptStaging
      <3>1. /\ ledger[Staging].class = "pending" /\ Retained(Staging) /\ Staging \in stored
            /\ ledger' = [ledger EXCEPT ![Staging] = Adopted]
        BY <2>2 DEF AdoptStaging, IsPending, PutUnderARow, IsKept
      <3>2. RowMoves(Staging)
        BY <3>1 DEF RowMoves, LedgerOK
      <3> QED
        BY <3>1, <3>2, OneRowMoves
    <2>3. CASE CleanupUpload
      <3>1. CASE IsPending(Staging, UploadScope)
        BY <2>3, <3>1, TombstoneMoves DEF CleanupUpload, IsPending
      <3>2. CASE ~IsPending(Staging, UploadScope)
        BY <1>2, <2>3, <3>2 DEF CleanupUpload
      <3> QED
        BY <3>1, <3>2
    <2>4. CASE UploadTooLate
      BY <1>4, <2>4 DEF UploadTooLate
    <2> QED
      BY <1>2, <1>5, <2>1, <2>2, <2>3, <2>4 DEF Upload, ClaimUpload, PutStaging, LoseUpload,
         FailUpload, RejectUpload, CrashUpload
  <1>6. CASE Finalize \/ Retry \/ Cancel \/ ExpireAbandoned
    <2>1. CASE Cancel
      <3>1. ~import'.staging
        BY <2>1 DEF Cancel, ImportRowOK
      <3>2. CASE import.staging
        BY <2>1, <3>1, <3>2, TombstoneMoves DEF Cancel, FinalStaging
      <3>3. CASE ~import.staging
        BY <1>2, <2>1, <3>3 DEF Cancel
      <3> QED
        BY <3>2, <3>3
    <2>2. CASE ExpireAbandoned
      BY <1>4, <2>2 DEF ExpireAbandoned
    <2> QED
      BY <1>2, <1>6, <2>1, <2>2 DEF Finalize, Retry
  <1>7. ASSUME NEW w \in Workers, NEW o \in Objects, NEW next, job[w].at # "idle", Reserve(w, o, next)
        PROVE  LedgerMoves
    <2>1. CASE UNCHANGED ledger
      BY <1>2, <2>1
    <2>2. CASE /\ ledger[o] = NoRow \/ (ledger[o].class = "pending" /\ Retained(o))
               /\ ledger' = [ledger EXCEPT ![o] = Pending(job[w].gen)]
      <3>1. RowMoves(o)
        BY <1>3, <1>7, <2>2 DEF RowMoves, LedgerOK
      <3> QED
        BY <2>2, <3>1, OneRowMoves
    <2> QED
      BY <1>7, <2>1, <2>2 DEF Reserve
  <1>8. ASSUME NEW w \in Workers, Work(w) PROVE LedgerMoves
    <2>1. CASE DropExpired(w) \/ DropCurrent(w)
      BY <2>1, TombstoneMoves DEF DropExpired, DropCurrent, MayTombstone
    <2>2. CASE ReserveRaw(w)
      BY <1>7, <2>2 DEF ReserveRaw
    <2>3. CASE ReserveOutput(w)
      BY <1>3, <1>7, <2>3 DEF ReserveOutput
    <2>4. CASE Promote(w)
      <3>1. CASE UNCHANGED ledger
        BY <1>2, <3>1
      <3>2. CASE ledger' # ledger
        <4>1. /\ ledger[Raw].class = "pending" /\ Retained(Raw) /\ Raw \in stored
              /\ ledger' = [ledger EXCEPT ![Raw] = Adopted]
          BY <2>4, <3>2 DEF Promote, IsPending, PutUnderARow, IsKept
        <4>2. RowMoves(Raw)
          BY <4>1 DEF RowMoves, LedgerOK
        <4> QED
          BY <4>1, <4>2, OneRowMoves
      <3> QED
        BY <3>1, <3>2
    <2>5. CASE Persist(w)
      <3>1. CASE UNCHANGED ledger
        BY <1>2, <3>1
      <3>2. CASE ledger' # ledger
        <4> DEFINE o == Output(job[w].gen)
        <4>1. o \in Objects /\ o # Staging
          BY <1>3, <2>5 DEF Persist
        <4>2. /\ ledger[o].class = "pending" /\ Retained(o) /\ o \in stored
              /\ ledger' = [Tombstone({Staging}) EXCEPT ![o] = Adopted]
              /\ import' = [import EXCEPT !.state = "READY_FOR_REVIEW", !.staging = FALSE,
                                          !.parsed = job[w].gen]
          BY <2>5, <3>2 DEF Persist, IsPending, PutUnderARow, IsKept
        <4> HIDE DEF o
        <4>3. ~import'.staging
          BY <4>2 DEF ImportRowOK
        <4>4. /\ ledger' = [p \in Objects |-> ledger'[p]]
              /\ ledger'[o] = Adopted
              /\ \A p \in Objects : p # o => ledger'[p] = Tombstone({Staging})[p]
          BY <4>1, <4>2 DEF Tombstone
        <4>5. ASSUME NEW p \in Objects, p # o PROVE RowMoves(p)
          BY <4>3, <4>4, <4>5 DEF RowMoves, Tombstone
        <4>6. RowMoves(o)
          BY <4>2, <4>4 DEF RowMoves
        <4> QED
          BY <4>4, <4>5, <4>6 DEF LedgerMoves
      <3> QED
        BY <3>1, <3>2
    <2>6. CASE FailImport(w)
      BY <1>2, <1>4, <2>6 DEF FailImport
    <2> QED
      BY <1>2, <1>8, <2>1, <2>2, <2>3, <2>4, <2>5, <2>6 DEF Work, FindExpired, Scan, PutRaw, PutOutput,
         Put, Throw, FindCurrent, CrashWorker
  <1>9. ASSUME NEW w \in Workers, NEW g \in Generations, Begin(w, g) \/ FailUnstarted(w, g)
        PROVE  LedgerMoves
    BY <1>2, <1>4, <1>9 DEF Begin, FailUnstarted
  <1>10. ASSUME NEW c \in Collectors, NEW o \in Objects, ClaimObject(c, o) PROVE LedgerMoves
    <2>1. /\ ledger[o] # NoRow /\ ledger[o].status # "DELETED" /\ Collectable(o) /\ UNCHANGED import
          /\ ledger' = [ledger EXCEPT ![o] = [ledger[o] EXCEPT !.status = "DELETING", !.by = c]]
      BY <1>10 DEF ClaimObject, LedgerOK
    <2>2. RowMoves(o)
      BY <2>1 DEF RowMoves, LedgerOK
    <2> QED
      BY <2>1, <2>2, OneRowMoves
  <1>11. ASSUME NEW c \in Collectors, RecordDeletion(c) \/ FailDelete(c) PROVE LedgerMoves
    <2>1. CASE ~HasClaim(c)
      BY <1>2, <1>11, <2>1 DEF RecordDeletion, FailDelete, Record
    <2>2. CASE HasClaim(c)
      <3>1. PICK o \in Objects : o = collecting[c].object
        BY <1>11 DEF RecordDeletion, FailDelete, CollectingOK
      <3>2. /\ ledger[o].status = "DELETING"
            /\ \E s \in {"FAILED", "DELETED"} :
                 ledger' = [ledger EXCEPT ![o] = [ledger[o] EXCEPT !.status = s, !.by = None]]
        BY <1>11, <2>2, <3>1 DEF RecordDeletion, FailDelete, Record, HasClaim, LedgerOK
      <3>3. RowMoves(o)
        BY <3>2 DEF RowMoves, LedgerOK
      <3> QED
        BY <3>2, <3>3, OneRowMoves
    <2> QED
      BY <2>1, <2>2
  <1>12. ASSUME NEW o \in Objects, RetentionEnds(o) PROVE LedgerMoves
    <2>1. Retained(o) /\ ledger' = [ledger EXCEPT ![o] = [ledger[o] EXCEPT !.due = TRUE]]
      BY <1>12 DEF RetentionEnds, LedgerOK
    <2>2. RowMoves(o)
      BY <2>1 DEF RowMoves, LedgerOK
    <2> QED
      BY <2>1, <2>2, OneRowMoves
  <1>13. ASSUME NEW c \in Collectors, DeleteObject(c) \/ CrashCollector(c) PROVE LedgerMoves
    BY <1>2, <1>13 DEF DeleteObject, CrashCollector
  <1>14. CASE UNCHANGED vars
    BY <1>2, <1>14 DEF vars
  <1> QED
    BY <1>5, <1>6, <1>8, <1>9, <1>10, <1>11, <1>12, <1>13, <1>14 DEF Next, Collect

\* The store's changes: an object is put under its row, or one is deleted whose
\* row has left RETAINED.
StoreMoves ==
    \/ stored' = stored
    \/ \E o \in Objects : /\ ledger[o] # NoRow /\ stored' = stored \cup {o}
                          /\ UNCHANGED ledger
    \/ \E o \in Objects : /\ ledger[o] # NoRow /\ ~Retained(o) /\ stored' = stored \ {o}
                          /\ UNCHANGED ledger

\* Every step moves the store as it may.
LEMMA StepMovesStore ==
  ASSUME ImportInv, [Next]_vars
  PROVE  StoreMoves
  <1> USE ObjectKeys DEF ImportInv
  <1>1. CASE PutStaging
    BY <1>1 DEF PutStaging, StoreMoves, PutUnderARow, IsReserved
  <1>2. ASSUME NEW w \in Workers, PutRaw(w) PROVE StoreMoves
    BY <1>2 DEF PutRaw, Put, StoreMoves, PutUnderARow, IsReserved
  <1>3. ASSUME NEW w \in Workers, PutOutput(w) PROVE StoreMoves
    <2>1. job[w].gen \in Generations
      BY <1>3 DEF PutOutput, JobOK
    <2>2. Output(job[w].gen) \in Objects
      BY <2>1
    <2> QED
      BY <1>3, <2>2 DEF PutOutput, Put, StoreMoves, PutUnderARow, IsReserved
  <1>4. ASSUME NEW c \in Collectors, DeleteObject(c) PROVE StoreMoves
    BY <1>4 DEF DeleteObject, StoreMoves, ClaimedIsGivenUp, CollectingOK
  <1>5. CASE UNCHANGED stored
    BY <1>5 DEF StoreMoves
  <1> QED
    BY <1>1, <1>2, <1>3, <1>4, <1>5, ZenonT(60) DEF Next, Upload, Work, Collect, vars, ClaimUpload, UploadTooLate,
       ReserveStaging, AdoptStaging, LoseUpload, FailUpload, RejectUpload, CleanupUpload, CrashUpload,
       Finalize, Retry, Cancel, Begin, FailUnstarted, FindExpired, DropExpired, Scan, Reserve,
       ReserveRaw, ReserveOutput, Promote, Persist, Throw, FailImport, FindCurrent, DropCurrent,
       CrashWorker, ExpireAbandoned, ClaimObject, Record, RecordDeletion, FailDelete, CrashCollector,
       RetentionEnds

\* IsReserved, IsKept and Retained after the step, of an object named before it.
ReservedNext(o) == ledger'[o] # NoRow
RetainedNext(o) == ledger'[o].status = "RETAINED"
KeptNext(o) == ReservedNext(o) /\ (RetainedNext(o) => o \in stored')

\* What no step takes back: a row stays, a stored object stays while its row is
\* retained, an adopted row stays adopted, a row never returns to RETAINED; and
\* what adopted objects may rely on.
LEMMA LedgerKeeps ==
  ASSUME ImportInv, [Next]_vars
  PROVE  /\ LedgerOK' /\ StoredOK' /\ AdoptedIsKept'
         /\ \A o \in Objects :
              /\ IsReserved(o) => ReservedNext(o)
              /\ IsKept(o) => KeptNext(o)
              /\ ledger[o].class = "final" => ledger'[o].class = "final"
              /\ IsReserved(o) /\ ~Retained(o) => ~RetainedNext(o)
  <1> USE DEF ImportInv
  <1>1. LedgerMoves /\ StoreMoves
    BY StepMovesLedger, StepMovesStore
  <1>2. \A o \in Objects :
          /\ ledger'[o] \in {NoRow} \cup Row
          /\ ledger[o] # NoRow => ledger'[o] # NoRow /\ (RetainedNext(o) => Retained(o))
          /\ ledger[o].class = "final" => ledger'[o].class = "final"
          /\ ledger'[o].class = "final" =>
               \/ ledger[o].class = "final" /\ (ledger[o].due => ledger'[o].due)
                    /\ (o # Staging => ledger'[o].due \/ RetainedNext(o) \/ ~Retained(o))
               \/ ledger[o].class = "pending" /\ Retained(o) /\ RetainedNext(o) /\ o \in stored
    BY <1>1, RowFacts DEF LedgerMoves, Retained, RetainedNext
  <1>3. LedgerOK'
    BY <1>1, <1>2 DEF LedgerMoves, LedgerOK
  <1>4. StoredOK'
    BY <1>1, <1>2 DEF StoreMoves, StoredOK
  <1>5. \A o \in Objects : o \in stored /\ ledger[o] # NoRow /\ RetainedNext(o) => o \in stored'
    BY <1>1, <1>2 DEF StoreMoves, Retained, RetainedNext
  <1>6. \A o \in Objects : ledger[o].class \in {"pending", "final"} => ledger[o] # NoRow
    BY RowFields
  <1>7. AdoptedIsKept'
    <2>1. ASSUME NEW o \in Objects, ledger'[o].class = "final"
          PROVE  /\ RetainedNext(o) => o \in stored'
                 /\ o # Staging => RetainedNext(o) \/ ledger'[o].due
      BY <2>1, <1>2, <1>5, <1>6 DEF AdoptedIsKept
    <2> QED
      BY <2>1 DEF AdoptedIsKept, RetainedNext, Retained
  <1>8. \A o \in Objects : IsKept(o) => KeptNext(o)
    BY <1>2, <1>5 DEF IsKept, KeptNext, ReservedNext
  <1> QED
    BY <1>2, <1>3, <1>4, <1>7, <1>8 DEF IsReserved, ReservedNext

-----------------------------------------------------------------------------
(* The workers.                                                            *)

\* A job record that may follow: well formed, and with what its step relies on.
JobNext(j) ==
    /\ j \in Job
    /\ IF j.at = "idle" THEN j = NoJob ELSE j.gen \in Generations
    /\ j.at = "putRaw" => ReservedNext(Raw)
    /\ j.at = "promote" => KeptNext(Raw)
    /\ j.at = "putOutput" => ReservedNext(Output(j.gen))
    /\ j.at = "persist" => KeptNext(Output(j.gen))

\* What the workers' part of the invariant says of the next state.
JobsNext == /\ job' = [w \in Workers |-> job'[w]]
            /\ \A w \in Workers : JobNext(job'[w])

\* A job that stays as it is may follow itself.
LEMMA SameJob ==
  ASSUME ImportInv, [Next]_vars, NEW w \in Workers
  PROVE  JobNext(job[w])
  <1>1. job[w] \in Job /\ IF job[w].at = "idle" THEN job[w] = NoJob ELSE job[w].gen \in Generations
    BY DEF ImportInv, JobOK
  <1>2. job[w].at # "idle" => Output(job[w].gen) \in Objects /\ Raw \in Objects
    BY <1>1, ObjectKeys
  <1> QED
    BY <1>1, <1>2, LedgerKeeps DEF ImportInv, PutUnderARow, JobNext

\* One job moves.
LEMMA OneJobMoves ==
  ASSUME ImportInv, [Next]_vars, NEW w \in Workers, NEW j, JobNext(j),
         job' = [job EXCEPT ![w] = j]
  PROVE  JobsNext
  <1>1. job \in [Workers -> Job]
    BY DEF ImportInv, JobOK
  <1>2. ASSUME NEW v \in Workers PROVE JobNext(job'[v])
    BY <1>1, SameJob
  <1> QED
    BY <1>1, <1>2 DEF JobsNext

\* No job moves.
LEMMA SameJobs ==
  ASSUME ImportInv, [Next]_vars, UNCHANGED job
  PROVE  JobsNext
  <1>1. job \in [Workers -> Job]
    BY DEF ImportInv, JobOK
  <1> QED
    BY <1>1, SameJob DEF JobsNext

\* A job ends.
LEMMA JobReturns ==
  ASSUME ImportInv, [Next]_vars, NEW w \in Workers, Return(w)
  PROVE  JobsNext
  <1>1. JobNext(NoJob)
    BY BoundAssumption DEF JobNext, NoJob, Job, JobStep
  <1> QED
    BY <1>1, OneJobMoves DEF Return

\* A job goes on to step s.
LEMMA JobGoesOn ==
  ASSUME ImportInv, [Next]_vars, NEW w \in Workers, job[w].at # "idle",
         NEW s \in JobStep \ {"idle"}, NEW f \in SUBSET Objects,
         job' = [job EXCEPT ![w] = [job[w] EXCEPT !.at = s, !.found = f]],
         s = "putRaw" => ReservedNext(Raw),
         s = "promote" => KeptNext(Raw),
         s = "putOutput" => ReservedNext(Output(job[w].gen)),
         s = "persist" => KeptNext(Output(job[w].gen))
  PROVE  JobsNext
  <1> DEFINE j == [job[w] EXCEPT !.at = s, !.found = f]
  <1>1. job[w] \in Job /\ job[w].gen \in Generations
    BY DEF ImportInv, JobOK
  <1>2. j \in Job /\ j.at = s /\ j.gen = job[w].gen
    BY <1>1 DEF Job
  <1> HIDE DEF j
  <1>3. JobNext(j)
    BY <1>1, <1>2 DEF JobNext
  <1>4. job' = [job EXCEPT ![w] = j]
    BY DEF j
  <1> QED
    BY <1>3, <1>4, OneJobMoves

\* GoTo keeps what a cleanup found.
LEMMA GoToForm ==
  ASSUME ImportInv, NEW w \in Workers, NEW s, GoTo(w, s)
  PROVE  /\ job[w].found \in SUBSET Objects
         /\ job' = [job EXCEPT ![w] = [job[w] EXCEPT !.at = s, !.found = job[w].found]]
  <1>1. job \in [Workers -> Job]
    BY DEF ImportInv, JobOK
  <1>2. [job[w] EXCEPT !.at = s] = [job[w] EXCEPT !.at = s, !.found = job[w].found]
    BY <1>1 DEF Job
  <1>3. job' = [job EXCEPT ![w] = [job[w] EXCEPT !.at = s]]
    BY <1>1 DEF GoTo
  <1> QED
    BY <1>1, <1>2, <1>3 DEF Job

\* A job goes to step s and keeps what its cleanup found.
LEMMA JobGoes ==
  ASSUME ImportInv, [Next]_vars, NEW w \in Workers, job[w].at # "idle",
         NEW s \in JobStep \ {"idle"}, GoTo(w, s),
         s = "putRaw" => ReservedNext(Raw),
         s = "promote" => KeptNext(Raw),
         s = "putOutput" => ReservedNext(Output(job[w].gen)),
         s = "persist" => KeptNext(Output(job[w].gen))
  PROVE  JobsNext
  <1>1. PICK f \in SUBSET Objects :
          job' = [job EXCEPT ![w] = [job[w] EXCEPT !.at = s, !.found = f]]
    BY GoToForm
  <1> QED
    BY <1>1, JobGoesOn

\* Every step lets every job go on as it may.
LEMMA StepMovesJobs ==
  ASSUME ImportInv, [Next]_vars
  PROVE  JobsNext
  <1>1. UNCHANGED job => JobsNext
    BY SameJobs
  <1>2. \A w \in Workers : Return(w) => JobsNext
    BY JobReturns
  <1>3. ASSUME NEW w \in Workers, job[w].at # "idle", NEW s, GoTo(w, s),
               s \in JobStep \ {"idle", "putRaw", "promote", "putOutput", "persist"}
        PROVE  JobsNext
    BY <1>3, JobGoes
  <1>4. \A w \in Workers : job[w].at # "idle" => Output(job[w].gen) \in Objects
    BY ObjectKeys DEF ImportInv, JobOK
  <1>5. ASSUME NEW w \in Workers, Work(w) PROVE JobsNext
    <2>1. job[w].at # "idle"
      BY <1>5 DEF Work, FindExpired, DropExpired, Scan, ReserveRaw, PutRaw, Promote, ReserveOutput,
         PutOutput, Persist, Throw, FailImport, FindCurrent, DropCurrent, CrashWorker
    <2>2. {} \in SUBSET Objects
      OBVIOUS
    <2>3. CASE FindExpired(w)
      <3> DEFINE due == {o \in Objects : /\ ledger[o].class = "pending" /\ ledger[o].due
                                         /\ ledger[o].scope # job[w].gen}
      <3>1. CASE due = {}
        BY <1>3, <2>1, <2>3, <3>1 DEF FindExpired, JobStep
      <3>2. CASE due # {}
        <4>1. job' = [job EXCEPT ![w] = [job[w] EXCEPT !.at = "dropExpired", !.found = due]]
          BY <2>3, <3>2 DEF FindExpired, ImportInv, JobOK, Job
        <4>2. due \in SUBSET Objects /\ "dropExpired" \in JobStep \ {"idle"}
          BY DEF JobStep
        <4> HIDE DEF due
        <4> QED
          BY <2>1, <4>1, <4>2, JobGoesOn
      <3> QED
        BY <3>1, <3>2
    <2>4. CASE DropExpired(w)
      <3>1. job' = [job EXCEPT ![w] = [job[w] EXCEPT !.at = "scan", !.found = {}]]
        BY <2>4 DEF DropExpired, ImportInv, JobOK, Job
      <3>2. PICK f \in SUBSET Objects :
              job' = [job EXCEPT ![w] = [job[w] EXCEPT !.at = "scan", !.found = f]]
        BY <2>2, <3>1
      <3>3. PICK s \in JobStep \ {"idle"} : s = "scan"
        BY DEF JobStep
      <3> QED
        BY <2>1, <3>2, <3>3, JobGoesOn
    <2>5. CASE Scan(w)
      <3>1. PICK s \in {"reserveRaw", "failRetryable"} : GoTo(w, s)
        BY <2>5 DEF Scan
      <3> QED
        BY <1>3, <2>1, <3>1 DEF JobStep
    <2>6. ASSUME NEW o \in Objects, NEW next, Reserve(w, o, next)
          PROVE  GoTo(w, "failTerminal") \/ (GoTo(w, next) /\ ReservedNext(o))
      <3>1. ledger \in [Objects -> {NoRow} \cup Row] /\ job[w].gen \in 0..MaxGeneration
        BY <2>1 DEF ImportInv, LedgerOK, JobOK, Generations
      <3>2. CASE /\ ledger' = [ledger EXCEPT ![o] = Pending(job[w].gen)] /\ GoTo(w, next)
        BY <3>1, <3>2, NewRows DEF ReservedNext
      <3>3. CASE ledger[o].class = "final" /\ UNCHANGED ledger /\ GoTo(w, next)
        BY <3>3, RowFields DEF ReservedNext, ImportInv
      <3> QED
        BY <2>6, <3>2, <3>3 DEF Reserve
    <2>7. CASE ReserveRaw(w)
      <3>1. GoTo(w, "failTerminal") \/ (GoTo(w, "putRaw") /\ ReservedNext(Raw))
        BY <2>6, <2>7, ObjectKeys DEF ReserveRaw
      <3>2. CASE GoTo(w, "failTerminal")
        BY <1>3, <2>1, <3>2 DEF JobStep
      <3>3. CASE GoTo(w, "putRaw") /\ ReservedNext(Raw)
        BY <2>1, <3>3, JobGoes DEF JobStep
      <3> QED
        BY <3>1, <3>2, <3>3
    <2>8. CASE ReserveOutput(w)
      <3>1. GoTo(w, "failTerminal") \/ (GoTo(w, "putOutput") /\ ReservedNext(Output(job[w].gen)))
        BY <1>4, <2>1, <2>6, <2>8 DEF ReserveOutput
      <3>2. CASE GoTo(w, "failTerminal")
        BY <1>3, <2>1, <3>2 DEF JobStep
      <3>3. CASE GoTo(w, "putOutput") /\ ReservedNext(Output(job[w].gen))
        BY <2>1, <3>3, JobGoes DEF JobStep
      <3> QED
        BY <3>1, <3>2, <3>3
    <2>9. CASE PutRaw(w)
      <3>1. GoTo(w, "promote") /\ KeptNext(Raw)
        BY <2>9 DEF PutRaw, Put, ImportInv, PutUnderARow, IsReserved, KeptNext, ReservedNext
      <3> QED
        BY <2>1, <3>1, JobGoes DEF JobStep
    <2>10. CASE PutOutput(w)
      <3>1. GoTo(w, "persist") /\ KeptNext(Output(job[w].gen))
        BY <2>10 DEF PutOutput, Put, ImportInv, PutUnderARow, IsReserved, KeptNext, ReservedNext
      <3> QED
        BY <2>1, <3>1, JobGoes DEF JobStep
    <2>11. CASE Promote(w)
      <3>1. PICK s \in {"findCurrent", "failTerminal", "reserveOutput"} : GoTo(w, s)
        BY <2>11 DEF Promote
      <3> QED
        BY <1>3, <2>1, <3>1 DEF JobStep
    <2>12. CASE Persist(w)
      <3>1. Return(w) \/ \E s \in {"findCurrent", "failTerminal"} : GoTo(w, s)
        BY <2>12 DEF Persist
      <3> QED
        BY <1>2, <1>3, <2>1, <3>1 DEF JobStep
    <2>13. CASE Throw(w)
      <3>1. \E s \in {"failRetryable", "failTerminal"} : GoTo(w, s)
        BY <2>13 DEF Throw
      <3> QED
        BY <1>3, <2>1, <3>1 DEF JobStep
    <2>14. CASE FailImport(w)
      <3>1. Return(w) \/ GoTo(w, "findCurrent")
        BY <2>14 DEF FailImport
      <3> QED
        BY <1>2, <1>3, <2>1, <3>1 DEF JobStep
    <2>15. CASE FindCurrent(w)
      <3> DEFINE own == {o \in Objects : IsPending(o, job[w].gen)}
      <3>1. CASE own = {}
        BY <1>2, <2>15, <3>1 DEF FindCurrent
      <3>2. CASE own # {}
        <4>1. job' = [job EXCEPT ![w] = [job[w] EXCEPT !.at = "dropCurrent", !.found = own]]
          BY <2>15, <3>2 DEF FindCurrent, ImportInv, JobOK, Job
        <4>2. own \in SUBSET Objects /\ "dropCurrent" \in JobStep \ {"idle"}
          BY DEF JobStep
        <4> HIDE DEF own
        <4> QED
          BY <2>1, <4>1, <4>2, JobGoesOn
      <3> QED
        BY <3>1, <3>2
    <2>16. CASE DropCurrent(w) \/ CrashWorker(w)
      BY <1>2, <2>16 DEF DropCurrent, CrashWorker
    <2> QED
      BY <1>5, <2>3, <2>4, <2>5, <2>7, <2>8, <2>9, <2>10, <2>11, <2>12, <2>13, <2>14, <2>15, <2>16
      DEF Work
  <1>6. ASSUME NEW w \in Workers, NEW g \in Generations, Begin(w, g) PROVE JobsNext
    <2> DEFINE j == [at |-> "findExpired", gen |-> g, found |-> {}]
    <2>1. j \in Job /\ j.gen \in Generations /\ j.at = "findExpired"
      BY DEF Job, JobStep, Generations
    <2>2. JobNext(j)
      BY <2>1 DEF JobNext
    <2>3. job' = [job EXCEPT ![w] = j]
      BY <1>6 DEF Begin
    <2> HIDE DEF j
    <2> QED
      BY <2>2, <2>3, OneJobMoves
  <1>7. CASE UNCHANGED job
    BY <1>1, <1>7
  <1> QED
    BY <1>5, <1>6, <1>7 DEF Next, Upload, Collect, vars, ClaimUpload, UploadTooLate, ReserveStaging,
       PutStaging, AdoptStaging, LoseUpload, FailUpload, RejectUpload, CleanupUpload, CrashUpload,
       Finalize, Retry, Cancel, FailUnstarted, ExpireAbandoned, ClaimObject, DeleteObject, Record,
       RecordDeletion, FailDelete, CrashCollector, RetentionEnds

\* So the workers' part of the invariant is kept.
LEMMA JobsKeepInv ==
  ASSUME ImportInv, [Next]_vars
  PROVE  /\ JobOK'
         /\ \A w \in Workers : /\ job'[w].at = "putRaw" => ReservedNext(Raw)
                               /\ job'[w].at = "promote" => KeptNext(Raw)
                               /\ job'[w].at = "putOutput" => ReservedNext(Output(job'[w].gen))
                               /\ job'[w].at = "persist" => KeptNext(Output(job'[w].gen))
  BY StepMovesJobs DEF JobsNext, JobNext, JobOK

-----------------------------------------------------------------------------
(* The import.                                                             *)

\* No step takes the staging object from an import that goes on with it.
LEMMA StagingStays ==
  ASSUME ImportInv, [Next]_vars, import.staging, import'.staging
  PROVE  RetainedNext(Staging)
  <1>1. LedgerMoves
    BY StepMovesLedger
  <1>2. RowMoves(Staging) /\ ledger[Staging] \in Row
    BY <1>1, ObjectKeys, RowFields DEF LedgerMoves, ImportInv, RefersToAdopted, Retained
  <1>3. ledger[Staging].class = "final" /\ ledger[Staging].status = "RETAINED"
    BY DEF ImportInv, RefersToAdopted, Retained
  <1>4. ~Collectable(Staging)
    BY <1>3 DEF Collectable, Retained
  <1>5. ledger'[Staging] = ledger[Staging] \/ ledger'[Staging] = [ledger[Staging] EXCEPT !.due = TRUE]
    BY <1>2, <1>3, <1>4, NewRows DEF RowMoves
  <1> QED
    BY <1>2, <1>3, <1>5 DEF RetainedNext, Row

\* The references of the next state are sound if the step adds none that is
\* not adopted.
LEMMA ReferencesStay ==
  ASSUME ImportInv, [Next]_vars,
         import'.staging =>
           import.staging \/ (ledger'[Staging].class = "final" /\ RetainedNext(Staging)),
         import'.artifact => import.artifact \/ ledger'[Raw].class = "final",
         import'.parsed \in 0..MaxGeneration,
         import'.parsed # 0 =>
           import'.parsed = import.parsed \/ ledger'[Output(import'.parsed)].class = "final"
  PROVE  RefersToAdopted'
  <1>1. \A o \in Objects : ledger[o].class = "final" => ledger'[o].class = "final"
    BY LedgerKeeps
  <1>2. import.staging => ledger[Staging].class = "final"
    BY DEF ImportInv, RefersToAdopted
  <1>3. import'.staging => ledger'[Staging].class = "final" /\ RetainedNext(Staging)
    BY <1>1, <1>2, ObjectKeys, StagingStays
  <1>4. import'.artifact => ledger'[Raw].class = "final"
    BY <1>1, ObjectKeys DEF ImportInv, RefersToAdopted
  <1>5. import'.parsed # 0 => ledger'[Output(import'.parsed)].class = "final"
    <2>1. CASE import'.parsed = import.parsed /\ import.parsed # 0
      <3>1. import.parsed \in Generations
        BY <2>1 DEF Generations
      <3>2. ledger[Output(import.parsed)].class = "final"
        BY <2>1 DEF ImportInv, RefersToAdopted
      <3>3. ledger'[Output(import.parsed)].class = "final"
        BY <1>1, <3>1, <3>2, ObjectKeys
      <3> QED
        BY <2>1, <3>3
    <2> QED
      BY <2>1
  <1> QED
    BY <1>3, <1>4, <1>5 DEF RefersToAdopted, RetainedNext, Retained

\* The states an import may be in before and after its quota is settled.
States == Cancellable \cup Terminal

\* The import's row and what it says of its quota, for a row given by its
\* fields: the form in which each step below shows them.
RowFits(st, g, sg, p, q) ==
    /\ st \in States /\ g \in 1..(MaxGeneration + 1) /\ sg \in BOOLEAN /\ p \in 0..MaxGeneration
    /\ q \in {"RESERVED", "RELEASED", "CONSUMED"}
    /\ st \in Terminal => ~sg /\ q # "RESERVED"
    /\ q = "RESERVED" <=> st \in Uploads \cup Active
    /\ q = "CONSUMED" <=> p # 0
    /\ st \in {"CREATED", "UPLOADING"} => ~sg
    /\ st # "CANCELLED" => g <= MaxGeneration

\* The row of the present state fits, and so must that of the next.
LEMMA ImportFits ==
  ASSUME ImportInv
  PROVE  /\ RowFits(import.state, import.generation, import.staging, import.parsed, quota)
         /\ import = [state |-> import.state, generation |-> import.generation,
                      staging |-> import.staging, artifact |-> import.artifact,
                      parsed |-> import.parsed]
         /\ import.artifact \in BOOLEAN
  BY DEF ImportInv, ImportRowOK, QuotaFollowsImport, StateFits, RowFits, States

\* One lemma for all steps: the new row, by its fields.
LEMMA ImportMoves ==
  ASSUME ImportInv, [Next]_vars, NEW st, NEW g, NEW sg, NEW ar \in BOOLEAN, NEW p, NEW q,
         RowFits(st, g, sg, p, q),
         import' = [state |-> st, generation |-> g, staging |-> sg, artifact |-> ar, parsed |-> p],
         quota' = q, jobs' \subseteq Generations,
         sg => import.staging \/ (ledger'[Staging].class = "final" /\ RetainedNext(Staging)),
         ar => import.artifact \/ ledger'[Raw].class = "final",
         p # 0 => p = import.parsed \/ ledger'[Output(p)].class = "final"
  PROVE  ImportRowOK' /\ QuotaFollowsImport' /\ StateFits' /\ RefersToAdopted'
  <1>1. /\ import'.state = st /\ import'.generation = g /\ import'.staging = sg
        /\ import'.artifact = ar /\ import'.parsed = p
    OBVIOUS
  <1>2. ImportRowOK'
    BY DEF ImportRowOK, RowFits, States
  <1>3. QuotaFollowsImport' /\ StateFits'
    BY <1>1 DEF QuotaFollowsImport, StateFits, RowFits
  <1>4. RefersToAdopted'
    BY <1>1, ReferencesStay DEF RowFits
  <1> QED
    BY <1>2, <1>3, <1>4

\* The import ends with its quota released and its staging object let go, from
\* any state that still holds the quota.
LEMMA EndMoves ==
  ASSUME ImportInv, [Next]_vars, NEW st \in Terminal \ {"CANCELLED"}, End(st), UNCHANGED jobs,
         import.state \in Uploads \cup Active
  PROVE  ImportRowOK' /\ QuotaFollowsImport' /\ StateFits' /\ RefersToAdopted'
  <1>1. /\ import' = [state |-> st, generation |-> import.generation, staging |-> FALSE,
                      artifact |-> import.artifact, parsed |-> import.parsed]
        /\ quota' = "RELEASED"
    BY ImportFits DEF End, Released, RowFits
  <1>2. RowFits(st, import.generation, FALSE, import.parsed, "RELEASED")
    BY ImportFits DEF RowFits, States, Terminal, Uploads, Active, Processing
  <1>3. jobs' \subseteq Generations
    BY DEF ImportInv, ImportRowOK
  <1> QED
    BY <1>1, <1>2, <1>3, ImportFits, ImportMoves

\* The import only changes its state, and keeps its quota.
LEMMA StateMoves ==
  ASSUME ImportInv, [Next]_vars, NEW st, import' = [import EXCEPT !.state = st],
         UNCHANGED quota, jobs' \subseteq Generations,
         import.state \in Uploads \cup Active, st \in Uploads \cup Active,
         st \in {"CREATED", "UPLOADING"} => ~import.staging
  PROVE  ImportRowOK' /\ QuotaFollowsImport' /\ StateFits' /\ RefersToAdopted'
  <1>1. import' = [state |-> st, generation |-> import.generation, staging |-> import.staging,
                   artifact |-> import.artifact, parsed |-> import.parsed]
    BY ImportFits
  <1>2. RowFits(st, import.generation, import.staging, import.parsed, quota)
    BY ImportFits DEF RowFits, States, Cancellable, Terminal, Uploads, Active, Processing
  <1> QED
    BY <1>1, <1>2, ImportFits, ImportMoves

\* Every step keeps the types of the import, its quota and its references.
LEMMA StepMovesImport ==
  ASSUME ImportInv, [Next]_vars
  PROVE  ImportRowOK' /\ QuotaFollowsImport' /\ StateFits' /\ RefersToAdopted'
  <1> DEFINE Goal == ImportRowOK' /\ QuotaFollowsImport' /\ StateFits' /\ RefersToAdopted'
  <1>1. jobs \subseteq Generations
    BY DEF ImportInv, ImportRowOK
  <1>2. CASE UNCHANGED <<import, quota, jobs>>
    <2>1. RefersToAdopted'
      BY <1>2, ReferencesStay DEF ImportInv, ImportRowOK
    <2> QED
      BY <1>2, <2>1 DEF ImportInv, ImportRowOK, QuotaFollowsImport, StateFits
  <1>3. CASE ClaimUpload
    BY <1>1, <1>3, StateMoves DEF ClaimUpload, Uploads, ImportInv, StateFits
  <1>4. CASE UploadTooLate \/ ExpireAbandoned
    BY <1>4, EndMoves DEF UploadTooLate, ExpireAbandoned, Uploads, Terminal
  <1>5. CASE AdoptStaging
    <2>1. /\ import' = [state |-> "UPLOADED", generation |-> import.generation, staging |-> TRUE,
                        artifact |-> import.artifact, parsed |-> import.parsed]
          /\ UNCHANGED <<quota, jobs>> /\ import.state = "UPLOADING"
      BY <1>5, ImportFits DEF AdoptStaging
    <2>2. RowFits("UPLOADED", import.generation, TRUE, import.parsed, quota)
      BY <2>1, ImportFits DEF RowFits, States, Cancellable, Terminal, Uploads, Active, Processing
    <2>3. ledger'[Staging] = Adopted
      BY <1>5, ObjectKeys DEF AdoptStaging, ImportInv, LedgerOK
    <2>4. ledger'[Staging].class = "final" /\ RetainedNext(Staging)
      BY <2>3, NewRows DEF RetainedNext
    <2> QED
      BY <1>1, <2>1, <2>2, <2>4, ImportFits, ImportMoves
  <1>6. CASE RejectUpload
    <2>1. CASE import.state = "UPLOADING"
      <3>1. /\ import' = [state |-> "REJECTED", generation |-> import.generation, staging |-> FALSE,
                          artifact |-> import.artifact, parsed |-> import.parsed]
            /\ quota' = "RELEASED" /\ UNCHANGED jobs
        BY <1>6, <2>1, ImportFits DEF RejectUpload, Released, RowFits, Uploads
      <3>2. RowFits("REJECTED", import.generation, FALSE, import.parsed, "RELEASED")
        BY <2>1, ImportFits DEF RowFits, States, Terminal, Uploads, Active, Processing
      <3> QED
        BY <1>1, <3>1, <3>2, ImportFits, ImportMoves
    <2>2. CASE import.state # "UPLOADING"
      BY <1>2, <1>6, <2>2 DEF RejectUpload
    <2> QED
      BY <2>1, <2>2
  <1>7. CASE Finalize
    <2>1. jobs' \subseteq Generations
      BY <1>1, <1>7, ImportFits, BoundAssumption DEF Finalize, RowFits, Generations
    <2>2. /\ import' = [import EXCEPT !.state = "SCANNING"] /\ UNCHANGED quota
          /\ import.state \in Uploads \cup Active
      BY <1>7 DEF Finalize, Uploads
    <2> QED
      BY <2>1, <2>2, StateMoves DEF Uploads, Active, Processing
  <1>8. CASE Retry
    <2>1. /\ import' = [state |-> "SCANNING", generation |-> import.generation + 1,
                        staging |-> import.staging, artifact |-> import.artifact, parsed |-> 0]
          /\ import.state = "FAILED_RETRYABLE" /\ import.generation < MaxGeneration
          /\ jobs' = jobs \cup {import.generation + 1} /\ UNCHANGED quota
      BY <1>8, ImportFits DEF Retry
    <2>2. RowFits("SCANNING", import.generation + 1, import.staging, 0, quota)
      BY <2>1, ImportFits, BoundAssumption
      DEF RowFits, States, Cancellable, Terminal, Uploads, Active, Processing
    <2>3. jobs' \subseteq Generations
      BY <1>1, <2>1, ImportFits, BoundAssumption DEF RowFits, Generations
    <2> QED
      BY <2>1, <2>2, <2>3, ImportFits, ImportMoves
  <1>9. CASE Cancel
    <2>1. /\ import' = [state |-> "CANCELLED", generation |-> import.generation + 1,
                        staging |-> FALSE, artifact |-> import.artifact, parsed |-> import.parsed]
          /\ import.state \in Cancellable /\ quota' = Released /\ UNCHANGED jobs
      BY <1>9, ImportFits DEF Cancel
    <2>2. RowFits("CANCELLED", import.generation + 1, FALSE, import.parsed, Released)
      BY <2>1, ImportFits, BoundAssumption
      DEF RowFits, States, Cancellable, Terminal, Uploads, Active, Processing, Parsed, Released
    <2> QED
      BY <1>1, <2>1, <2>2, ImportFits, ImportMoves
  <1>10. ASSUME NEW w \in Workers, NEW g \in Generations, Begin(w, g) PROVE Goal
    <2>1. PICK st : /\ import' = [import EXCEPT !.state = st] /\ st \in Active
                    /\ UNCHANGED <<quota, jobs>> /\ import.state \in Active
      BY <1>10 DEF Begin, Active, Processing
    <2> QED
      BY <1>1, <2>1, StateMoves DEF Active, Processing
  <1>11. ASSUME NEW w \in Workers, NEW g \in Generations, FailUnstarted(w, g) PROVE Goal
    <2>1. import.state \in Active /\ UNCHANGED jobs
      BY <1>11 DEF FailUnstarted
    <2>2. CASE End("FAILED")
      BY <2>1, <2>2, EndMoves DEF Terminal
    <2>3. CASE import' = [import EXCEPT !.state = "FAILED_RETRYABLE"] /\ UNCHANGED quota
      BY <1>1, <2>1, <2>3, StateMoves DEF Active
    <2> QED
      BY <1>11, <2>2, <2>3 DEF FailUnstarted
  <1>12. ASSUME NEW w \in Workers, Promote(w), ~UNCHANGED import PROVE Goal
    <2>1. /\ import' = [state |-> "PARSING", generation |-> import.generation,
                        staging |-> import.staging, artifact |-> TRUE, parsed |-> import.parsed]
          /\ import.state \in Processing /\ UNCHANGED <<quota, jobs>>
          /\ ledger' = IF ledger[Raw].class = "final" THEN ledger
                       ELSE [ledger EXCEPT ![Raw] = Adopted]
      BY <1>12, ImportFits DEF Promote
    <2>2. RowFits("PARSING", import.generation, import.staging, import.parsed, quota)
      BY <2>1, ImportFits DEF RowFits, States, Cancellable, Terminal, Uploads, Active, Processing
    <2>3. ledger'[Raw].class = "final"
      BY <2>1, ObjectKeys, NewRows DEF ImportInv, LedgerOK
    <2> QED
      BY <1>1, <2>1, <2>2, <2>3, ImportFits, ImportMoves
  <1>13. ASSUME NEW w \in Workers, Persist(w), ~UNCHANGED import PROVE Goal
    <2> DEFINE p == job[w].gen
    <2>1. p \in Generations /\ Output(p) \in Objects
      BY <1>13, ObjectKeys DEF Persist, ImportInv, JobOK
    <2>2. /\ import' = [state |-> "READY_FOR_REVIEW", generation |-> import.generation,
                        staging |-> FALSE, artifact |-> import.artifact, parsed |-> p]
          /\ import.state = "PARSING" /\ quota' = "CONSUMED" /\ UNCHANGED jobs
          /\ ledger' = [Tombstone({Staging}) EXCEPT ![Output(p)] = Adopted]
      BY <1>13, ImportFits DEF Persist, IsStale
    <2>3. ledger'[Output(p)].class = "final"
      BY <2>1, <2>2, NewRows DEF Tombstone
    <2>4. RowFits("READY_FOR_REVIEW", import.generation, FALSE, p, "CONSUMED")
      BY <2>1, <2>2, ImportFits
      DEF RowFits, States, Cancellable, Terminal, Uploads, Active, Processing, Parsed, Generations
    <2> HIDE DEF p
    <2> QED
      BY <1>1, <2>2, <2>3, <2>4, ImportFits, ImportMoves
  <1>14. ASSUME NEW w \in Workers, FailImport(w) PROVE Goal
    <2>1. UNCHANGED jobs
      BY <1>14 DEF FailImport
    <2>2. CASE MayFail(w) /\ \E s \in {"FAILED", "REJECTED"} : End(s)
      BY <2>1, <2>2, EndMoves DEF MayFail, Terminal, Active
    <2>3. CASE MayFail(w) /\ import' = [import EXCEPT !.state = "FAILED_RETRYABLE"] /\ UNCHANGED quota
      BY <1>1, <2>1, <2>3, StateMoves DEF MayFail, Active
    <2>4. CASE UNCHANGED <<import, quota>>
      BY <1>2, <2>1, <2>4
    <2> QED
      BY <1>14, <2>2, <2>3, <2>4 DEF FailImport
  <1>15. ASSUME NEW w \in Workers, Promote(w) \/ Persist(w), UNCHANGED import PROVE Goal
    <2>1. UNCHANGED <<quota, jobs>>
      <3>1. CASE Promote(w)
        BY <3>1 DEF Promote
      <3>2. CASE Persist(w)
        <4>1. import' = [import EXCEPT !.state = "READY_FOR_REVIEW", !.staging = FALSE,
                                       !.parsed = job[w].gen] => IsStale(w)
          BY <1>15, ImportFits DEF IsStale
        <4> QED
          BY <3>2, <4>1 DEF Persist
      <3> QED
        BY <1>15, <3>1, <3>2
    <2> QED
      BY <1>2, <1>15, <2>1
  <1> QED
    BY <1>2, <1>3, <1>4, <1>5, <1>6, <1>7, <1>8, <1>9, <1>10, <1>11, <1>12, <1>13, <1>14, <1>15
    DEF Next, Upload, Work, Collect, vars, ReserveStaging, PutStaging, LoseUpload, FailUpload,
       CleanupUpload, CrashUpload, FindExpired, DropExpired, Scan, ReserveRaw, ReserveOutput, Reserve,
       PutRaw, PutOutput, Put, Throw, FindCurrent, DropCurrent, CrashWorker, ClaimObject,
       DeleteObject, Record, RecordDeletion, FailDelete, CrashCollector, RetentionEnds

-----------------------------------------------------------------------------
(* The upload, the collectors, and the invariant as a whole.               *)

\* Every step keeps what the upload relies on.
LEMMA StepMovesUpload ==
  ASSUME ImportInv, [Next]_vars
  PROVE  /\ UploaderOK'
         /\ uploader' = "put" => ReservedNext(Staging)
         /\ uploader' = "adopt" => KeptNext(Staging)
  <1>1. /\ IsReserved(Staging) => ReservedNext(Staging)
        /\ IsKept(Staging) => KeptNext(Staging)
    BY ObjectKeys, LedgerKeeps
  <1>2. UploaderOK
    BY DEF ImportInv
  <1>3. faults' \in 0..MaxFaults
    <2>1. Fault => faults' \in 0..MaxFaults
      BY <1>2, BoundAssumption DEF Fault, UploaderOK
    <2>2. faults \in 0..MaxFaults
      BY <1>2 DEF UploaderOK
    <2>3. faults' = faults \/ Fault
      BY ZenonT(60) DEF Next, Upload, Work, Collect, vars, ClaimUpload, UploadTooLate, ReserveStaging, PutStaging,
         AdoptStaging, LoseUpload, FailUpload, RejectUpload, CleanupUpload, CrashUpload, Finalize,
         Retry, Cancel, Begin, FailUnstarted, FindExpired, DropExpired, Scan, ReserveRaw,
         ReserveOutput, Reserve, PutRaw, PutOutput, Put, Promote, Persist, Throw, FailImport,
         FindCurrent, DropCurrent, CrashWorker, ExpireAbandoned, ClaimObject, DeleteObject, Record,
         RecordDeletion, FailDelete, CrashCollector, RetentionEnds
    <2> QED
      BY <2>1, <2>2, <2>3
  <1>4. CASE UNCHANGED uploader
    BY <1>1, <1>2, <1>3, <1>4 DEF UploaderOK, ImportInv, PutUnderARow
  <1>5. CASE ReserveStaging
    <2>1. ledger'[Staging] = Pending(UploadScope) /\ uploader' = "put"
      BY <1>5, ObjectKeys DEF ReserveStaging, ImportInv, LedgerOK
    <2>2. ReservedNext(Staging)
      BY <2>1, NewRows, BoundAssumption DEF ReservedNext, UploadScope
    <2> QED
      BY <1>3, <2>1, <2>2 DEF UploaderOK
  <1>6. CASE PutStaging
    <2>1. ReservedNext(Staging) /\ Staging \in stored' /\ uploader' = "adopt"
      BY <1>1, <1>6 DEF PutStaging, ImportInv, PutUnderARow
    <2> QED
      BY <1>3, <2>1 DEF UploaderOK, KeptNext
  <1>7. CASE /\ uploader' \in {"none", "reserve", "abort", "reject", "cleanup", "done"}
    BY <1>3, <1>7 DEF UploaderOK
  <1> QED
    BY <1>4, <1>5, <1>6, <1>7, ZenonT(60) DEF Next, Upload, Work, Collect, vars, ClaimUpload, UploadTooLate,
       AdoptStaging, LoseUpload, FailUpload, RejectUpload, CleanupUpload, CrashUpload, Finalize,
       Retry, Cancel, Begin, FailUnstarted, FindExpired, DropExpired, Scan, ReserveRaw,
       ReserveOutput, Reserve, PutRaw, PutOutput, Put, Promote, Persist, Throw, FailImport,
       FindCurrent, DropCurrent, CrashWorker, ExpireAbandoned, ClaimObject, DeleteObject, Record,
       RecordDeletion, FailDelete, CrashCollector, RetentionEnds

\* One collector goes on with an object that it may delete, or ends.
LEMMA CollectorMoves ==
  ASSUME ImportInv, [Next]_vars, NEW c \in Collectors, NEW k,
         collecting' = [collecting EXCEPT ![c] = k],
         \/ k = Idle
         \/ /\ k \in Collection /\ k.step # "idle" /\ k.object \in Objects
            /\ ReservedNext(k.object) /\ ~RetainedNext(k.object)
  PROVE  CollectingOK' /\ ClaimedIsGivenUp'
  <1>1. collecting \in [Collectors -> Collection] /\ Idle \in Collection /\ Idle.step = "idle"
    BY DEF ImportInv, CollectingOK, Idle, Collection
  <1>2. ASSUME NEW d \in Collectors, d # c
        PROVE  /\ collecting'[d] = collecting[d]
               /\ IF collecting[d].step = "idle" THEN collecting[d] = Idle
                  ELSE /\ collecting[d].object \in Objects
                       /\ ReservedNext(collecting[d].object) /\ ~RetainedNext(collecting[d].object)
    <2>1. IF collecting[d].step = "idle" THEN collecting[d] = Idle
          ELSE /\ collecting[d].object \in Objects /\ IsReserved(collecting[d].object)
               /\ ~Retained(collecting[d].object)
      BY DEF ImportInv, CollectingOK, ClaimedIsGivenUp, IsReserved
    <2> QED
      BY <1>1, <1>2, <2>1, LedgerKeeps
  <1>3. collecting'[c] = k
    BY <1>1
  <1>4. collecting' \in [Collectors -> Collection]
    BY <1>1
  <1>5. CollectingOK'
    BY <1>1, <1>2, <1>3, <1>4 DEF CollectingOK
  <1>6. ClaimedIsGivenUp'
    BY <1>1, <1>2, <1>3 DEF ClaimedIsGivenUp, ReservedNext, RetainedNext, Retained
  <1> QED
    BY <1>5, <1>6

\* Every step keeps what the collectors rely on.
LEMMA StepMovesCollectors ==
  ASSUME ImportInv, [Next]_vars
  PROVE  CollectingOK' /\ ClaimedIsGivenUp'
  <1>1. /\ collecting \in [Collectors -> Collection]
        /\ \A c \in Collectors : IF collecting[c].step = "idle" THEN collecting[c] = Idle
                                 ELSE /\ collecting[c].object \in Objects
                                      /\ IsReserved(collecting[c].object)
                                      /\ ~Retained(collecting[c].object)
    BY DEF ImportInv, CollectingOK, ClaimedIsGivenUp, IsReserved
  <1>2. CASE UNCHANGED collecting
    <2>1. \A c \in Collectors : collecting[c].step # "idle" =>
            ReservedNext(collecting[c].object) /\ ~RetainedNext(collecting[c].object)
      BY <1>1, LedgerKeeps
    <2> QED
      BY <1>1, <1>2, <2>1 DEF CollectingOK, ClaimedIsGivenUp, ReservedNext, RetainedNext, Retained
  <1>3. ASSUME NEW c \in Collectors, NEW o \in Objects, ClaimObject(c, o)
        PROVE  CollectingOK' /\ ClaimedIsGivenUp'
    <2> DEFINE k == [object |-> o, step |-> "delete"]
    <2>1. collecting' = [collecting EXCEPT ![c] = k]
      BY <1>3 DEF ClaimObject
    <2>2. k \in Collection /\ k.step # "idle" /\ k.object = o
      BY DEF Collection
    <2>3. ledger'[o].status = "DELETING"
      <3>1. ledger[o] \in Row /\ ledger' = [ledger EXCEPT ![o] = [ledger[o] EXCEPT !.status = "DELETING", !.by = c]]
        BY <1>3, RowFields DEF ClaimObject, ImportInv, LedgerOK
      <3> QED
        BY <3>1 DEF ImportInv, LedgerOK, Row
    <2>4. ReservedNext(o) /\ ~RetainedNext(o)
      BY <1>3, <2>3, LedgerKeeps DEF RetainedNext, ClaimObject, IsReserved
    <2> HIDE DEF k
    <2> QED
      BY <2>1, <2>2, <2>4, CollectorMoves
  <1>4. ASSUME NEW c \in Collectors, DeleteObject(c) PROVE CollectingOK' /\ ClaimedIsGivenUp'
    <2> DEFINE k == [collecting[c] EXCEPT !.step = "deleted"]
    <2>1. collecting' = [collecting EXCEPT ![c] = k] /\ collecting[c].step # "idle"
      BY <1>1, <1>4 DEF DeleteObject
    <2>2. k \in Collection /\ k.step # "idle" /\ k.object = collecting[c].object
      BY <1>1 DEF Collection
    <2>3. /\ k.object \in Objects
          /\ ReservedNext(k.object) /\ ~RetainedNext(k.object)
      BY <1>1, <2>1, <2>2, LedgerKeeps
    <2> HIDE DEF k
    <2> QED
      BY <2>1, <2>2, <2>3, CollectorMoves
  <1>5. ASSUME NEW c \in Collectors, RecordDeletion(c) \/ FailDelete(c) \/ CrashCollector(c)
        PROVE  CollectingOK' /\ ClaimedIsGivenUp'
    <2>1. collecting' = [collecting EXCEPT ![c] = Idle]
      BY <1>5 DEF RecordDeletion, FailDelete, CrashCollector, Record
    <2> QED
      BY <2>1, CollectorMoves
  <1> QED
    BY <1>2, <1>3, <1>4, <1>5, ZenonT(60) DEF Next, Upload, Work, Collect, vars, ClaimUpload, UploadTooLate,
       ReserveStaging, PutStaging, AdoptStaging, LoseUpload, FailUpload, RejectUpload, CleanupUpload,
       CrashUpload, Finalize, Retry, Cancel, Begin, FailUnstarted, FindExpired, DropExpired, Scan,
       ReserveRaw, ReserveOutput, Reserve, PutRaw, PutOutput, Put, Promote, Persist, Throw,
       FailImport, FindCurrent, DropCurrent, CrashWorker, ExpireAbandoned, RetentionEnds

\* Nothing is reserved, stored or claimed at the start.
LEMMA ImportInitInv == Init => ImportInv
  <1> SUFFICES ASSUME Init PROVE ImportInv
    OBVIOUS
  <1>1. ImportRowOK
    BY BoundAssumption DEF Init, ImportRowOK, Cancellable, Uploads, Generations
  <1>2. LedgerOK /\ StoredOK
    BY DEF Init, LedgerOK, StoredOK
  <1>3. UploaderOK /\ QuotaFollowsImport /\ StateFits
    BY BoundAssumption DEF Init, UploaderOK, QuotaFollowsImport, StateFits, Terminal, Uploads
  <1>4. NoJob \in Job /\ NoJob.at = "idle" /\ Idle \in Collection /\ Idle.step = "idle"
    BY BoundAssumption DEF NoJob, Job, JobStep, Idle, Collection
  <1>5. JobOK /\ CollectingOK /\ ClaimedIsGivenUp
    BY <1>4 DEF Init, JobOK, CollectingOK, ClaimedIsGivenUp
  <1>6. PutUnderARow
    BY <1>4 DEF Init, PutUnderARow
  <1>7. AdoptedIsKept
    BY DEF Init, AdoptedIsKept, NoRow
  <1>8. RefersToAdopted
    BY DEF Init, RefersToAdopted
  <1> QED
    BY <1>1, <1>2, <1>3, <1>5, <1>6, <1>7, <1>8 DEF ImportInv

\* Every step keeps the invariant.
LEMMA ImportStepInv == ImportInv /\ [Next]_vars => ImportInv'
  <1> SUFFICES ASSUME ImportInv, [Next]_vars PROVE ImportInv'
    OBVIOUS
  <1>1. LedgerOK' /\ StoredOK' /\ AdoptedIsKept'
    BY LedgerKeeps
  <1>2. ImportRowOK' /\ QuotaFollowsImport' /\ StateFits' /\ RefersToAdopted'
    BY StepMovesImport
  <1>3. CollectingOK' /\ ClaimedIsGivenUp'
    BY StepMovesCollectors
  <1>4. UploaderOK' /\ JobOK'
    BY StepMovesUpload, JobsKeepInv
  <1>5. PutUnderARow'
    BY StepMovesUpload, JobsKeepInv
    DEF PutUnderARow, IsReserved, IsKept, ReservedNext, KeptNext, RetainedNext, Retained
  <1> QED
    BY <1>1, <1>2, <1>3, <1>4, <1>5 DEF ImportInv

\* The invariant holds always.
LEMMA ImportAlways == Spec => []ImportInv
  BY ImportInitInv, ImportStepInv, PTL DEF Spec

\* The rows are well typed, and the quota follows the import whichever of the
\* API, the workers and the sweeper ends it (finishing transactions of upload,
\* workflow, processor and sweeper).
THEOREM ImportSafety == Spec => []ImportInvariant
  <1>1. ASSUME ImportInv PROVE ImportTypeOK
    <2>1. \A w \in Workers :
            job[w] = NoJob \/ (job[w].gen \in Generations /\ job[w].found \subseteq Objects)
      BY <1>1 DEF ImportInv, JobOK, Job
    <2>2. \A c \in Collectors : collecting[c] = Idle \/ collecting[c].object \in Objects
      BY <1>1 DEF ImportInv, CollectingOK
    <2> QED
      BY <1>1, <2>1, <2>2 DEF ImportInv, ImportTypeOK, ImportRowOK, LedgerOK, Row, StoredOK, UploaderOK
  <1>2. ImportInv => ImportInvariant
    BY <1>1 DEF ImportInvariant, ImportInv
  <1> QED
    BY <1>2, ImportAlways, PTL

\* What the import refers to is stored under a retained row, or its retention
\* has ended, however uploads, overlapping workers, retries and collectors
\* interleave (claimExpiredObjects, the adopting transactions).
THEOREM ReferencesAreStored == Spec => []ReferencedIsStored
  <1>1. ASSUME ImportInv, NEW o \in Objects, Referenced(o)
        PROVE  /\ ledger[o].class = "final"
               /\ (o # Staging /\ ledger[o].due) \/ (o \in stored /\ Retained(o))
    <2>1. \A p \in Objects : ledger[p].class = "final" =>
            /\ Retained(p) => p \in stored
            /\ p # Staging => Retained(p) \/ ledger[p].due
      BY <1>1 DEF ImportInv, AdoptedIsKept
    <2>2. CASE o = Staging /\ import.staging
      BY <1>1, <2>1, <2>2 DEF ImportInv, RefersToAdopted
    <2>3. CASE o = Raw /\ import.artifact
      BY <1>1, <2>1, <2>3, ObjectKeys DEF ImportInv, RefersToAdopted
    <2>4. CASE import.parsed # 0 /\ o = Output(import.parsed)
      <3>1. import.parsed \in Generations
        BY <1>1, <2>4 DEF ImportInv, ImportRowOK, Generations
      <3> QED
        BY <1>1, <2>1, <2>4, <3>1, ObjectKeys DEF ImportInv, RefersToAdopted
    <2> QED
      BY <1>1, <2>2, <2>3, <2>4 DEF Referenced
  <1>2. ImportInv => ReferencedIsStored
    BY <1>1 DEF ReferencedIsStored
  <1> QED
    BY <1>2, ImportAlways, PTL

\* An import that has ended is not touched by late work, and output is
\* published only for the import's own generation (persistPublication,
\* failImport, the where clauses of the transactions).
THEOREM EndIsFinal == Spec => EndedIsFinal
  <1>1. ASSUME ImportInv, [Next]_vars, ~UNCHANGED import
        PROVE  /\ import.state \notin Terminal
               /\ import'.parsed \notin {0, import.parsed} => import'.parsed = import.generation
    <2> USE DEF Terminal, Cancellable, Uploads, Active, Processing, Parsed
    <2>1. \A s : End(s) => import'.parsed = import.parsed
      BY DEF End, ImportInv, ImportRowOK
    <2>2. ASSUME NEW w \in Workers, Persist(w)
          PROVE  import.state = "PARSING" /\ import'.parsed = import.generation
      BY <1>1, <2>2 DEF Persist, IsStale, ImportInv, ImportRowOK
    <2>3. CASE Upload
      BY <1>1, <2>1, <2>3 DEF Upload, ClaimUpload, UploadTooLate, ReserveStaging, PutStaging,
         AdoptStaging, LoseUpload, FailUpload, RejectUpload, CleanupUpload, CrashUpload,
         ImportInv, ImportRowOK
    <2>4. CASE Finalize \/ Retry \/ Cancel \/ ExpireAbandoned
      BY <1>1, <2>1, <2>4 DEF Finalize, Retry, Cancel, ExpireAbandoned, ImportInv, ImportRowOK
    <2>5. ASSUME NEW w \in Workers, Promote(w) \/ FailImport(w)
          PROVE  import.state \in Processing /\ import'.parsed = import.parsed
      BY <1>1, <2>1, <2>5 DEF Promote, FailImport, MayFail, ImportInv, ImportRowOK
    <2>6. ASSUME NEW w \in Workers, NEW g \in Generations, Begin(w, g) \/ FailUnstarted(w, g)
          PROVE  import.state \in Active /\ import'.parsed = import.parsed
      <3>1. CASE Begin(w, g)
        BY <1>1, <3>1 DEF Begin, ImportInv, ImportRowOK
      <3>2. CASE FailUnstarted(w, g)
        <4>1. \/ import' = [import EXCEPT !.state = "FAILED_RETRYABLE"] \/ End("FAILED")
          BY <3>2 DEF FailUnstarted
        <4>2. import.state \in Active
          BY <3>2 DEF FailUnstarted
        <4> QED
          BY <1>1, <2>1, <4>1, <4>2 DEF ImportInv, ImportRowOK
      <3> QED
        BY <2>6, <3>1, <3>2
    <2> QED
      BY <1>1, <2>2, <2>3, <2>4, <2>5, <2>6, ZenonT(60) DEF Next, Work, Collect, vars, FindExpired, DropExpired,
         Scan, ReserveRaw, ReserveOutput, Reserve, PutRaw, PutOutput, Put, Throw, FindCurrent,
         DropCurrent, CrashWorker, ClaimObject, DeleteObject, Record, RecordDeletion, FailDelete,
         CrashCollector, RetentionEnds
  <1>2. ImportInv /\ [Next]_vars =>
          [/\ import.state \in Terminal => import' = import
           /\ import'.parsed \notin {0, import.parsed} => import'.parsed = import.generation]_vars
    BY <1>1
  <1> QED
    BY <1>2, ImportAlways, PTL DEF Spec, EndedIsFinal

\* A deletion goes one way: DELETED is its end, no row returns to RETAINED, and
\* an object leaves the store only after its row has left RETAINED, although
\* several collectors take over one deletion (the claim token).
THEOREM DeletionsGoOneWay == Spec => DeletionIsOneWay
  <1>1. ASSUME ImportInv, [Next]_vars, NEW o \in Objects
        PROVE  /\ ledger[o].status = "DELETED" => ledger'[o] = ledger[o]
               /\ ~Retained(o) /\ ledger[o] # NoRow => ~Retained(o)'
               /\ o \in stored /\ o \notin stored' => ~Retained(o)
    <2>1. LedgerMoves /\ StoreMoves
      BY <1>1, StepMovesLedger, StepMovesStore
    <2> QED
      BY <1>1, <2>1, RowFacts DEF LedgerMoves, StoreMoves, ImportInv
  <1>2. ImportInv /\ [Next]_vars =>
          [\A o \in Objects :
             /\ ledger[o].status = "DELETED" => ledger'[o] = ledger[o]
             /\ ~Retained(o) /\ ledger[o] # NoRow => ~Retained(o)'
             /\ o \in stored /\ o \notin stored' => ~Retained(o)]_vars
    BY <1>1
  <1> QED
    BY <1>2, ImportAlways, PTL DEF Spec, DeletionIsOneWay

=============================================================================
