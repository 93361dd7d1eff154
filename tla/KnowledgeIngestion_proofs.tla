---------------------- MODULE KnowledgeIngestion_proofs ----------------------
(***************************************************************************)
(* Proofs about KnowledgeIngestion, for any number of workers, contents,   *)
(* attempts, generations and faults.                                       *)
(***************************************************************************)
EXTENDS KnowledgeIngestion, SequenceTheorems, TLAPS

SourceStatus == Gone \cup {"CONNECTING", "SYNCING", "READY", "PAUSED", "NEEDS_REVIEW", "FAILED"}
JobStatus == Ended \cup {"NONE", "QUEUED", "RUNNING", "RETRY_SCHEDULED"}
Job == [op : {"NONE", "IMPORT", "SYNC", "RECONCILE", "DELETE"}, status : JobStatus,
        attempt : Nat, fresh : BOOLEAN, excluded : Nat, exact : BOOLEAN]
Fetching == {"prepare", "compare", "put", "write", "persist"}
RevisionState == {"CHUNKING", "READY", "PUBLISHED", "NEEDS_REVIEW", "SUPERSEDED", "REJECTED",
                  "DELETED"}
Revision == [state : RevisionState, content : Contents \cup {None},
             key : Nat \X (Contents \cup {None}), fingerprint : Nat, permission : Nat,
             live : BOOLEAN, indexed : BOOLEAN]
DocumentState == {"NONE", "DISCOVERED", "ACTIVE", "NEEDS_REVIEW", "TOMBSTONED", "DELETED"}
RowStatus == {"PENDING", "IN_PROGRESS", "COMPLETED", "FAILED"}
LedgerRow == [gen : Generations, target : Nat, sub : Deleted, status : RowStatus,
              by : Workers \cup {None}]
Step == {"idle", "prepare", "compare", "put", "write", "persist", "drop", "reconcile", "list",
         "delete", "rows", "claim", "clean", "cleaned", "completeRow", "failRow", "finish",
         "complete", "fail"}
Run == [at : Step, gen : Nat, attempt : Nat, content : Contents \cup {None},
        permission : Nat, created : BOOLEAN, rows : SUBSET (Nat \X Deleted),
        error : {"none", "stale", "retryable", "terminal"}, aborted : BOOLEAN]

\* The types in full, and the bounds that SourceTypeOK names.
SourceOK == source \in [status : SourceStatus, generation : Generations, permission : Nat,
                        deferred : BOOLEAN]
JobOK ==
    /\ job \in [Generations -> Job]
    /\ \A g \in Generations : job[g].fresh => job[g].status = "RUNNING"
DocumentOK ==
    /\ document \in [status : DocumentState,
                    draft : Nat, published : Nat]
    /\ {document.draft, document.published} \subseteq Revisions \cup {0}
RevisionOK == revision \in Seq(Revision)
LedgerOK == ledger \subseteq LedgerRow
RunOK == run \in [Workers -> Run]

\* A generation has a job once it was requested, unless the source defers it; only
\* the last one may be a deletion.
JobsFit ==
    /\ \A g \in Generations :
          /\ job[g].op = "NONE" <=> job[g].status = "NONE"
          /\ g > source.generation => job[g] = NoJob
          /\ job[g].op = "DELETE" => g = source.generation
    /\ source.status \in Gone <=> job[source.generation].op = "DELETE"
    /\ source.deferred /\ source.status = "NEEDS_REVIEW" => job[source.generation].op = "NONE"

\* An attempt executes a job, has begun under the permissions of its generation, and
\* does what its job is for.
AttemptFits(w) ==
    LET g == run[w].gen IN
    run[w].at # "idle" =>
        /\ g \in Generations /\ g <= source.generation
        /\ job[g].op # "NONE"
        /\ g = source.generation => run[w].permission = source.permission
        /\ run[w].at \in Fetching => job[g].op \in Ingests
        /\ run[w].at = "reconcile" => job[g].op = "RECONCILE"
        /\ run[w].at \in {"delete", "finish"} => job[g].op = "DELETE"
        /\ run[w].at = "clean" /\ FirstOf(run[w].rows)[2] # "VECTOR_INDEX" => job[g].op = "DELETE"

RunsFit == \A w \in Workers : AttemptFits(w)

\* Rows belong to requested generations, those of content and objects to a deletion.
LedgerFits ==
    \A l \in ledger :
        /\ l.gen <= source.generation
        /\ l.sub # "VECTOR_INDEX" => job[l.gen].op = "DELETE"
        /\ l.gen = source.generation /\ source.status \in Gone => l.target = Source

\* A row of one revision was written when the revision was denied.
RowsAreOfDenied ==
    \A l \in ledger : l.target # Source => l.target \in Revisions /\ ~revision[l.target].live

PointsAreIndexed == \A r \in points : r \in Revisions /\ revision[r].indexed

\* A run has done the work of the row that it has claimed and is about to complete it.
AtCompletion == {"cleaned", "completeRow"}
Claims(x, w, l) ==
    /\ x.at \in AtCompletion
    /\ l.gen = x.gen /\ l.target = FirstOf(x.rows)[1] /\ l.sub = FirstOf(x.rows)[2]
    /\ l.status = "IN_PROGRESS" /\ l.by = w
IsCleaned(l) == \E w \in Workers : Claims(run[w], w, l)

\* The row is open, its work is not done, and it covers the revision.
Covers(l, r) ==
    /\ l.sub = "VECTOR_INDEX" /\ l.status # "COMPLETED" /\ l.target \in {Source, r}
    /\ ~IsCleaned(l)

\* Points of denied chunks are on the ledger in a row whose work is not done.
DeniedIsCovered == \A r \in points : ~revision[r].live => \E l \in ledger : Covers(l, r)

Erased(sub) ==
    /\ sub = "VECTOR_INDEX" => points = {}
    /\ sub = "POSTGRES_CONTENT" => \A r \in Revisions : revision[r].state = "DELETED"

\* A deletion has a row for each subsystem, which is completed only after its work.
DeletionIsProven ==
    source.status \in Gone =>
        /\ \A s \in Deleted : \E l \in ledger : l.gen = source.generation /\ l.sub = s
        /\ \A l \in ledger : l.gen = source.generation /\ (l.status = "COMPLETED" \/ IsCleaned(l)) =>
              Erased(l.sub)

\* The inductive invariant.
IngestionInv ==
    /\ SourceOK /\ JobOK /\ DocumentOK /\ RevisionOK /\ LedgerOK /\ RunOK /\ faults \in 0..MaxFaults
    /\ JobsFit /\ RunsFit /\ LedgerFits /\ RowsAreOfDenied
    /\ OnlyAdmittedContentIsLive
    /\ PointsAreIndexed /\ DeniedIsCovered
    /\ DeletionIsProven /\ DeletedIsErased

-----------------------------------------------------------------------------
(* Revisions.                                                              *)

USE DEF DocumentState

\* Revisions are a function on their numbers.
LEMMA RevisionFields ==
  ASSUME RevisionOK
  PROVE  /\ Len(revision) \in Nat
         /\ revision \in [Revisions -> Revision]
         /\ \A r \in Revisions : r \in Nat /\ r # 0 /\ revision[r] \in Revision
  BY LenProperties DEF RevisionOK, Revisions

\* A function on the numbers of a sequence is a sequence of its length.
LEMMA SameLength ==
  ASSUME NEW S, NEW s \in Seq(S), NEW t \in [1..Len(s) -> S]
  PROVE  t \in Seq(S) /\ Len(t) = Len(s)
  <1>1. Len(s) \in Nat
    BY LenProperties
  <1>2. t \in Seq(S)
    BY <1>1, SeqDef
  <1>3. DOMAIN t = 1..Len(t) /\ Len(t) \in Nat
    BY <1>2, LenProperties
  <1>4. 1..Len(t) = 1..Len(s)
    BY <1>3
  <1> QED
    BY <1>1, <1>2, <1>3, <1>4

\* Revisions keep their numbers, the permissions under which they were admitted and
\* their points; those that were denied stay denied.
RevisionMoves ==
    /\ revision' \in Seq(Revision) /\ Len(revision') >= Len(revision)
    /\ \A r \in Revisions :
          /\ revision'[r].fingerprint = revision[r].fingerprint
          /\ revision'[r].permission = revision[r].permission
          /\ revision[r].indexed => revision'[r].indexed
          /\ revision'[r].live => revision[r].live

\* A revision that changes its state.
LEMMA RevisionInState ==
  ASSUME NEW x \in Revision, NEW state \in RevisionState, NEW y, y = [x EXCEPT !.state = state]
  PROVE  /\ y \in Revision /\ y.live = x.live /\ y.state = state
         /\ y.fingerprint = x.fingerprint /\ y.permission = x.permission
         /\ y.indexed = x.indexed
  BY DEF Revision

\* Denied changes nothing but live.
LEMMA DeniedRevisions ==
  ASSUME RevisionOK, NEW rs
  PROVE  /\ Denied(rs) \in Seq(Revision) /\ Len(Denied(rs)) = Len(revision)
         /\ \A r \in Revisions :
               /\ Denied(rs)[r] \in Revision
               /\ Denied(rs)[r].live = (revision[r].live /\ r \notin rs)
               /\ Denied(rs)[r].state = revision[r].state
               /\ Denied(rs)[r].fingerprint = revision[r].fingerprint
               /\ Denied(rs)[r].permission = revision[r].permission
               /\ Denied(rs)[r].indexed = revision[r].indexed
  <1> DEFINE Live(r) == revision[r].live /\ r \notin rs
             New(r) == [revision[r] EXCEPT !.live = Live(r)]
  <1>1. ASSUME NEW r \in Revisions
        PROVE  /\ New(r) \in Revision /\ New(r).live = Live(r) /\ New(r).state = revision[r].state
               /\ New(r).fingerprint = revision[r].fingerprint
               /\ New(r).permission = revision[r].permission
               /\ New(r).indexed = revision[r].indexed
    <2>1. revision[r] \in Revision /\ Live(r) \in BOOLEAN
      BY RevisionFields DEF Revision
    <2> HIDE DEF Live
    <2> QED
      BY <2>1 DEF Revision
  <1>2. Denied(rs) = [r \in Revisions |-> New(r)]
    BY DEF Denied
  <1> HIDE DEF New
  <1>3. Denied(rs) \in [1..Len(revision) -> Revision]
    BY <1>1, <1>2 DEF Revisions
  <1>4. Denied(rs) \in Seq(Revision) /\ Len(Denied(rs)) = Len(revision)
    BY <1>3, SameLength DEF RevisionOK
  <1>5. \A r \in Revisions : Denied(rs)[r] = New(r)
    BY <1>2
  <1> QED
    BY <1>1, <1>4, <1>5

\* One revision is rewritten; the others stay as they are.
LEMMA OneRevision ==
  ASSUME NEW s \in Seq(Revision), NEW r \in 1..Len(s), NEW x \in Revision
  PROVE  /\ [s EXCEPT ![r] = x] \in Seq(Revision)
         /\ Len([s EXCEPT ![r] = x]) = Len(s)
         /\ \A q \in 1..Len(s) : [s EXCEPT ![r] = x][q] = IF q = r THEN x ELSE s[q]
  BY ExceptSeq

-----------------------------------------------------------------------------
(* The source and its jobs.                                                *)

\* A request for a new generation; the jobs of the earlier ones stay.
NewGeneration ==
    /\ source.status \notin Gone
    /\ source'.generation = source.generation + 1
    /\ \A g \in Generations : g <= source.generation => job'[g] = job[g]

\* The generation goes on: its permissions stay, it is not deleted and not revived, and
\* no job becomes another one.
SameGeneration ==
    /\ source'.generation = source.generation /\ source'.permission = source.permission
    /\ source'.status \in Gone <=> source.status \in Gone
    /\ \A g \in Generations : job'[g].op = job[g].op \/ job[g].op = "NONE"

\* The jobs go on with what they are for, and none is created.
JobsGoOn ==
    /\ job' \in [Generations -> Job]
    /\ \A g \in Generations :
          /\ job'[g].op = job[g].op
          /\ job'[g].status = "NONE" <=> job[g].status = "NONE"
          /\ job'[g].fresh => job'[g].status = "RUNNING"
          /\ job[g] = NoJob => job'[g] = NoJob

\* The source goes on within its generation.
SourceGoesOn ==
    /\ SourceOK'
    /\ source'.generation = source.generation /\ source'.permission = source.permission
    /\ source'.status \in Gone <=> source.status \in Gone
    /\ source'.status = "DELETED" => source.status = "DELETED"
    /\ source'.deferred /\ source'.status = "NEEDS_REVIEW" =>
          source.deferred /\ source.status = "NEEDS_REVIEW"

\* A job that was created gets another status.
LEMMA OneJobGoesOn ==
  ASSUME JobOK, NEW g \in Generations, job[g].op # "NONE", NEW x \in Job,
         job[g].status # "NONE", x.op = job[g].op, x.status # "NONE",
         x.fresh => x.status = "RUNNING", job' = [job EXCEPT ![g] = x]
  PROVE  JobsGoOn
  <1>1. job \in [Generations -> Job] /\ job' \in [Generations -> Job] /\ job[g] # NoJob
    BY DEF JobOK, NoJob
  <1>2. \A h \in Generations : job'[h] = IF h = g THEN x ELSE job[h]
    BY <1>1
  <1> QED
    BY <1>1, <1>2 DEF JobsGoOn, JobOK

\* The jobs are not touched.
LEMMA NoJobMoves == ASSUME JobOK, UNCHANGED job PROVE JobsGoOn
  BY DEF JobOK, JobsGoOn

\* The source is not touched.
LEMMA NoSourceMoves == ASSUME SourceOK, UNCHANGED source PROVE SourceGoesOn
  BY DEF SourceOK, SourceGoesOn

\* JobBecomes of a job that was created.
LEMMA JobGetsStatus ==
  ASSUME JobOK, JobsFit, NEW g \in Generations, job[g].status # "NONE",
         NEW status \in JobStatus, status # "NONE", JobBecomes(g, status)
  PROVE  JobsGoOn
  <1> DEFINE x == [job[g] EXCEPT !.status = status, !.fresh = FALSE]
  <1>1. x \in Job /\ x.op = job[g].op /\ x.status # "NONE" /\ ~x.fresh
    BY DEF JobOK, Job
  <1>2. job' = [job EXCEPT ![g] = x]
    BY DEF JobBecomes, JobOK
  <1>3. job[g].op # "NONE"
    BY DEF JobsFit
  <1> HIDE DEF x
  <1> QED
    BY <1>1, <1>2, <1>3, OneJobGoesOn

\* A running job reports that it is alive.
LEMMA JobIsAlive ==
  ASSUME JobOK, JobsFit, NEW g \in Generations, job[g].status = "RUNNING",
         job' = [job EXCEPT ![g].fresh = TRUE]
  PROVE  JobsGoOn
  <1> DEFINE x == [job[g] EXCEPT !.fresh = TRUE]
  <1>1. x \in Job /\ x.op = job[g].op /\ x.status = "RUNNING"
    BY DEF JobOK, Job
  <1>2. job' = [job EXCEPT ![g] = x]
    BY DEF JobOK
  <1>3. job[g].op # "NONE"
    BY DEF JobsFit
  <1> HIDE DEF x
  <1> QED
    BY <1>1, <1>2, <1>3, OneJobGoesOn

\* The source of a job that ends badly is not revived.
LEMMA FailingKeepsTheSource ==
  ASSUME SourceOK, JobsFit, NEW g \in Generations, NEW status \in {"SYNCING", "FAILED"},
         SourceFails(g, status)
  PROVE  SourceGoesOn
  <1>1. CASE source.generation = g /\ source.status # "DELETED" /\ job[g].op # "DELETE"
    <2>1. source.status \notin Gone
      BY <1>1 DEF JobsFit
    <2> QED
      BY <1>1, <2>1 DEF SourceFails, SourceOK, SourceGoesOn, SourceStatus, Gone
  <1>2. CASE ~(source.generation = g /\ source.status # "DELETED" /\ job[g].op # "DELETE")
    BY <1>2, NoSourceMoves DEF SourceFails
  <1> QED
    BY <1>1, <1>2

\* Together they keep what is known of the source and its jobs.
LEMMA GoingOn ==
  ASSUME SourceOK, JobOK, JobsFit, JobsGoOn, SourceGoesOn
  PROVE  SourceOK' /\ JobOK' /\ JobsFit' /\ SameGeneration
  <1>1. SourceOK' /\ JobOK' /\ SameGeneration
    BY DEF JobsGoOn, SourceGoesOn, JobOK, SameGeneration
  <1>2. source.generation \in Generations /\ source'.generation = source.generation
    BY DEF SourceOK, SourceGoesOn
  <1>3. \A g \in Generations :
           /\ job'[g].op = "NONE" <=> job'[g].status = "NONE"
           /\ g > source'.generation => job'[g] = NoJob
           /\ job'[g].op = "DELETE" => g = source'.generation
    BY <1>2 DEF JobsGoOn, JobsFit
  <1>4. /\ source'.status \in Gone <=> job'[source'.generation].op = "DELETE"
        /\ source'.deferred /\ source'.status = "NEEDS_REVIEW" =>
              job'[source'.generation].op = "NONE"
    BY <1>2 DEF JobsGoOn, JobsFit, SourceGoesOn
  <1> QED
    BY <1>1, <1>3, <1>4 DEF JobsFit

-----------------------------------------------------------------------------
(* The runs.                                                               *)

\* The run x continues the attempt y of w: it does not start to fetch, to reconcile or
\* to delete, and it finishes or cleans what the job is for.
Continues(x, y) ==
    /\ y.at # "idle" /\ x.gen = y.gen /\ x.permission = y.permission
    /\ x.at \in Fetching => y.at \in Fetching
    /\ x.at \in {"reconcile", "delete"} => x.at = y.at
    /\ x.at = "finish" => job[y.gen].op = "DELETE"
    /\ x.at = "clean" /\ FirstOf(x.rows)[2] # "VECTOR_INDEX" => job[y.gen].op = "DELETE"

\* The run x begins an attempt of a job under the permissions of the source.
Begins(x) ==
    /\ x.gen \in Generations /\ x.gen <= source.generation /\ job[x.gen].op # "NONE"
    /\ x.permission = source.permission
    /\ x.at \in {"prepare", "reconcile", "delete", "fail"}
    /\ x.at = "prepare" => job[x.gen].op \in Ingests
    /\ x.at = "reconcile" => job[x.gen].op = "RECONCILE"
    /\ x.at = "delete" => job[x.gen].op = "DELETE"

RunsGoOn ==
    /\ RunOK'
    /\ \A w \in Workers : \/ run'[w] = run[w] \/ run'[w].at = "idle"
                          \/ Continues(run'[w], run[w]) \/ Begins(run'[w])

\* No run has done the work of another row.
NothingCleaned ==
    \A w \in Workers : run'[w].at \in AtCompletion =>
        run[w].at \in AtCompletion /\ run'[w].gen = run[w].gen /\ run'[w].rows = run[w].rows

\* Runs that are not touched go on, and clean nothing.
LEMMA NoRunMoves == ASSUME RunOK, UNCHANGED run PROVE RunsGoOn /\ NothingCleaned
  BY DEF RunOK, RunsGoOn, NothingCleaned

\* One run moves.
LEMMA OneRunGoesOn ==
  ASSUME RunOK, NEW w \in Workers, NEW x \in Run, run' = [run EXCEPT ![w] = x],
         x.at = "idle" \/ Continues(x, run[w]) \/ Begins(x)
  PROVE  /\ RunsGoOn
         /\ x.at \notin AtCompletion \/ (run[w].at \in AtCompletion /\ x.gen = run[w].gen
                                            /\ x.rows = run[w].rows) => NothingCleaned
  <1>1. run \in [Workers -> Run] /\ run' \in [Workers -> Run]
    BY DEF RunOK
  <1>2. \A v \in Workers : run'[v] = IF v = w THEN x ELSE run[v]
    BY <1>1
  <1>3. RunsGoOn
    BY <1>1, <1>2 DEF RunsGoOn, RunOK
  <1>4. x.at \notin AtCompletion \/ (run[w].at \in AtCompletion /\ x.gen = run[w].gen
                                        /\ x.rows = run[w].rows) => NothingCleaned
    BY <1>2 DEF NothingCleaned
  <1> QED
    BY <1>3, <1>4

\* An attempt goes to another step.
LEMMA Going ==
  ASSUME RunOK, NEW w \in Workers, NEW at \in Step, GoTo(w, at), run[w].at # "idle",
         at \in Fetching => run[w].at \in Fetching,
         at \notin {"reconcile", "delete", "clean"}, at \notin AtCompletion,
         at = "finish" => job[run[w].gen].op = "DELETE"
  PROVE  RunsGoOn /\ NothingCleaned
  <1> DEFINE x == [run[w] EXCEPT !.at = at]
  <1>1. x \in Run /\ x.at = at /\ x.gen = run[w].gen /\ x.permission = run[w].permission
    BY DEF RunOK, Run, Step
  <1>2. run' = [run EXCEPT ![w] = x]
    BY DEF GoTo, RunOK
  <1> HIDE DEF x
  <1>3. Continues(x, run[w])
    BY <1>1 DEF Continues
  <1> QED
    BY <1>1, <1>2, <1>3, OneRunGoesOn

\* An attempt fails.
LEMMA Raising ==
  ASSUME RunOK, NEW w \in Workers, NEW error \in {"stale", "retryable", "terminal"},
         Raise(w, error), run[w].at # "idle"
  PROVE  RunsGoOn /\ NothingCleaned
  <1> DEFINE at == IF run[w].created THEN "drop" ELSE "fail"
             x == [run[w] EXCEPT !.error = error, !.at = at]
  <1>2. run' = [run EXCEPT ![w] = x]
    BY DEF Raise, RunOK
  <1>0. at \in Step /\ at \in {"drop", "fail"} /\ error \in {"none", "stale", "retryable", "terminal"}
    BY DEF Step
  <1> HIDE DEF at
  <1>1. x \in Run /\ x.at \in {"drop", "fail"} /\ x.gen = run[w].gen
        /\ x.permission = run[w].permission
    BY <1>0, ZenonT(60) DEF RunOK, Run
  <1> HIDE DEF x
  <1>3. Continues(x, run[w]) /\ x.at \notin AtCompletion
    BY <1>1 DEF Continues, Fetching, AtCompletion
  <1> QED
    BY <1>1, <1>2, <1>3, OneRunGoesOn

\* An attempt at its row fails; the row is settled first.
LEMMA FailingTheRow ==
  ASSUME RunOK, NEW w \in Workers, NEW error \in {"stale", "retryable", "terminal"},
         run' = [run EXCEPT ![w].at = "failRow", ![w].error = error], run[w].at # "idle"
  PROVE  RunsGoOn /\ NothingCleaned
  <1> DEFINE x == [run[w] EXCEPT !.at = "failRow", !.error = error]
  <1>0. "failRow" \in Step /\ error \in {"none", "stale", "retryable", "terminal"}
    BY DEF Step
  <1>1. x \in Run /\ x.at = "failRow" /\ x.gen = run[w].gen /\ x.permission = run[w].permission
    BY <1>0, ZenonT(60) DEF RunOK, Run
  <1>2. run' = [run EXCEPT ![w] = x]
    BY DEF RunOK
  <1> HIDE DEF x
  <1>3. Continues(x, run[w]) /\ x.at \notin AtCompletion
    BY <1>1 DEF Continues, Fetching, AtCompletion
  <1> QED
    BY <1>1, <1>2, <1>3, OneRunGoesOn

\* A run ends.
LEMMA Returning ==
  ASSUME RunOK, NEW w \in Workers, Return(w)
  PROVE  RunsGoOn /\ NothingCleaned
  <1>1. NoRun \in Run /\ NoRun.at = "idle"
    BY DEF NoRun, Run, Step
  <1>2. NoRun.at \notin AtCompletion
    BY <1>1 DEF AtCompletion
  <1> QED
    BY <1>1, <1>2, OneRunGoesOn DEF Return

\* The attempts still fit the jobs.
LEMMA RunsStayFit ==
  ASSUME SourceOK, JobOK, RunsFit, RunsGoOn, NewGeneration \/ SameGeneration
  PROVE  RunOK' /\ RunsFit'
  <1> SUFFICES ASSUME NEW w \in Workers PROVE AttemptFits(w)'
    BY DEF RunsGoOn, RunsFit
  <1>0. source.generation \in Nat /\ \A g \in Generations : g \in Nat
    BY DEF SourceOK, Generations
  <1>1. \A g \in Generations : g <= source.generation /\ job[g].op # "NONE" =>
           /\ job'[g].op = job[g].op /\ g <= source'.generation
           /\ g = source'.generation => g = source.generation /\ source'.permission = source.permission
    BY <1>0 DEF NewGeneration, SameGeneration
  <1>2. CASE run'[w].at = "idle"
    BY <1>2 DEF AttemptFits
  <1>3. CASE run'[w] = run[w]
    BY <1>1, <1>3 DEF RunsFit, AttemptFits
  <1>4. CASE Continues(run'[w], run[w])
    BY <1>1, <1>4 DEF RunsFit, AttemptFits, Continues, Fetching
  <1>5. CASE Begins(run'[w])
    BY <1>1, <1>5 DEF AttemptFits, Begins, Fetching
  <1> QED
    BY <1>2, <1>3, <1>4, <1>5 DEF RunsGoOn

-----------------------------------------------------------------------------
(* The content, the ledger and the index.                                  *)

\* What is live afterwards was live under the same permissions, or is new and admitted
\* under those of the source.
Admission ==
    \A r \in 1..Len(revision') : revision'[r].live =>
        /\ source'.status \notin Gone
        /\ r \in Revisions => source'.permission = source.permission
        /\ r \notin Revisions => /\ revision'[r].fingerprint = source'.permission
                                 /\ revision'[r].permission = source'.permission

\* A step that admits nothing under other permissions keeps what is live admitted.
LEMMA AdmittedStays ==
  ASSUME RevisionOK, OnlyAdmittedContentIsLive, RevisionMoves, Admission
  PROVE  OnlyAdmittedContentIsLive'
  BY DEF Admission, RevisionMoves, OnlyAdmittedContentIsLive, Revisions

\* The rows keep what they are about; new ones are of the new generation.
RowsGoOn ==
    /\ LedgerOK'
    /\ \A l \in ledger' :
          \/ \E k \in ledger : l.gen = k.gen /\ l.target = k.target /\ l.sub = k.sub
          \/ /\ l.gen = source'.generation
             /\ l.sub # "VECTOR_INDEX" => source'.status \in Gone
             /\ source'.status \in Gone => l.target = Source
             /\ l.target # Source => l.target \in Revisions /\ ~revision'[l.target].live

\* Untouched revisions keep their type and their states.
LEMMA RevisionsStay ==
  ASSUME RevisionOK, UNCHANGED revision
  PROVE  RevisionOK' /\ RevisionMoves
  <1>1. Len(revision) \in Nat
    BY RevisionFields
  <1> QED
    BY <1>1, RevisionFields DEF RevisionOK, RevisionMoves, Revision

\* An untouched ledger goes on.
LEMMA LedgerStays == ASSUME LedgerOK, UNCHANGED ledger PROVE RowsGoOn
  BY DEF LedgerOK, RowsGoOn

\* Rows that go on still belong to requested generations and to denied revisions.
LEMMA RowsStayFit ==
  ASSUME SourceOK, JobOK, JobsFit, JobsFit', LedgerOK, LedgerFits, RowsAreOfDenied, RevisionOK,
         NewGeneration \/ SameGeneration, RevisionMoves, RowsGoOn
  PROVE  LedgerOK' /\ LedgerFits' /\ RowsAreOfDenied'
  <1>0. source.generation \in Nat /\ \A g \in Generations : g \in Nat
    BY DEF SourceOK, Generations
  <1>1. \A l \in ledger : l.gen \in Generations
    BY DEF LedgerOK, LedgerRow
  <1>2. \A l \in ledger : /\ l.gen <= source'.generation
                          /\ l.sub # "VECTOR_INDEX" => job'[l.gen].op = "DELETE"
    BY <1>0, <1>1 DEF LedgerFits, NewGeneration, SameGeneration
  <1>3. \A l \in ledger : l.gen = source'.generation =>
           SameGeneration /\ l.gen = source.generation
    BY <1>0, <1>1 DEF LedgerFits, NewGeneration, SameGeneration
  <1>4. \A l \in ledger : l.target # Source => l.target \in Revisions /\ ~revision'[l.target].live
    BY DEF RowsAreOfDenied, RevisionMoves
  <1>5. Revisions \subseteq Revisions'
    <2>1. Len(revision) \in Nat /\ Len(revision') \in Nat /\ Len(revision') >= Len(revision)
      BY RevisionFields, LenProperties DEF RevisionMoves
    <2> QED
      BY <2>1 DEF Revisions
  <1>6. ASSUME NEW l \in ledger', NEW k \in ledger,
               l.gen = k.gen, l.target = k.target, l.sub = k.sub
        PROVE  /\ l.gen <= source'.generation
               /\ l.sub # "VECTOR_INDEX" => job'[l.gen].op = "DELETE"
               /\ l.gen = source'.generation /\ source'.status \in Gone => l.target = Source
               /\ l.target # Source => l.target \in Revisions' /\ ~revision'[l.target].live
    BY <1>2, <1>3, <1>4, <1>5, <1>6 DEF LedgerFits, SameGeneration
  <1>7. ASSUME NEW l \in ledger', l.gen = source'.generation,
               l.sub # "VECTOR_INDEX" => source'.status \in Gone,
               source'.status \in Gone => l.target = Source,
               l.target # Source => l.target \in Revisions /\ ~revision'[l.target].live
        PROVE  /\ l.gen <= source'.generation
               /\ l.sub # "VECTOR_INDEX" => job'[l.gen].op = "DELETE"
               /\ l.gen = source'.generation /\ source'.status \in Gone => l.target = Source
               /\ l.target # Source => l.target \in Revisions' /\ ~revision'[l.target].live
    <2>1. source'.generation <= source'.generation
      BY <1>0 DEF NewGeneration, SameGeneration
    <2> QED
      BY <1>5, <1>7, <2>1 DEF JobsFit
  <1>8. LedgerOK'
    BY DEF RowsGoOn
  <1> QED
    BY <1>6, <1>7, <1>8 DEF RowsGoOn, LedgerFits, RowsAreOfDenied

\* Every open row whose work is not done goes on as one, perhaps in another generation.
OpenRowsGoOn ==
    \A l \in ledger : l.sub = "VECTOR_INDEX" /\ l.status # "COMPLETED" /\ ~IsCleaned(l) =>
        \E k \in ledger' : /\ k.sub = "VECTOR_INDEX" /\ k.status # "COMPLETED"
                           /\ k.target \in {Source, l.target} /\ ~IsCleaned(k)'

\* What is denied by the step is put on the ledger by it.
DenialsAreListed ==
    \A r \in points : revision[r].live /\ ~revision'[r].live =>
        \E k \in ledger' : k.sub = "VECTOR_INDEX" /\ k.status = "PENDING" /\ k.target \in {Source, r}

\* A row that nobody has claimed is not cleaned.
LEMMA PendingIsNotCleaned ==
  ASSUME NEW l, l.status # "IN_PROGRESS" PROVE ~IsCleaned(l) /\ ~IsCleaned(l)'
  BY DEF IsCleaned, Claims

\* A row that was not cleaned is not cleaned by a step that cleans nothing.
LEMMA CleanedBefore ==
  ASSUME NothingCleaned, NEW l, IsCleaned(l)' PROVE IsCleaned(l)
  BY DEF NothingCleaned, IsCleaned, Claims

\* Open rows of an untouched ledger stay open when no work is done.
LEMMA OpenRowsStay ==
  ASSUME UNCHANGED ledger, NothingCleaned PROVE OpenRowsGoOn
  BY CleanedBefore DEF OpenRowsGoOn

\* Denied points stay covered: old ones by the rows that go on, new ones by the listed rows.
LEMMA CoverStays ==
  ASSUME DeniedIsCovered, OpenRowsGoOn, DenialsAreListed,
         \A r \in points' : r \in points \/ revision'[r].live
  PROVE  DeniedIsCovered'
  <1> SUFFICES ASSUME NEW r \in points', ~revision'[r].live
               PROVE  \E k \in ledger' : Covers(k, r)'
    BY DEF DeniedIsCovered
  <1>1. r \in points
    OBVIOUS
  <1>2. CASE revision[r].live
    BY <1>1, <1>2, PendingIsNotCleaned DEF DenialsAreListed, Covers
  <1>3. CASE ~revision[r].live
    <2>1. PICK l \in ledger : Covers(l, r)
      BY <1>1, <1>3 DEF DeniedIsCovered
    <2>2. PICK k \in ledger' : /\ k.sub = "VECTOR_INDEX" /\ k.status # "COMPLETED"
                               /\ k.target \in {Source, l.target} /\ ~IsCleaned(k)'
      BY <2>1 DEF OpenRowsGoOn, Covers
    <2> QED
      BY <2>1, <2>2 DEF Covers
  <1> QED
    BY <1>2, <1>3

\* Of a deletion every row stays, and what is proven stays so.
DeletionGoesOn ==
    /\ \A l \in ledger : \E k \in ledger' : k.gen = l.gen /\ k.sub = l.sub
    /\ \A k \in ledger' : k.gen = source.generation /\ (k.status = "COMPLETED" \/ IsCleaned(k)') =>
          \/ Erased(k.sub)'
          \/ \E l \in ledger :
                 l.gen = k.gen /\ l.sub = k.sub /\ (l.status = "COMPLETED" \/ IsCleaned(l))
    /\ points' \subseteq points
    /\ \A r \in 1..Len(revision') :
          r \in Revisions /\ (revision[r].state = "DELETED" => revision'[r].state = "DELETED")

\* The state of a source that may be called deleted.
NothingIsLeft == points = {} /\ \A r \in Revisions : revision[r].state = "DELETED"

\* Within a generation the deletion stays proven, and so does what is called deleted.
LEMMA DeletionStays ==
  ASSUME DeletionIsProven, DeletedIsErased, SameGeneration,
         source.status \in Gone => DeletionGoesOn,
         source'.status = "DELETED" => NothingIsLeft
  PROVE  DeletionIsProven' /\ DeletedIsErased'
  <1>1. CASE source.status \notin Gone
    BY <1>1 DEF SameGeneration, DeletionIsProven, DeletedIsErased, Gone
  <1>2. CASE source.status \in Gone
    <2>1. DeletionGoesOn
      BY <1>2
    <2>2. \A sub : Erased(sub) => Erased(sub)'
      BY <2>1 DEF DeletionGoesOn, Erased, Revisions
    <2>3. \A s \in Deleted : \E l \in ledger' : l.gen = source'.generation /\ l.sub = s
      BY <1>2, <2>1 DEF DeletionIsProven, DeletionGoesOn, SameGeneration
    <2>4. \A l \in ledger : l.gen = source.generation /\ (l.status = "COMPLETED" \/ IsCleaned(l)) =>
             Erased(l.sub)
      BY <1>2 DEF DeletionIsProven
    <2>5. ASSUME NEW k \in ledger', k.gen = source'.generation, k.status = "COMPLETED" \/ IsCleaned(k)'
          PROVE  Erased(k.sub)'
      <3>1. k.gen = source.generation
        BY <2>5 DEF SameGeneration
      <3>2. CASE Erased(k.sub)'
        BY <3>2
      <3>3. ASSUME NEW l \in ledger, l.gen = k.gen, l.sub = k.sub, l.status = "COMPLETED" \/ IsCleaned(l)
            PROVE  Erased(k.sub)'
        BY <2>2, <2>4, <3>1, <3>3
      <3> QED
        BY <2>1, <2>5, <3>1, <3>2, <3>3 DEF DeletionGoesOn
    <2>6. DeletedIsErased'
      BY <2>1 DEF DeletionGoesOn, DeletedIsErased, NothingIsLeft, Revisions
    <2> QED
      BY <2>3, <2>5, <2>6 DEF DeletionIsProven
  <1> QED
    BY <1>1, <1>2

-----------------------------------------------------------------------------
(* The steps.                                                              *)

\* A step that touches neither the content nor the ledger nor the index.
LEMMA QuietStep ==
  ASSUME IngestionInv, SourceOK', JobOK', JobsFit', SameGeneration, RunsGoOn, NothingCleaned,
         source'.status = "DELETED" => NothingIsLeft,
         UNCHANGED <<document, revision, ledger, points>>, faults' \in 0..MaxFaults
  PROVE  IngestionInv'
  <1> USE DEF IngestionInv
  <1>1. RunOK' /\ RunsFit'
    BY RunsStayFit
  <1>2. RevisionOK' /\ RevisionMoves /\ DocumentOK'
    BY RevisionsStay DEF DocumentOK, Revisions
  <1>3. LedgerOK' /\ LedgerFits' /\ RowsAreOfDenied'
    BY <1>2, LedgerStays, RowsStayFit
  <1>4. OnlyAdmittedContentIsLive' /\ PointsAreIndexed'
    <2>1. OnlyAdmittedContentIsLive'
      BY DEF OnlyAdmittedContentIsLive, SameGeneration, Revisions
    <2>2. PointsAreIndexed'
      BY DEF PointsAreIndexed, Revisions
    <2> QED
      BY <2>1, <2>2
  <1>5. DeniedIsCovered'
    <2>1. \A l, r : Covers(l, r) => Covers(l, r)'
      BY CleanedBefore DEF Covers
    <2> QED
      BY <2>1 DEF DeniedIsCovered
  <1>6. source.status \in Gone => DeletionGoesOn
    BY CleanedBefore DEF DeletionGoesOn, Revisions
  <1>7. DeletionIsProven' /\ DeletedIsErased'
    BY <1>6, DeletionStays
  <1> QED
    BY <1>1, <1>2, <1>3, <1>4, <1>5, <1>7

\* The same, when the source and its jobs go on.
LEMMA QuietStepGoesOn ==
  ASSUME IngestionInv, JobsGoOn, SourceGoesOn, RunsGoOn, NothingCleaned,
         UNCHANGED <<document, revision, ledger, points>>, faults' \in 0..MaxFaults
  PROVE  IngestionInv'
  <1>1. SourceOK' /\ JobOK' /\ JobsFit' /\ SameGeneration
    BY GoingOn DEF IngestionInv
  <1>2. source'.status = "DELETED" => NothingIsLeft
    BY DEF SourceGoesOn, IngestionInv, DeletedIsErased, NothingIsLeft
  <1> QED
    BY <1>1, <1>2, QuietStep

\* A step that touches the runs only.
LEMMA RunStep ==
  ASSUME IngestionInv, RunsGoOn, NothingCleaned,
         UNCHANGED <<source, job, document, revision, ledger, points>>, faults' \in 0..MaxFaults
  PROVE  IngestionInv'
  <1>1. JobsGoOn /\ SourceGoesOn
    BY NoJobMoves, NoSourceMoves DEF IngestionInv
  <1> QED
    BY <1>1, QuietStepGoesOn

\* What is known of a run that has an attempt.
LEMMA AttemptFacts ==
  ASSUME IngestionInv, NEW w \in Workers, run[w].at # "idle"
  PROVE  /\ run[w] \in Run /\ run[w].gen \in Generations /\ job[run[w].gen] \in Job
         /\ run[w].gen <= source.generation
         /\ job[run[w].gen].op # "NONE" /\ job[run[w].gen].status # "NONE"
         /\ run[w].gen = source.generation => run[w].permission = source.permission
  BY DEF IngestionInv, RunOK, RunsFit, AttemptFits, JobOK, JobsFit

\* Faults are counted up to their bound.
LEMMA FaultIsCounted == ASSUME IngestionInv, Fault PROVE faults' \in 0..MaxFaults
  BY IngestionAssumption DEF IngestionInv, Fault

\* The errors that the attempts raise.
LEMMA RaisingStale ==
  ASSUME IngestionInv, NEW w \in Workers, Raise(w, "stale"), run[w].at # "idle"
  PROVE  RunsGoOn /\ NothingCleaned
  <1>1. PICK e \in {"stale", "retryable", "terminal"} : e = "stale"
    OBVIOUS
  <1> QED
    BY <1>1, Raising DEF IngestionInv

\* An attempt goes to a step that needs nothing of the job.
LEMMA GoingFreely ==
  ASSUME IngestionInv, NEW w \in Workers, run[w].at # "idle",
         NEW at \in {"list", "rows", "claim", "complete", "drop", "fail", "failRow"}, GoTo(w, at)
  PROVE  RunsGoOn /\ NothingCleaned
  <1>1. at \in Step /\ at \notin Fetching /\ at \notin {"reconcile", "delete", "clean"}
        /\ at \notin AtCompletion /\ at # "finish"
    BY DEF Step, Fetching, AtCompletion
  <1> QED
    BY <1>1, Going DEF IngestionInv

\* pauseSource: a paused source keeps its jobs.
LEMMA PauseStep == ASSUME IngestionInv, Pause PROVE IngestionInv'
  <1>1. SourceGoesOn
    BY DEF IngestionInv, Pause, SourceOK, SourceGoesOn, SourceStatus, Gone
  <1> QED
    BY <1>1, NoJobMoves, NoRunMoves, QuietStepGoesOn DEF IngestionInv, Pause

\* The job of the generation is created when the source is resumed.
LEMMA ResumeStep == ASSUME IngestionInv, Resume PROVE IngestionInv'
  <1> DEFINE g == source.generation
             x == Queued("RECONCILE", 0)
  <1>1. g \in Generations /\ source.status \notin Gone /\ job[g].op = "NONE"
    BY DEF IngestionInv, Resume, SourceOK, JobsFit, Gone
  <1>2. x \in Job /\ x.op = "RECONCILE" /\ x.status = "QUEUED" /\ x.fresh = FALSE
    BY DEF Queued, Job, JobStatus
  <1>3. job \in [Generations -> Job] /\ job' = [job EXCEPT ![g] = x]
    BY DEF IngestionInv, Resume, JobOK
  <1>4. source' = [source EXCEPT !.status = "SYNCING", !.deferred = FALSE]
    BY DEF Resume
  <1>5. /\ SourceOK' /\ source'.generation = g /\ source'.permission = source.permission
        /\ source'.status = "SYNCING" /\ source'.deferred = FALSE
    BY <1>1, <1>4 DEF IngestionInv, SourceOK, SourceStatus
  <1> HIDE DEF g, x
  <1>6. JobOK'
    BY <1>1, <1>2, <1>3 DEF IngestionInv, JobOK
  <1>7. \A h \in Generations : job'[h] = IF h = g THEN x ELSE job[h]
    BY <1>3
  <1>8. SameGeneration
    BY <1>1, <1>5, <1>7 DEF SameGeneration, Gone, g
  <1>9. JobsFit'
    <2>1. source.generation = g /\ g \in Nat
      BY <1>1 DEF g, Generations
    <2> QED
      BY <1>1, <1>2, <1>5, <1>7, <2>1 DEF IngestionInv, JobsFit, Gone
  <1> QED
    BY <1>5, <1>6, <1>8, <1>9, NoRunMoves, QuietStep DEF IngestionInv, Resume

\* A dead worker leaves everything but its own run as it is.
LEMMA CrashStep == ASSUME IngestionInv, NEW w \in Workers, Crash(w) PROVE IngestionInv'
  BY Returning, RunStep, FaultIsCounted DEF IngestionInv, Crash

\* completeAttempt ends the job and the run, and touches no content.
LEMMA CompleteStep == ASSUME IngestionInv, NEW w \in Workers, Complete(w) PROVE IngestionInv'
  <1>1. run[w].at # "idle"
    BY DEF Complete
  <1>2. CASE Fenced(w)
    <2>1. JobsGoOn
      <3>1. PICK status \in JobStatus : status = "SUCCEEDED"
        BY DEF JobStatus, Ended
      <3> QED
        BY <1>1, <1>2, <3>1, AttemptFacts, JobGetsStatus DEF IngestionInv, Complete
    <2> QED
      BY <1>2, <2>1, Returning, NoSourceMoves, QuietStepGoesOn DEF IngestionInv, Complete
  <1>3. CASE ~Fenced(w)
    BY <1>1, <1>3, RaisingStale, RunStep DEF IngestionInv, Complete
  <1> QED
    BY <1>2, <1>3

\* failAttempt ends or reschedules the job, and never revives a source that is being deleted.
LEMMA FailStep == ASSUME IngestionInv, NEW w \in Workers, Fail(w) PROVE IngestionInv'
  <1>1. run[w].at # "idle"
    BY DEF Fail
  <1> DEFINE g == run[w].gen
             retried == run[w].error = "retryable" /\ run[w].attempt < MaxAttempts
             status == CASE run[w].error = "stale" -> "CANCELLED"
                         [] retried -> "RETRY_SCHEDULED" [] OTHER -> "FAILED"
             left == IF retried THEN "SYNCING" ELSE "FAILED"
  <1>2. status \in JobStatus /\ status # "NONE" /\ left \in {"SYNCING", "FAILED"}
    BY DEF JobStatus, Ended
  <1>3. CASE ~Current(w)
    BY <1>3, Returning, NoJobMoves, NoSourceMoves, QuietStepGoesOn DEF IngestionInv, Fail
  <1>4. CASE Current(w)
    <2>1. JobBecomes(g, status) /\ (UNCHANGED source \/ SourceFails(g, left))
      BY <1>4 DEF Fail
    <2> HIDE DEF status, left
    <2>2. JobsGoOn
      BY <1>1, <1>2, <2>1, AttemptFacts, JobGetsStatus DEF IngestionInv
    <2>3. SourceGoesOn
      BY <1>1, <1>2, <2>1, AttemptFacts, NoSourceMoves, FailingKeepsTheSource DEF IngestionInv
    <2> QED
      BY <2>2, <2>3, Returning, QuietStepGoesOn DEF IngestionInv, Fail
  <1> QED
    BY <1>3, <1>4

\* An attempt of the job begins.
LEMMA AttemptStarts ==
  ASSUME IngestionInv, NEW w \in Workers, NEW g \in Generations, Deliverable(w, g),
         NEW at \in {"prepare", "reconcile", "delete", "fail"}, Started(w, g, at),
         at = "prepare" => job[g].op \in Ingests, at = "reconcile" => job[g].op = "RECONCILE",
         at = "delete" => job[g].op = "DELETE"
  PROVE  JobsGoOn /\ SourceGoesOn /\ RunsGoOn /\ NothingCleaned
  <1>0. job[g] \in Job /\ job[g].status # "NONE" /\ job[g].op # "NONE" /\ g <= source.generation
    <2>1. job[g].status # "NONE" /\ job[g] # NoJob
      BY DEF Deliverable, NoJob
    <2>2. g \in Nat /\ source.generation \in Nat
      BY DEF IngestionInv, SourceOK, Generations
    <2> QED
      BY <2>1, <2>2 DEF IngestionInv, JobOK, JobsFit
  <1>1. JobsGoOn
    <2> DEFINE x == [job[g] EXCEPT !.status = "RUNNING", !.attempt = job[g].attempt + 1,
                                   !.fresh = TRUE]
    <2>0. job[g].attempt + 1 \in Nat /\ "RUNNING" \in JobStatus
      BY <1>0 DEF Job, JobStatus
    <2>1. x \in Job /\ x.op = job[g].op /\ x.status = "RUNNING"
      BY <1>0, <2>0 DEF Job
    <2>2. job' = [job EXCEPT ![g] = x]
      BY DEF Started, IngestionInv, JobOK
    <2> HIDE DEF x
    <2> QED
      BY <1>0, <2>1, <2>2, OneJobGoesOn DEF IngestionInv
  <1>2. SourceGoesOn
    <2>1. CASE source.generation = g /\ job[g].op \in Ingests
      <3>1. source.status \notin Gone
        BY <2>1 DEF IngestionInv, JobsFit, Ingests
      <3> QED
        BY <2>1, <3>1 DEF Started, IngestionInv, SourceOK, SourceGoesOn, SourceStatus, Gone
    <2>2. CASE ~(source.generation = g /\ job[g].op \in Ingests)
      BY <2>2, NoSourceMoves DEF Started, IngestionInv
    <2> QED
      BY <2>1, <2>2
  <1>3. RunsGoOn /\ NothingCleaned
    <2> DEFINE error == IF at = "fail" THEN "terminal" ELSE "none"
               x == [NoRun EXCEPT !.at = at, !.gen = g, !.attempt = job[g].attempt + 1,
                                  !.permission = source.permission, !.error = error]
    <2>1. run' = [run EXCEPT ![w] = x]
      BY DEF Started
    <2>2. error \in {"none", "stale", "retryable", "terminal"} /\ at \in Step /\ at \notin AtCompletion
      BY DEF Step, AtCompletion
    <2>3. g \in Nat /\ source.permission \in Nat /\ job[g].attempt + 1 \in Nat
      BY <1>0 DEF IngestionInv, SourceOK, Generations, Job
    <2> HIDE DEF error
    <2>4. x \in Run /\ x.at = at /\ x.gen = g /\ x.permission = source.permission
      BY <2>2, <2>3 DEF NoRun, Run
    <2> HIDE DEF x
    <2>5. Begins(x)
      BY <1>0, <2>4 DEF Begins
    <2> QED
      BY <2>1, <2>2, <2>4, <2>5, OneRunGoesOn DEF IngestionInv
  <1> QED
    BY <1>1, <1>2, <1>3

\* A delivery that gives the job up.
LEMMA GivingUp ==
  ASSUME IngestionInv, NEW g \in Generations, job[g].status # "NONE",
         JobBecomes(g, "DEAD_LETTER"), SourceFails(g, "FAILED"), UNCHANGED run
  PROVE  JobsGoOn /\ SourceGoesOn /\ RunsGoOn /\ NothingCleaned
  <1>1. PICK status \in JobStatus : status = "DEAD_LETTER"
    BY DEF JobStatus, Ended
  <1>2. PICK left \in {"SYNCING", "FAILED"} : left = "FAILED"
    OBVIOUS
  <1>3. JobsGoOn
    BY <1>1, JobGetsStatus DEF IngestionInv
  <1>4. SourceGoesOn
    BY <1>2, FailingKeepsTheSource DEF IngestionInv
  <1> QED
    BY <1>3, <1>4, NoRunMoves DEF IngestionInv

\* beginAttempt: the attempt has the permissions of its generation and does what its job is for.
LEMMA BeginStep ==
  ASSUME IngestionInv, NEW w \in Workers, NEW g \in Generations, Begin(w, g)
  PROVE  IngestionInv'
  <1>1. /\ Deliverable(w, g) /\ job[g].status # "NONE"
        /\ job[g].op \in {"IMPORT", "SYNC", "RECONCILE", "DELETE"}
    <2>1. Deliverable(w, g) /\ job[g].status # "NONE"
      BY DEF Begin, Deliverable
    <2> QED
      BY <2>1 DEF IngestionInv, JobOK, JobsFit, Job
  <1>2. CASE job[g].attempt < MaxAttempts
    <2> DEFINE at == CASE job[g].op \in Ingests -> "prepare"
                       [] job[g].op = "RECONCILE" -> "reconcile"
                       [] job[g].op = "DELETE" -> "delete"
    <2>1. Started(w, g, at)
      BY <1>2 DEF Begin
    <2>2. /\ at \in {"prepare", "reconcile", "delete", "fail"}
          /\ at = "prepare" => job[g].op \in Ingests
          /\ at = "reconcile" => job[g].op = "RECONCILE"
          /\ at = "delete" => job[g].op = "DELETE"
      BY <1>1 DEF Ingests
    <2> HIDE DEF at
    <2>3. JobsGoOn /\ SourceGoesOn /\ RunsGoOn /\ NothingCleaned
      BY <1>1, <2>1, <2>2, AttemptStarts
    <2> QED
      BY <2>3, QuietStepGoesOn DEF Begin, IngestionInv
  <1>3. CASE ~(job[g].attempt < MaxAttempts)
    <2>1. JobsGoOn /\ SourceGoesOn /\ RunsGoOn /\ NothingCleaned
      BY <1>1, <1>3, GivingUp DEF Begin
    <2> QED
      BY <2>1, QuietStepGoesOn DEF Begin, IngestionInv
  <1> QED
    BY <1>2, <1>3

\* beginAttempt, startup errors: the job is given up or the attempt fails.
LEMMA BeginRefusedStep ==
  ASSUME IngestionInv, NEW w \in Workers, NEW g \in Generations, BeginRefused(w, g)
  PROVE  IngestionInv'
  <1>1. Deliverable(w, g) /\ job[g].status # "NONE"
    BY DEF BeginRefused, Deliverable
  <1>2. faults' \in 0..MaxFaults
    BY FaultIsCounted DEF BeginRefused, IngestionInv
  <1>3. CASE job[g].attempt < MaxAttempts
    <2>1. PICK at \in {"prepare", "reconcile", "delete", "fail"} : at = "fail"
      OBVIOUS
    <2>2. Started(w, g, at) /\ at \notin {"prepare", "reconcile", "delete"}
      BY <1>3, <2>1 DEF BeginRefused
    <2>3. JobsGoOn /\ SourceGoesOn /\ RunsGoOn /\ NothingCleaned
      BY <1>1, <2>2, AttemptStarts
    <2> QED
      BY <1>2, <2>3, QuietStepGoesOn DEF BeginRefused
  <1>4. CASE ~(job[g].attempt < MaxAttempts)
    <2>1. JobsGoOn /\ SourceGoesOn /\ RunsGoOn /\ NothingCleaned
      BY <1>1, <1>4, GivingUp DEF BeginRefused
    <2> QED
      BY <1>2, <2>1, QuietStepGoesOn DEF BeginRefused
  <1> QED
    BY <1>3, <1>4

\* beginAttempt for an overtaken generation: the job is cancelled.
LEMMA BeginStaleStep ==
  ASSUME IngestionInv, NEW w \in Workers, NEW g \in Generations, BeginStale(w, g)
  PROVE  IngestionInv'
  <1> DEFINE x == [job[g] EXCEPT !.status = "CANCELLED", !.attempt = job[g].attempt + 1,
                                 !.fresh = FALSE]
  <1>1. job[g] \in Job /\ job[g].status # "NONE" /\ job[g].op # "NONE"
    BY DEF IngestionInv, JobOK, JobsFit, BeginStale, Deliverable
  <1>0. job[g].attempt + 1 \in Nat /\ "CANCELLED" \in JobStatus
    BY <1>1 DEF Job, JobStatus, Ended
  <1>2. x \in Job /\ x.op = job[g].op /\ x.status = "CANCELLED" /\ x.fresh = FALSE
    BY <1>0, <1>1 DEF Job
  <1>3. job' = [job EXCEPT ![g] = x]
    BY DEF BeginStale, IngestionInv, JobOK
  <1> HIDE DEF x
  <1>4. JobsGoOn
    BY <1>1, <1>2, <1>3, OneJobGoesOn DEF IngestionInv
  <1> QED
    BY <1>4, NoSourceMoves, NoRunMoves, QuietStepGoesOn DEF BeginStale, IngestionInv

\* The dead letter of the outbox gives the job up.
LEMMA DeadLetterStep ==
  ASSUME IngestionInv, NEW g \in Generations, DeadLetter(g) PROVE IngestionInv'
  <1>1. JobsGoOn
    <2>1. CASE job[g].status \in Ended \ {"FAILED"}
      BY <2>1, NoJobMoves DEF DeadLetter, IngestionInv
    <2>2. CASE job[g].status \notin Ended \ {"FAILED"}
      <3>1. PICK status \in JobStatus : status = "DEAD_LETTER"
        BY DEF JobStatus, Ended
      <3> QED
        BY <2>2, <3>1, JobGetsStatus DEF DeadLetter, IngestionInv
    <2> QED
      BY <2>1, <2>2
  <1>2. SourceGoesOn
    <2>1. PICK left \in {"SYNCING", "FAILED"} : left = "FAILED"
      OBVIOUS
    <2> QED
      BY <2>1, FailingKeepsTheSource DEF DeadLetter, IngestionInv
  <1> QED
    BY <1>1, <1>2, NoRunMoves, FaultIsCounted, QuietStepGoesOn DEF DeadLetter, IngestionInv

\* A heartbeat that ages touches only the job of its attempt.
LEMMA HeartbeatStep ==
  ASSUME IngestionInv, NEW g \in Generations, HeartbeatAges(g) PROVE IngestionInv'
  <1> DEFINE x == [job[g] EXCEPT !.fresh = FALSE]
  <1>1. job[g] \in Job /\ job[g].status = "RUNNING" /\ job[g].op # "NONE"
    BY DEF IngestionInv, JobOK, JobsFit, HeartbeatAges
  <1>2. x \in Job /\ x.op = job[g].op /\ x.status = "RUNNING" /\ x.fresh = FALSE
    BY <1>1 DEF Job
  <1>3. job' = [job EXCEPT ![g] = x]
    BY DEF HeartbeatAges, IngestionInv, JobOK
  <1> HIDE DEF x
  <1>4. JobsGoOn
    BY <1>1, <1>2, <1>3, OneJobGoesOn DEF IngestionInv
  <1>5. faults' \in 0..MaxFaults
    BY FaultIsCounted DEF HeartbeatAges, IngestionInv
  <1> QED
    BY <1>4, <1>5, NoSourceMoves, NoRunMoves, QuietStepGoesOn DEF HeartbeatAges, IngestionInv

\* fenceTimedOutKnowledgeJob ends the attempt of a job under the worker's feet.
LEMMA TimeOutStep ==
  ASSUME IngestionInv, NEW w \in Workers, TimeOut(w) PROVE IngestionInv'
  <1>1. run[w].at # "idle"
    BY DEF TimeOut, Working
  <1>2. JobsGoOn /\ SourceGoesOn
    <2>1. CASE job[run[w].gen].status = "RUNNING"
      <3>1. PICK status \in JobStatus : status = "RETRY_SCHEDULED"
        BY DEF JobStatus
      <3>2. PICK left \in {"SYNCING", "FAILED"} : left = "SYNCING"
        OBVIOUS
      <3>3. JobBecomes(run[w].gen, status) /\ SourceFails(run[w].gen, left)
        BY <2>1, <3>1, <3>2 DEF TimeOut
      <3>4. JobsGoOn
        BY <1>1, <3>1, <3>3, AttemptFacts, JobGetsStatus DEF IngestionInv
      <3>5. SourceGoesOn
        BY <1>1, <3>3, AttemptFacts, FailingKeepsTheSource DEF IngestionInv
      <3> QED
        BY <3>4, <3>5
    <2>2. CASE job[run[w].gen].status # "RUNNING"
      BY <2>2, NoJobMoves, NoSourceMoves DEF TimeOut, IngestionInv
    <2> QED
      BY <2>1, <2>2
  <1>3. RunsGoOn /\ NothingCleaned
    <2> DEFINE x == [run[w] EXCEPT !.aborted = TRUE]
    <2>1. x \in Run /\ x.at = run[w].at /\ x.gen = run[w].gen /\ x.permission = run[w].permission
          /\ x.rows = run[w].rows
      BY <1>1, AttemptFacts DEF Run
    <2>2. run' = [run EXCEPT ![w] = x] /\ run \in [Workers -> Run]
      BY DEF TimeOut, IngestionInv, RunOK
    <2> HIDE DEF x
    <2>3. \A v \in Workers : run'[v] = IF v = w THEN x ELSE run[v]
      BY <2>2
    <2>4. NothingCleaned
      BY <2>1, <2>3 DEF NothingCleaned
    <2>5. Continues(x, run[w])
      BY <1>1, <2>1 DEF Continues, IngestionInv, RunsFit, AttemptFits
    <2> QED
      BY <2>1, <2>2, <2>4, <2>5, OneRunGoesOn DEF IngestionInv
  <1> QED
    BY <1>2, <1>3, FaultIsCounted, QuietStepGoesOn DEF TimeOut

\* Fetching goes on, to a step whose other changes do not matter here.
LEMMA Fetches ==
  ASSUME IngestionInv, NEW w \in Workers, run[w].at \in Fetching,
         NEW x \in Run, run' = [run EXCEPT ![w] = x], x.at \in Fetching, x.gen = run[w].gen,
         x.permission = run[w].permission
  PROVE  RunsGoOn /\ NothingCleaned
  <1>1. Continues(x, run[w]) /\ x.at \notin AtCompletion
    BY DEF Continues, Fetching, AtCompletion
  <1> QED
    BY <1>1, OneRunGoesOn DEF IngestionInv

\* prepareWebsite fetches content under the permissions of the attempt.
LEMMA PrepareStep ==
  ASSUME IngestionInv, NEW w \in Workers, NEW c \in Contents, Prepare(w, c) PROVE IngestionInv'
  <1>1. run[w].at = "prepare" /\ run[w].at # "idle" /\ run[w].at \in Fetching
    BY DEF Prepare, Fetching
  <1>2. CASE Current(w)
    <2> DEFINE x == [run[w] EXCEPT !.at = "compare", !.content = c]
    <2>0. "compare" \in Step /\ "compare" \in Fetching
      BY DEF Step, Fetching
    <2>1. x \in Run /\ x.at \in Fetching /\ x.gen = run[w].gen /\ x.permission = run[w].permission
      BY <1>1, <2>0, AttemptFacts, ZenonT(60) DEF Run
    <2>2. run' = [run EXCEPT ![w] = x]
      BY <1>2 DEF Prepare, IngestionInv, RunOK
    <2> HIDE DEF x
    <2>3. RunsGoOn /\ NothingCleaned
      BY <1>1, <2>1, <2>2, Fetches
    <2>4. JobsGoOn
      BY <1>1, <1>2, AttemptFacts, JobIsAlive DEF Prepare, Current, IngestionInv
    <2> QED
      BY <2>3, <2>4, NoSourceMoves, QuietStepGoesOn DEF Prepare, IngestionInv
  <1>3. CASE ~Current(w)
    BY <1>1, <1>3, RaisingStale, RunStep DEF Prepare, IngestionInv
  <1> QED
    BY <1>2, <1>3

\* setStage before the objects: the attempt goes on when it is current.
LEMMA FencePutStep ==
  ASSUME IngestionInv, NEW w \in Workers, FencePut(w) PROVE IngestionInv'
  <1>1. run[w].at = "put" /\ run[w].at # "idle" /\ run[w].at \in Fetching
    BY DEF FencePut, Fetching
  <1>2. CASE Current(w)
    <2>0. PICK at \in Fetching : at = "write"
      BY DEF Fetching
    <2> DEFINE x == [run[w] EXCEPT !.at = at]
    <2>1. at \in Step
      BY DEF Step, Fetching
    <2>2. x \in Run /\ x.at \in Fetching /\ x.gen = run[w].gen /\ x.permission = run[w].permission
      BY <1>1, <2>1, AttemptFacts DEF Run
    <2>3. run' = [run EXCEPT ![w] = x]
      BY <1>2, <2>0 DEF FencePut, GoTo, IngestionInv, RunOK
    <2> HIDE DEF x
    <2>4. RunsGoOn /\ NothingCleaned
      BY <1>1, <2>2, <2>3, Fetches
    <2>5. JobsGoOn
      BY <1>1, <1>2, AttemptFacts, JobIsAlive DEF FencePut, Current, IngestionInv
    <2> QED
      BY <2>4, <2>5, NoSourceMoves, QuietStepGoesOn DEF FencePut, IngestionInv
  <1>3. CASE ~Current(w)
    BY <1>1, <1>3, RaisingStale, RunStep DEF FencePut, IngestionInv
  <1> QED
    BY <1>2, <1>3

\* putOrVerify: the objects are no part of the invariant.
LEMMA PutStep ==
  ASSUME IngestionInv, NEW w \in Workers, Put(w) PROVE IngestionInv'
  <1>1. run[w].at \in Fetching /\ run[w].at # "idle"
    BY DEF Put, Fetching
  <1>0. PICK at \in Fetching : at = "persist"
    BY DEF Fetching
  <1> DEFINE created == Key(w) \notin stored
             x == [run[w] EXCEPT !.at = at, !.created = created]
  <1>2. at \in Step /\ created \in BOOLEAN
    BY DEF Step, Fetching
  <1>3. run' = [run EXCEPT ![w] = x]
    BY <1>0 DEF Put, IngestionInv, RunOK
  <1> HIDE DEF created
  <1>4. x \in Run /\ x.at \in Fetching /\ x.gen = run[w].gen /\ x.permission = run[w].permission
    BY <1>1, <1>2, AttemptFacts, ZenonT(60) DEF Run
  <1> HIDE DEF x
  <1>5. RunsGoOn /\ NothingCleaned
    BY <1>1, <1>3, <1>4, Fetches
  <1> QED
    BY <1>5, RunStep DEF Put, IngestionInv

\* Objects that nobody references are dropped; the attempt then fails or lists its rows.
LEMMA DropStep ==
  ASSUME IngestionInv, NEW w \in Workers, Drop(w) PROVE IngestionInv'
  <1>1. run[w].at # "idle"
    BY DEF Drop
  <1> DEFINE at == IF run[w].error = "none" THEN "list" ELSE "fail"
             x == [run[w] EXCEPT !.created = FALSE, !.at = at]
  <1>2. at \in Step /\ at \in {"list", "fail"}
    BY DEF Step
  <1>3. run' = [run EXCEPT ![w] = x]
    BY DEF Drop, IngestionInv, RunOK
  <1> HIDE DEF at
  <1>4. x \in Run /\ x.at = at /\ x.gen = run[w].gen /\ x.permission = run[w].permission
    BY <1>1, <1>2, AttemptFacts, ZenonT(60) DEF Run
  <1> HIDE DEF x
  <1>5. Continues(x, run[w]) /\ x.at \notin AtCompletion
    BY <1>1, <1>2, <1>4 DEF Continues, Fetching, AtCompletion
  <1>6. RunsGoOn /\ NothingCleaned
    BY <1>3, <1>4, <1>5, OneRunGoesOn DEF IngestionInv
  <1> QED
    BY <1>6, RunStep DEF Drop, IngestionInv

\* The settled source of an attempt that has found nothing new.
LEMMA SettledGoesOn ==
  ASSUME IngestionInv, SettleUnchanged, source.status \notin Gone PROVE SourceGoesOn
  <1>1. DraftStatus \in {"NEEDS_REVIEW", "READY", "SYNCING"}
    BY DEF DraftStatus
  <1> HIDE DEF DraftStatus
  <1> QED
    BY <1>1 DEF SettleUnchanged, IngestionInv, SourceOK, SourceGoesOn, SourceStatus, Gone

\* An attempt that fetches for the source's generation: the source is not being deleted.
LEMMA FetchingIsNotGone ==
  ASSUME IngestionInv, NEW w \in Workers, run[w].at \in Fetching \cup {"reconcile"}, Fenced(w)
  PROVE  source.status \notin Gone /\ run[w].permission = source.permission
  <1>1. run[w].at # "idle"
    BY DEF Fetching
  <1>2. run[w].gen = source.generation /\ job[run[w].gen].op # "DELETE"
    BY <1>1 DEF Fenced, IngestionInv, RunsFit, AttemptFits, Ingests
  <1> QED
    BY <1>1, <1>2 DEF IngestionInv, JobsFit, RunsFit, AttemptFits

\* noChangeWebsite settles the source or goes on to the objects.
LEMMA CompareStep ==
  ASSUME IngestionInv, NEW w \in Workers, Compare(w) PROVE IngestionInv'
  <1>1. run[w].at = "compare" /\ run[w].at # "idle" /\ run[w].at \in Fetching
    BY DEF Compare, Fetching
  <1>2. CASE ~Fenced(w) /\ Raise(w, "stale") /\ UNCHANGED source
    BY <1>1, <1>2, RaisingStale, RunStep DEF Compare, IngestionInv
  <1>3. CASE Fenced(w) /\ Unchanged(w) /\ SettleUnchanged /\ GoTo(w, "list")
    <2>1. SourceGoesOn
      BY <1>1, <1>3, FetchingIsNotGone, SettledGoesOn
    <2>2. RunsGoOn /\ NothingCleaned
      BY <1>1, <1>3, GoingFreely
    <2> QED
      BY <2>1, <2>2, NoJobMoves, QuietStepGoesOn DEF Compare, IngestionInv
  <1>4. CASE Fenced(w) /\ ~Unchanged(w) /\ UNCHANGED source /\ GoTo(w, "put")
    <2>0. PICK at \in Fetching : at = "put"
      BY DEF Fetching
    <2>1. at \in Step /\ at \notin {"reconcile", "delete", "clean", "finish"} /\ at \notin AtCompletion
      BY <2>0 DEF Step, AtCompletion
    <2>2. RunsGoOn /\ NothingCleaned
      BY <1>1, <1>4, <2>0, <2>1, Going DEF IngestionInv
    <2> QED
      BY <2>2, <1>4, RunStep DEF Compare, IngestionInv
  <1> QED
    BY <1>2, <1>3, <1>4 DEF Compare

\* The rows of the generation are listed.
LEMMA ListRowsStep ==
  ASSUME IngestionInv, NEW w \in Workers, ListRows(w) PROVE IngestionInv'
  <1>1. run[w].at # "idle"
    BY DEF ListRows
  <1>2. CASE run[w].at = "delete" /\ ~RowFence(w)
    BY <1>1, <1>2, RaisingStale, RunStep DEF ListRows, IngestionInv
  <1>3. CASE ~(run[w].at = "delete" /\ ~RowFence(w))
    <2> DEFINE open == {k \in ledger : Mine(w, k) /\ k.status # "COMPLETED"}
               rows == {<<l.target, l.sub>> : l \in open}
               x == [run[w] EXCEPT !.at = "rows", !.rows = rows]
    <2>1. run' = [run EXCEPT ![w] = x]
      BY <1>3 DEF ListRows, IngestionInv, RunOK
    <2>2. rows \subseteq Nat \X Deleted
      BY DEF IngestionInv, LedgerOK, LedgerRow
    <2>3. "rows" \in Step
      BY DEF Step
    <2> HIDE DEF rows
    <2>4. x \in Run /\ x.at = "rows" /\ x.gen = run[w].gen /\ x.permission = run[w].permission
      BY <1>1, <2>2, <2>3, AttemptFacts DEF Run
    <2> HIDE DEF x
    <2>5. Continues(x, run[w]) /\ x.at \notin AtCompletion
      BY <1>1, <2>4 DEF Continues, Fetching, AtCompletion
    <2>6. RunsGoOn /\ NothingCleaned
      BY <2>1, <2>4, <2>5, OneRunGoesOn DEF IngestionInv
    <2> QED
      BY <2>6, RunStep DEF ListRows, IngestionInv
  <1> QED
    BY <1>2, <1>3

\* The loop over the rows: fence, next row, or the end of the loop.
LEMMA NextRowStep ==
  ASSUME IngestionInv, NEW w \in Workers, NextRow(w) PROVE IngestionInv'
  <1>1. run[w].at # "idle"
    BY DEF NextRow
  <1>2. CASE run[w].rows = {} /\ Deleting(w)
    <2>1. PICK at \in Step : at = "finish"
      BY DEF Step
    <2>2. at \notin Fetching /\ at \notin {"reconcile", "delete", "clean"} /\ at \notin AtCompletion
      BY <2>1 DEF Fetching, AtCompletion
    <2>3. RunsGoOn /\ NothingCleaned
      BY <1>1, <1>2, <2>1, <2>2, Going DEF NextRow, Deleting, IngestionInv
    <2> QED
      BY <2>3, RunStep DEF NextRow, IngestionInv
  <1>3. CASE run[w].rows = {} /\ ~Deleting(w)
    BY <1>1, <1>3, GoingFreely, RunStep DEF NextRow, IngestionInv
  <1>4. CASE run[w].rows # {} /\ RowFence(w)
    BY <1>1, <1>4, GoingFreely, RunStep DEF NextRow, IngestionInv
  <1>5. CASE run[w].rows # {} /\ ~RowFence(w)
    BY <1>1, <1>5, RaisingStale, RunStep DEF NextRow, IngestionInv
  <1> QED
    BY <1>2, <1>3, <1>4, <1>5

\* The fence after the work of a row: a run that fails it fails the row.
LEMMA FenceCleanedStep ==
  ASSUME IngestionInv, NEW w \in Workers, FenceCleaned(w) PROVE IngestionInv'
  <1>1. run[w].at = "cleaned" /\ run[w].at # "idle"
    BY DEF FenceCleaned
  <1>2. CASE RowFence(w)
    <2> DEFINE x == [run[w] EXCEPT !.at = "completeRow"]
    <2>1. "completeRow" \in Step
      BY DEF Step
    <2>2. x \in Run /\ x.at = "completeRow" /\ x.gen = run[w].gen /\ x.permission = run[w].permission
          /\ x.rows = run[w].rows
      BY <1>1, <2>1, AttemptFacts DEF Run
    <2>3. run' = [run EXCEPT ![w] = x]
      BY <1>2 DEF FenceCleaned, IngestionInv, RunOK
    <2> HIDE DEF x
    <2>4. Continues(x, run[w]) /\ run[w].at \in AtCompletion
      BY <1>1, <2>2 DEF Continues, Fetching, AtCompletion
    <2>5. RunsGoOn /\ NothingCleaned
      BY <2>2, <2>3, <2>4, OneRunGoesOn DEF IngestionInv
    <2> QED
      BY <2>5, RunStep DEF FenceCleaned, IngestionInv
  <1>3. CASE ~RowFence(w)
    <2>0. PICK e \in {"stale", "retryable", "terminal"} : e = "stale"
      OBVIOUS
    <2>1. RunsGoOn /\ NothingCleaned
      BY <1>1, <1>3, <2>0, FailingTheRow DEF FenceCleaned, IngestionInv
    <2> QED
      BY <2>1, RunStep DEF FenceCleaned, IngestionInv
  <1> QED
    BY <1>2, <1>3

\* Whatever throws: the attempt fails, or its row first.
LEMMA ThrowStep ==
  ASSUME IngestionInv, NEW w \in Workers, Throw(w) PROVE IngestionInv'
  <1>1. run[w].at # "idle"
    BY DEF Throw, Working
  <1>2. faults' \in 0..MaxFaults
    BY FaultIsCounted DEF Throw, IngestionInv
  <1>3. PICK e \in {"stale", "retryable", "terminal"} :
           \/ run' = [run EXCEPT ![w].at = "failRow", ![w].error = e]
           \/ Raise(w, e)
    BY DEF Throw
  <1>4. RunsGoOn /\ NothingCleaned
    BY <1>1, <1>3, Raising, FailingTheRow DEF IngestionInv
  <1> QED
    BY <1>2, <1>4, RunStep DEF Throw

-----------------------------------------------------------------------------
(* The requests.                                                           *)

\* A new row is pending.
LEMMA NewRows ==
  ASSUME NEW g \in Generations, NEW t \in Nat, NEW subs \in SUBSET Deleted
  PROVE  /\ Rows(g, t, subs) \subseteq LedgerRow
         /\ \A l \in Rows(g, t, subs) : /\ l.gen = g /\ l.target = t /\ l.sub \in subs
                                        /\ l.status = "PENDING"
         /\ \A s \in subs : \E l \in Rows(g, t, subs) : l.sub = s
  <1> DEFINE Row(s) == [gen |-> g, target |-> t, sub |-> s, status |-> "PENDING", by |-> None]
  <1>1. \A s \in subs : Row(s) \in Rows(g, t, subs)
    BY DEF Rows
  <1>2. \A l \in Rows(g, t, subs) : \E s \in subs : l = Row(s)
    BY DEF Rows
  <1>3. \A s \in subs : /\ Row(s).gen = g /\ Row(s).target = t /\ Row(s).sub = s
                        /\ Row(s).status = "PENDING" /\ Row(s) \in LedgerRow
    BY DEF LedgerRow, RowStatus
  <1> HIDE DEF Row
  <1> QED
    BY <1>1, <1>2, <1>3

\* The subsystems of a reconciliation are among those of a deletion.
LEMMA Reconciling == Reconciled \in SUBSET Deleted /\ Deleted \in SUBSET Deleted
                     /\ "VECTOR_INDEX" \in Reconciled /\ \A s \in Reconciled : s = "VECTOR_INDEX"
  BY DEF Reconciled, Deleted

\* The next generation and its job.
LEMMA Requesting ==
  ASSUME IngestionInv, Mutable, SourceOK', source'.generation = Next1,
         \/ job' = job /\ source'.status \notin Gone
         \/ \E x \in Job : /\ job' = [job EXCEPT ![Next1] = x]
                           /\ x.op # "NONE" /\ x.status # "NONE" /\ x.fresh = FALSE
                           /\ x.op = "DELETE" <=> source'.status \in Gone
                           /\ ~(source'.deferred /\ source'.status = "NEEDS_REVIEW")
  PROVE  NewGeneration /\ JobOK' /\ JobsFit' /\ Next1 \in Generations
  <1>1. /\ source.generation \in Nat /\ Next1 \in Generations /\ Next1 = source.generation + 1
        /\ \A g \in Generations : g \in Nat
        /\ source.status \notin Gone
    BY DEF IngestionInv, SourceOK, Generations, Mutable, Next1
  <1>2. job \in [Generations -> Job] /\ job[Next1] = NoJob
    BY <1>1 DEF IngestionInv, JobOK, JobsFit
  <1>3. \A g \in Generations : job[g].op # "DELETE"
    BY <1>1 DEF IngestionInv, JobsFit
  <1>4. CASE job' = job /\ source'.status \notin Gone
    <2>1. NewGeneration /\ JobOK'
      BY <1>1, <1>4 DEF NewGeneration, IngestionInv, JobOK
    <2>2. JobsFit'
      BY <1>1, <1>2, <1>3, <1>4 DEF IngestionInv, JobsFit, NoJob
    <2> QED
      BY <1>1, <2>1, <2>2
  <1>5. ASSUME NEW x \in Job, job' = [job EXCEPT ![Next1] = x],
               x.op # "NONE", x.status # "NONE", x.fresh = FALSE,
               x.op = "DELETE" <=> source'.status \in Gone,
               ~(source'.deferred /\ source'.status = "NEEDS_REVIEW")
        PROVE  NewGeneration /\ JobOK' /\ JobsFit'
    <2>0. \A g \in Generations : job'[g] = IF g = Next1 THEN x ELSE job[g]
      BY <1>2, <1>5
    <2>1. NewGeneration /\ JobOK'
      BY <1>1, <1>2, <1>5, <2>0 DEF NewGeneration, IngestionInv, JobOK
    <2>2. JobsFit'
      BY <1>1, <1>2, <1>3, <1>5, <2>0 DEF IngestionInv, JobsFit
    <2> QED
      BY <2>1, <2>2
  <1> QED
    BY <1>1, <1>4, <1>5

\* A request keeps the invariant when it lists what it denies, and everything when it
\* asks for the deletion.
LEMMA RequestStep ==
  ASSUME IngestionInv, NewGeneration, SourceOK', JobOK', JobsFit', DocumentOK', RevisionMoves,
         Admission, RowsGoOn, OpenRowsGoOn, DenialsAreListed, UNCHANGED <<points, run, faults>>,
         source'.status # "DELETED",
         source'.status \in Gone =>
            /\ \A s \in Deleted : \E l \in ledger' : l.gen = source'.generation /\ l.sub = s
            /\ \A l \in ledger' : l.gen = source'.generation => l.status = "PENDING"
  PROVE  IngestionInv'
  <1>1. RunOK' /\ RunsFit'
    BY NoRunMoves, RunsStayFit DEF IngestionInv
  <1>2. RevisionOK' /\ Len(revision) \in Nat /\ Len(revision') \in Nat
    BY RevisionFields, LenProperties DEF RevisionMoves, RevisionOK, IngestionInv
  <1>3. LedgerOK' /\ LedgerFits' /\ RowsAreOfDenied'
    BY RowsStayFit DEF IngestionInv
  <1>4. OnlyAdmittedContentIsLive'
    BY AdmittedStays DEF IngestionInv
  <1>5. PointsAreIndexed'
    BY <1>2 DEF IngestionInv, PointsAreIndexed, RevisionMoves, Revisions
  <1>6. DeniedIsCovered'
    BY CoverStays DEF IngestionInv
  <1>7. DeletionIsProven' /\ DeletedIsErased'
    <2>1. \A l \in ledger' : l.gen = source'.generation /\ source'.status \in Gone =>
             l.status # "COMPLETED" /\ ~IsCleaned(l)'
      BY PendingIsNotCleaned
    <2> QED
      BY <2>1 DEF DeletionIsProven, DeletedIsErased
  <1> QED
    BY <1>1, <1>2, <1>3, <1>4, <1>5, <1>6, <1>7 DEF IngestionInv

\* The rows of a request are added to the ledger; perhaps they replace open rows of the
\* source.
LEMMA RowsAdded ==
  ASSUME IngestionInv, NEW g \in Generations, NEW t \in Nat, NEW subs \in SUBSET Deleted,
         NEW moved \in SUBSET ledger, ledger' = (ledger \ moved) \cup Rows(g, t, subs),
         moved # {} => t = Source /\ "VECTOR_INDEX" \in subs,
         UNCHANGED run, source'.generation = g,
         source'.status \in Gone => t = Source,
         \A s \in subs : s # "VECTOR_INDEX" => source'.status \in Gone,
         t # Source => t \in Revisions /\ ~revision'[t].live
  PROVE  /\ RowsGoOn /\ OpenRowsGoOn
         /\ \A s \in subs : \E l \in ledger' : l.gen = g /\ l.sub = s
         /\ "VECTOR_INDEX" \in subs =>
               \E k \in ledger' : k.sub = "VECTOR_INDEX" /\ k.status = "PENDING" /\ k.target = t
  <1>1. /\ Rows(g, t, subs) \subseteq LedgerRow /\ Rows(g, t, subs) \subseteq ledger'
        /\ \A l \in Rows(g, t, subs) : /\ l.gen = g /\ l.target = t /\ l.sub \in subs
                                       /\ l.status = "PENDING"
        /\ \A s \in subs : \E l \in Rows(g, t, subs) : l.sub = s
    BY NewRows
  <1>2. LedgerOK'
    BY <1>1 DEF IngestionInv, LedgerOK
  <1>3. RowsGoOn
    <2> SUFFICES ASSUME NEW l \in ledger'
                 PROVE  \/ \E k \in ledger : l.gen = k.gen /\ l.target = k.target /\ l.sub = k.sub
                        \/ /\ l.gen = source'.generation
                           /\ l.sub # "VECTOR_INDEX" => source'.status \in Gone
                           /\ source'.status \in Gone => l.target = Source
                           /\ l.target # Source => l.target \in Revisions /\ ~revision'[l.target].live
      BY <1>2 DEF RowsGoOn
    <2>1. CASE l \in ledger
      BY <2>1
    <2>2. CASE l \in Rows(g, t, subs)
      BY <1>1, <2>2
    <2> QED
      BY <2>1, <2>2
  <1>4. \A l : IsCleaned(l)' <=> IsCleaned(l)
    BY DEF IsCleaned, Claims
  <1>5. "VECTOR_INDEX" \in subs =>
           \E k \in ledger' : k.sub = "VECTOR_INDEX" /\ k.status = "PENDING" /\ k.target = t
    BY <1>1
  <1>6. OpenRowsGoOn
    <2> SUFFICES ASSUME NEW l \in ledger, l.sub = "VECTOR_INDEX", l.status # "COMPLETED",
                        ~IsCleaned(l)
                 PROVE  \E k \in ledger' : /\ k.sub = "VECTOR_INDEX" /\ k.status # "COMPLETED"
                                           /\ k.target \in {Source, l.target} /\ ~IsCleaned(k)'
      BY DEF OpenRowsGoOn
    <2>1. CASE l \in moved
      BY <1>5, <2>1, PendingIsNotCleaned
    <2>2. CASE l \notin moved
      BY <1>4, <2>2
    <2> QED
      BY <2>1, <2>2
  <1> QED
    BY <1>1, <1>3, <1>5, <1>6

\* Everything is denied.
LEMMA DenyingAll ==
  ASSUME IngestionInv, revision' = Denied(Revisions)
  PROVE  RevisionMoves /\ Admission /\ Len(revision') = Len(revision)
  <1>1. /\ revision' \in Seq(Revision) /\ Len(revision') = Len(revision) /\ Len(revision) \in Nat
        /\ \A r \in Revisions : /\ revision'[r].live = FALSE
                                /\ revision'[r].fingerprint = revision[r].fingerprint
                                /\ revision'[r].permission = revision[r].permission
                                /\ revision'[r].indexed = revision[r].indexed
    BY DeniedRevisions, RevisionFields DEF IngestionInv
  <1> QED
    BY <1>1 DEF RevisionMoves, Admission, Revisions

\* The numbers of a request.
LEMMA NextGeneration ==
  ASSUME IngestionInv, Mutable
  PROVE  /\ Next1 \in Generations /\ source.generation \in Nat /\ Next1 = source.generation + 1
         /\ source.permission + 1 \in Nat
  BY IngestionAssumption DEF IngestionInv, SourceOK, Generations, Mutable, Next1

\* The source's rows of a reconciliation are added.
LEMMA SourceRowsAdded ==
  ASSUME IngestionInv, NEW g \in Generations, NEW moved \in SUBSET ledger,
         ledger' = (ledger \ moved) \cup Rows(g, Source, Reconciled),
         UNCHANGED run, source'.generation = g
  PROVE  /\ RowsGoOn /\ OpenRowsGoOn
         /\ \E k \in ledger' : k.sub = "VECTOR_INDEX" /\ k.status = "PENDING" /\ k.target = Source
  <1>1. Source \in Nat
    BY DEF Source
  <1> QED
    BY <1>1, Reconciling, RowsAdded

\* A document goes on, with a draft and a published revision that it had.
LEMMA DocumentStays ==
  ASSUME IngestionInv, RevisionMoves,
         document'.status \in DocumentState,
         document' = [status |-> document'.status, draft |-> document'.draft,
                      published |-> document'.published],
         document'.draft \in {0, document.draft},
         document'.published \in {0, document.draft, document.published}
  PROVE  DocumentOK'
  <1>1. Len(revision) \in Nat /\ Len(revision') \in Nat /\ Len(revision') >= Len(revision)
    BY RevisionFields, LenProperties DEF IngestionInv, RevisionMoves
  <1>2. {document.draft, document.published} \subseteq Revisions \cup {0}
        /\ document.draft \in Nat /\ document.published \in Nat
    BY DEF IngestionInv, DocumentOK
  <1>3. {document'.draft, document'.published} \subseteq Revisions' \cup {0}
        /\ document'.draft \in Nat /\ document'.published \in Nat
    BY <1>1, <1>2 DEF Revisions
  <1> QED
    BY <1>3 DEF DocumentOK

\* An untouched document keeps naming revisions.
LEMMA SameDocument ==
  ASSUME IngestionInv, RevisionMoves, UNCHANGED document PROVE DocumentOK'
  <1>1. document = [status |-> document.status, draft |-> document.draft,
                    published |-> document.published]
        /\ document.status \in DocumentState
    BY DEF IngestionInv, DocumentOK
  <1> QED
    BY <1>1, DocumentStays

\* updateSource: changed permissions deny everything and list it on the ledger.
LEMMA UpdateStep == ASSUME IngestionInv, Update PROVE IngestionInv'
  <1> DEFINE deferred == source.status = "PAUSED" \/ source.deferred
  <1>0. Mutable /\ source.permission + 1 \in Nat /\ Next1 \in Generations
    BY NextGeneration DEF Update
  <1>1. source' = [status |-> IF deferred THEN "NEEDS_REVIEW" ELSE "SYNCING",
                   generation |-> Next1, permission |-> source.permission + 1, deferred |-> deferred]
    BY DEF Update
  <1>2. source'.generation = Next1 /\ source'.status \notin Gone /\ source'.deferred = deferred
        /\ (~deferred => source'.status = "SYNCING") /\ source'.status # "DELETED"
    BY <1>1 DEF Gone
  <1>3. SourceOK'
    BY <1>0, <1>1 DEF SourceOK, SourceStatus
  <1>4. NewGeneration /\ JobOK' /\ JobsFit'
    <2>1. CASE deferred
      BY <1>0, <1>2, <1>3, <2>1, Requesting DEF Update
    <2>2. CASE ~deferred
      <3> DEFINE x == Queued("RECONCILE", 0)
      <3>1. x \in Job /\ x.op = "RECONCILE" /\ x.status = "QUEUED" /\ x.fresh = FALSE
        BY DEF Queued, Job, JobStatus
      <3>2. job' = [job EXCEPT ![Next1] = x]
        BY <2>2 DEF Update
      <3> HIDE DEF x
      <3> QED
        BY <1>0, <1>2, <1>3, <2>2, <3>1, <3>2, Requesting
    <2> QED
      BY <2>1, <2>2
  <1>5. RevisionMoves /\ Admission
    BY DenyingAll DEF Update
  <1>6. PICK moved \in SUBSET ledger : ledger' = (ledger \ moved) \cup Rows(Next1, Source, Reconciled)
    BY DEF Update, MovedRows
  <1>7. RowsGoOn /\ OpenRowsGoOn /\ \E k \in ledger' : k.sub = "VECTOR_INDEX" /\ k.status = "PENDING"
                                                       /\ k.target = Source
    BY <1>0, <1>2, <1>6, SourceRowsAdded DEF Update
  <1>8. DenialsAreListed
    BY <1>7 DEF DenialsAreListed
  <1> QED
    BY <1>2, <1>3, <1>4, <1>5, <1>7, <1>8, SameDocument, RequestStep DEF Update

\* queuePermissionReconciliation: the same, under permissions that a person verified.
LEMMA VerifyPermissionStep == ASSUME IngestionInv, VerifyPermission PROVE IngestionInv'
  <1>0. Mutable /\ source.permission + 1 \in Nat /\ Next1 \in Generations
    BY NextGeneration DEF VerifyPermission
  <1>1. source' = [status |-> "SYNCING", generation |-> Next1,
                   permission |-> source.permission + 1, deferred |-> FALSE]
    BY DEF VerifyPermission
  <1>2. source'.generation = Next1 /\ source'.status \notin Gone /\ source'.status = "SYNCING"
        /\ source'.status # "DELETED"
    BY <1>1 DEF Gone
  <1>3. SourceOK'
    BY <1>0, <1>1 DEF SourceOK, SourceStatus
  <1>4. NewGeneration /\ JobOK' /\ JobsFit'
    <2> DEFINE x == [Queued("RECONCILE", 0) EXCEPT !.exact = FALSE]
    <2>1. x \in Job /\ x.op = "RECONCILE" /\ x.status = "QUEUED" /\ x.fresh = FALSE
      BY DEF Queued, Job, JobStatus
    <2>2. job' = [job EXCEPT ![Next1] = x]
      BY DEF VerifyPermission
    <2> HIDE DEF x
    <2> QED
      BY <1>0, <1>2, <1>3, <2>1, <2>2, Requesting
  <1>5. RevisionMoves /\ Admission
    BY DenyingAll DEF VerifyPermission
  <1>6. PICK moved \in SUBSET ledger :
           ledger' = (ledger \ moved) \cup Rows(Next1, Source, Reconciled) /\ moved = {}
    BY DEF VerifyPermission
  <1>7. RowsGoOn /\ OpenRowsGoOn /\ \E k \in ledger' : k.sub = "VECTOR_INDEX" /\ k.status = "PENDING"
                                                       /\ k.target = Source
    BY <1>0, <1>2, <1>6, SourceRowsAdded DEF VerifyPermission
  <1>8. DenialsAreListed
    BY <1>7 DEF DenialsAreListed
  <1> QED
    BY <1>2, <1>3, <1>4, <1>5, <1>7, <1>8, SameDocument, RequestStep DEF VerifyPermission

\* queueSourceAction: a new generation that denies nothing.
LEMMA SyncStep == ASSUME IngestionInv, Sync PROVE IngestionInv'
  <1>0. Mutable /\ Next1 \in Generations
    BY NextGeneration DEF Sync
  <1>1. source' = [source EXCEPT !.status = "SYNCING", !.generation = Next1]
    BY DEF Sync
  <1>2. /\ source'.generation = Next1 /\ source'.status = "SYNCING" /\ source'.status \notin Gone
        /\ source'.permission = source.permission /\ SourceOK'
    BY <1>0, <1>1 DEF IngestionInv, SourceOK, SourceStatus, Gone
  <1>3. NewGeneration /\ JobOK' /\ JobsFit'
    <2> DEFINE x == Queued("SYNC", 0)
    <2>1. x \in Job /\ x.op = "SYNC" /\ x.status = "QUEUED" /\ x.fresh = FALSE
      BY DEF Queued, Job, JobStatus
    <2>2. job' = [job EXCEPT ![Next1] = x]
      BY DEF Sync
    <2> HIDE DEF x
    <2> QED
      BY <1>0, <1>2, <2>1, <2>2, Requesting
  <1>4. RevisionMoves
    BY RevisionsStay DEF IngestionInv, Sync
  <1>5. Admission /\ DenialsAreListed
    BY <1>2 DEF Admission, DenialsAreListed, Sync, Revisions
  <1>6. RowsGoOn /\ OpenRowsGoOn
    BY LedgerStays, NoRunMoves, OpenRowsStay DEF Sync, IngestionInv
  <1> QED
    BY <1>2, <1>3, <1>4, <1>5, <1>6, SameDocument, RequestStep DEF Sync

\* excludeRevision denies one revision and lists that revision.
LEMMA ExcludeRevisionStep ==
  ASSUME IngestionInv, NEW r \in Revisions, ExcludeRevision(r) PROVE IngestionInv'
  <1>0. Mutable /\ Next1 \in Generations /\ r \in Nat
    BY NextGeneration DEF ExcludeRevision, Revisions
  <1>1. source' = [source EXCEPT !.status = "SYNCING", !.generation = Next1, !.deferred = FALSE]
    BY DEF ExcludeRevision
  <1>2. /\ source'.generation = Next1 /\ source'.status = "SYNCING" /\ source'.status \notin Gone
        /\ source'.permission = source.permission /\ SourceOK'
    BY <1>0, <1>1 DEF IngestionInv, SourceOK, SourceStatus, Gone
  <1>3. NewGeneration /\ JobOK' /\ JobsFit'
    <2> DEFINE x == Queued("RECONCILE", r)
    <2>1. x \in Job /\ x.op = "RECONCILE" /\ x.status = "QUEUED" /\ x.fresh = FALSE
      BY <1>0 DEF Queued, Job, JobStatus
    <2>2. job' = [job EXCEPT ![Next1] = x]
      BY DEF ExcludeRevision
    <2> HIDE DEF x
    <2> QED
      BY <1>0, <1>2, <2>1, <2>2, Requesting
  <1>4. /\ revision' \in Seq(Revision) /\ Len(revision') = Len(revision) /\ Len(revision) \in Nat
        /\ \A q \in Revisions : /\ revision'[q].live = (revision[q].live /\ q # r)
                                /\ revision'[q].fingerprint = revision[q].fingerprint
                                /\ revision'[q].permission = revision[q].permission
                                /\ revision'[q].indexed = revision[q].indexed
    <2> DEFINE d == Denied({r})
               x == [d[r] EXCEPT !.state = "REJECTED"]
    <2>1. /\ d \in Seq(Revision) /\ Len(d) = Len(revision)
          /\ \A q \in Revisions : /\ d[q] \in Revision
                                  /\ d[q].live = (revision[q].live /\ q # r)
                                  /\ d[q].fingerprint = revision[q].fingerprint
                                  /\ d[q].permission = revision[q].permission
                                  /\ d[q].indexed = revision[q].indexed
      BY DeniedRevisions DEF IngestionInv
    <2>2. revision' = [d EXCEPT ![r] = x]
      BY <2>1 DEF ExcludeRevision, Revisions
    <2> HIDE DEF d
    <2>3. /\ x \in Revision /\ x.live = d[r].live /\ x.fingerprint = d[r].fingerprint
          /\ x.permission = d[r].permission /\ x.indexed = d[r].indexed
      <3>1. PICK state \in RevisionState : state = "REJECTED"
        BY DEF RevisionState
      <3>2. PICK y \in Revision : y = d[r]
        BY <2>1
      <3>3. x = [y EXCEPT !.state = state]
        BY <3>1, <3>2
      <3> HIDE DEF x
      <3> QED
        BY <3>2, <3>3, RevisionInState
    <2> HIDE DEF x
    <2>4. \A q \in Revisions : revision'[q] = IF q = r THEN x ELSE d[q]
      BY <2>1, <2>2, <2>3, OneRevision DEF Revisions
    <2> QED
      BY <2>1, <2>2, <2>3, <2>4, OneRevision, RevisionFields DEF Revisions, IngestionInv
  <1>5. RevisionMoves /\ Admission
    <2>1. RevisionMoves
      <3>1. Len(revision') >= Len(revision)
        BY <1>4
      <3>2. \A q \in Revisions : revision'[q].live => revision[q].live
        BY <1>4
      <3> QED
        BY <1>4, <3>1, <3>2 DEF RevisionMoves
    <2>2. Admission
      BY <1>2, <1>4 DEF Admission, Revisions
    <2> QED
      BY <2>1, <2>2
  <1>6. DocumentOK'
    <2>1. document.status \in DocumentState
      BY DEF IngestionInv, DocumentOK
    <2> QED
      BY <1>5, <2>1, DocumentStays DEF ExcludeRevision
  <1>7. PICK moved \in SUBSET ledger :
           ledger' = (ledger \ moved) \cup Rows(Next1, r, Reconciled) /\ moved = {}
    BY DEF ExcludeRevision
  <1>8. RowsGoOn /\ OpenRowsGoOn /\ \E k \in ledger' : k.sub = "VECTOR_INDEX" /\ k.status = "PENDING"
                                                       /\ k.target = r
    <2>1. ~revision'[r].live /\ UNCHANGED run
      BY <1>4 DEF ExcludeRevision
    <2>2. \A s \in Reconciled : s # "VECTOR_INDEX" => source'.status \in Gone
      BY Reconciling
    <2>3. PICK subs \in SUBSET Deleted : subs = Reconciled /\ "VECTOR_INDEX" \in subs
      BY Reconciling DEF Reconciled
    <2>4. PICK t \in Nat : t = r
      BY <1>0
    <2>5. ledger' = (ledger \ moved) \cup Rows(Next1, t, subs) /\ moved = {}
      BY <1>7, <2>3, <2>4
    <2>6. \A s \in subs : s # "VECTOR_INDEX" => source'.status \in Gone
      BY <2>2, <2>3
    <2>7. RowsGoOn /\ OpenRowsGoOn
          /\ \E k \in ledger' : k.sub = "VECTOR_INDEX" /\ k.status = "PENDING" /\ k.target = t
      BY <1>0, <1>2, <2>1, <2>3, <2>4, <2>5, <2>6, RowsAdded, SMTT(30)
    <2> QED
      BY <2>4, <2>7
  <1>9. DenialsAreListed
    <2>1. points \subseteq Revisions
      BY DEF IngestionInv, PointsAreIndexed
    <2> QED
      BY <1>4, <1>8, <2>1 DEF DenialsAreListed
  <1> QED
    BY <1>2, <1>3, <1>5, <1>6, <1>8, <1>9, RequestStep DEF ExcludeRevision

\* deleteSource denies everything and lists every subsystem.
LEMMA DeleteSourceStep == ASSUME IngestionInv, DeleteSource PROVE IngestionInv'
  <1>0. Mutable /\ Next1 \in Generations /\ source.generation \in Nat /\ Next1 = source.generation + 1
    BY NextGeneration DEF DeleteSource
  <1>1. source' = [source EXCEPT !.status = "DELETING", !.generation = Next1]
    BY DEF DeleteSource
  <1>2. /\ source'.generation = Next1 /\ source'.status = "DELETING" /\ source'.status \in Gone
        /\ SourceOK'
    BY <1>0, <1>1 DEF IngestionInv, SourceOK, SourceStatus, Gone
  <1>3. NewGeneration /\ JobOK' /\ JobsFit'
    <2> DEFINE x == Queued("DELETE", 0)
    <2>1. x \in Job /\ x.op = "DELETE" /\ x.status = "QUEUED" /\ x.fresh = FALSE
      BY DEF Queued, Job, JobStatus
    <2>2. job' = [job EXCEPT ![Next1] = x]
      BY DEF DeleteSource
    <2> HIDE DEF x
    <2> QED
      BY <1>0, <1>2, <2>1, <2>2, Requesting
  <1>4. RevisionMoves /\ Admission
    BY DenyingAll DEF DeleteSource
  <1>5. DocumentOK'
    <2>1. document \in [status : DocumentState,
                        draft : Nat, published : Nat]
      BY DEF IngestionInv, DocumentOK
    <2>2. document' = [document EXCEPT !.status = IF document.status = "NONE" THEN "NONE"
                                                  ELSE "TOMBSTONED"]
      BY DEF DeleteSource
    <2> QED
      BY <1>4, <2>1, <2>2, DocumentStays
  <1>6. PICK moved \in SUBSET ledger :
           ledger' = (ledger \ moved) \cup Rows(Next1, Source, Deleted) /\ moved = {}
    BY DEF DeleteSource
  <1>7. /\ RowsGoOn /\ OpenRowsGoOn
        /\ \A s \in Deleted : \E l \in ledger' : l.gen = Next1 /\ l.sub = s
        /\ \E k \in ledger' : k.sub = "VECTOR_INDEX" /\ k.status = "PENDING" /\ k.target = Source
    <2>1. "VECTOR_INDEX" \in Deleted
      BY DEF Deleted
    <2>2. Source \in Nat /\ UNCHANGED run
      BY DEF Source, DeleteSource
    <2>3. PICK subs \in SUBSET Deleted : subs = Deleted
      OBVIOUS
    <2>4. PICK t \in Nat : t = Source
      BY <2>2
    <2>5. ledger' = (ledger \ moved) \cup Rows(Next1, t, subs) /\ "VECTOR_INDEX" \in subs
      BY <1>6, <2>1, <2>3, <2>4
    <2>6. \A s \in subs : s # "VECTOR_INDEX" => source'.status \in Gone
      BY <1>2
    <2>7. /\ RowsGoOn /\ OpenRowsGoOn
          /\ \A s \in subs : \E l \in ledger' : l.gen = Next1 /\ l.sub = s
          /\ \E k \in ledger' : k.sub = "VECTOR_INDEX" /\ k.status = "PENDING" /\ k.target = t
      BY <1>0, <1>2, <2>2, <2>4, <2>5, <2>6, RowsAdded, SMTT(30)
    <2> QED
      BY <2>3, <2>4, <2>7
  <1>8. DenialsAreListed
    BY <1>7 DEF DenialsAreListed
  <1>9. \A l \in ledger' : l.gen = Next1 => l.status = "PENDING"
    <2>1. \A l \in ledger : l.gen \in Nat /\ l.gen <= source.generation
      BY DEF IngestionInv, LedgerOK, LedgerRow, LedgerFits, Generations
    <2>2. \A l \in Rows(Next1, Source, Deleted) : l.status = "PENDING"
      BY DEF Rows
    <2> QED
      BY <1>0, <1>6, <2>1, <2>2
  <1> QED
    BY <1>2, <1>3, <1>4, <1>5, <1>7, <1>8, <1>9, RequestStep DEF DeleteSource

-----------------------------------------------------------------------------
(* Content.                                                                *)

\* A step that changes the content of a source that is not being deleted.
LEMMA ContentStep ==
  ASSUME IngestionInv, JobsGoOn, SourceGoesOn, RunsGoOn, NothingCleaned, source.status \notin Gone,
         DocumentOK', RevisionMoves, Admission, RowsGoOn, OpenRowsGoOn, DenialsAreListed,
         \A r \in points' : r \in points \/ (r \in 1..Len(revision') /\ revision'[r].live
                                                /\ revision'[r].indexed),
         faults' \in 0..MaxFaults
  PROVE  IngestionInv'
  <1>1. SourceOK' /\ JobOK' /\ JobsFit' /\ SameGeneration
    BY GoingOn DEF IngestionInv
  <1>2. RunOK' /\ RunsFit'
    BY <1>1, RunsStayFit DEF IngestionInv
  <1>3. /\ RevisionOK' /\ Len(revision) \in Nat /\ Len(revision') \in Nat
        /\ Len(revision') >= Len(revision)
    BY RevisionFields, LenProperties DEF RevisionMoves, RevisionOK, IngestionInv
  <1>4. LedgerOK' /\ LedgerFits' /\ RowsAreOfDenied'
    BY <1>1, RowsStayFit DEF IngestionInv
  <1>5. OnlyAdmittedContentIsLive'
    BY AdmittedStays DEF IngestionInv
  <1>6. PointsAreIndexed'
    BY <1>3 DEF IngestionInv, PointsAreIndexed, RevisionMoves, Revisions
  <1>7. DeniedIsCovered'
    BY CoverStays DEF IngestionInv
  <1>8. DeletionIsProven' /\ DeletedIsErased'
    BY <1>1 DEF DeletionIsProven, DeletedIsErased, SameGeneration, Gone
  <1> QED
    BY <1>1, <1>2, <1>3, <1>4, <1>5, <1>6, <1>7, <1>8 DEF IngestionInv

\* Revisions that nobody denies.
LEMMA NothingDenied ==
  ASSUME IngestionInv, \A r \in Revisions : revision'[r].live = revision[r].live
  PROVE  DenialsAreListed
  BY DEF DenialsAreListed, IngestionInv, PointsAreIndexed

\* One revision changes its state, and is perhaps indexed.
LEMMA OneStateChanges ==
  ASSUME IngestionInv, source.status \notin Gone, SourceGoesOn, NEW d \in Revisions, NEW x \in Revision,
         revision' = [revision EXCEPT ![d] = x], x.live = revision[d].live,
         x.fingerprint = revision[d].fingerprint, x.permission = revision[d].permission,
         revision[d].indexed => x.indexed
  PROVE  /\ RevisionMoves /\ Admission /\ DenialsAreListed
         /\ Len(revision') = Len(revision) /\ revision'[d] = x
  <1>1. /\ revision' \in Seq(Revision) /\ Len(revision') = Len(revision) /\ Len(revision) \in Nat
        /\ \A q \in Revisions : revision'[q] = IF q = d THEN x ELSE revision[q]
    BY OneRevision, RevisionFields DEF IngestionInv, RevisionOK, Revisions
  <1>2. Len(revision') >= Len(revision)
    BY <1>1
  <1>3. RevisionMoves
    BY <1>1, <1>2 DEF RevisionMoves
  <1>4. Admission
    BY <1>1 DEF Admission, SourceGoesOn, Revisions
  <1>5. DenialsAreListed
    BY <1>1, NothingDenied
  <1> QED
    BY <1>1, <1>3, <1>4, <1>5

\* The draft is a revision.
LEMMA DraftIsARevision ==
  ASSUME IngestionInv, document.draft # 0
  PROVE  document.draft \in Revisions /\ revision[document.draft] \in Revision
         /\ revision \in [Revisions -> Revision]
  BY RevisionFields DEF IngestionInv, DocumentOK

\* Points that no commit has acknowledged are nobody's business but their preparer's.
LEMMA UnacknowledgedStep ==
  ASSUME IngestionInv, Upsert \/ \E x \in upserted : Compensate(x) PROVE IngestionInv'
  <1>1. UNCHANGED <<source, job, document, revision, ledger, points, run, faults>>
    BY DEF Upsert, Compensate
  <1> QED
    BY <1>1, NoRunMoves, RunStep DEF IngestionInv

\* commitReadySnapshot acknowledges only points of live chunks of the draft.
LEMMA IndexStep == ASSUME IngestionInv, Index PROVE IngestionInv'
  <1> DEFINE d == document.draft
             state == IF revision[d].state = "CHUNKING" THEN "READY" ELSE revision[d].state
             x == [revision[d] EXCEPT !.indexed = TRUE, !.state = state]
  <1>1. d \in Revisions /\ revision[d] \in Revision /\ revision \in [Revisions -> Revision]
        /\ revision[d].live
    BY DraftIsARevision DEF Index, Preparable
  <1>2. source.status \in {"SYNCING", "READY", "PAUSED"} /\ source.status \notin Gone
    BY DEF Index, Preparable, Gone
  <1>3. SourceGoesOn
    <2>1. source' = [source EXCEPT !.status = IF source.status = "PAUSED" THEN source.status
                                              ELSE "READY"]
      BY DEF Index
    <2> QED
      BY <1>2, <2>1 DEF IngestionInv, SourceOK, SourceGoesOn, SourceStatus, Gone
  <1>4. revision' = [revision EXCEPT ![d] = x]
    BY <1>1 DEF Index
  <1>5. state \in RevisionState
    BY <1>1 DEF Revision, RevisionState
  <1>6. document' = [document EXCEPT !.status = "ACTIVE"] /\ points' = points \cup {d}
    BY DEF Index
  <1> HIDE DEF state
  <1>7. /\ x \in Revision /\ x.live = revision[d].live /\ x.fingerprint = revision[d].fingerprint
        /\ x.permission = revision[d].permission /\ x.indexed = TRUE
    BY <1>1, <1>5 DEF Revision
  <1> HIDE DEF x, d
  <1>8. RevisionMoves /\ Admission /\ DenialsAreListed /\ Len(revision') = Len(revision)
        /\ revision'[d] = x
    BY <1>1, <1>2, <1>3, <1>4, <1>7, OneStateChanges
  <1>9. DocumentOK'
    <2>1. document \in [status : DocumentState,
                        draft : Nat, published : Nat]
      BY DEF IngestionInv, DocumentOK
    <2> QED
      BY <1>6, <1>8, <2>1, DocumentStays
  <1>10. \A r \in points' : r \in points \/ (r \in 1..Len(revision') /\ revision'[r].live
                                               /\ revision'[r].indexed)
    BY <1>1, <1>6, <1>7, <1>8 DEF Revisions
  <1>11. RunsGoOn /\ NothingCleaned /\ JobsGoOn /\ RowsGoOn /\ OpenRowsGoOn
    BY NoRunMoves, NoJobMoves, LedgerStays, OpenRowsStay DEF Index, IngestionInv
  <1> QED
    BY <1>2, <1>3, <1>8, <1>9, <1>10, <1>11, ContentStep DEF Index, IngestionInv

\* activatePublication moves the draft of a source that is not being deleted.
LEMMA PublishStep == ASSUME IngestionInv, Publish PROVE IngestionInv'
  <1> DEFINE d == document.draft
             x == [revision[d] EXCEPT !.state = "PUBLISHED"]
  <1>1. d \in Revisions /\ revision[d] \in Revision /\ revision \in [Revisions -> Revision]
    BY DraftIsARevision DEF Publish
  <1>2. source.status \notin Gone
    BY DEF Publish
  <1>3. SourceGoesOn
    <2>1. CASE source.status = "PAUSED"
      BY <2>1, NoSourceMoves DEF Publish, IngestionInv
    <2>2. CASE source.status # "PAUSED"
      BY <1>2, <2>2 DEF Publish, IngestionInv, SourceOK, SourceGoesOn, SourceStatus, Gone
    <2> QED
      BY <2>1, <2>2
  <1>4. revision' = [revision EXCEPT ![d] = x]
    BY <1>1 DEF Publish
  <1>5. document' = [document EXCEPT !.published = d, !.status = "ACTIVE"] /\ points' = points
    BY DEF Publish
  <1>6. /\ x \in Revision /\ x.live = revision[d].live /\ x.fingerprint = revision[d].fingerprint
        /\ x.permission = revision[d].permission /\ x.indexed = revision[d].indexed
    BY <1>1 DEF Revision, RevisionState
  <1>7. document'.draft = document.draft /\ document'.published = document.draft
        /\ document'.status = "ACTIVE"
        /\ document' = [status |-> document'.status, draft |-> document'.draft,
                        published |-> document'.published]
    <2>1. document \in [status : DocumentState,
                        draft : Nat, published : Nat]
      BY DEF IngestionInv, DocumentOK
    <2> QED
      BY <1>5, <2>1
  <1> HIDE DEF x, d
  <1>8. RevisionMoves /\ Admission /\ DenialsAreListed
    BY <1>1, <1>2, <1>3, <1>4, <1>6, OneStateChanges
  <1>9. DocumentOK'
    BY <1>7, <1>8, DocumentStays
  <1>10. RunsGoOn /\ NothingCleaned /\ JobsGoOn /\ RowsGoOn /\ OpenRowsGoOn
    BY NoRunMoves, NoJobMoves, LedgerStays, OpenRowsStay DEF Publish, IngestionInv
  <1> QED
    BY <1>2, <1>3, <1>5, <1>8, <1>9, <1>10, ContentStep DEF Publish, IngestionInv

\* A revision is appended to revisions that were at most denied or superseded: it is
\* admitted under the source's permissions.
LEMMA RevisionAdded ==
  ASSUME IngestionInv, source.status \notin Gone, SourceGoesOn, NEW s \in Seq(Revision),
         Len(s) = Len(revision), NEW x \in Revision, revision' = Append(s, x),
         x.fingerprint = source.permission, x.permission = source.permission,
         \A r \in Revisions : /\ s[r].fingerprint = revision[r].fingerprint
                              /\ s[r].permission = revision[r].permission
                              /\ s[r].indexed = revision[r].indexed
                              /\ s[r].live => revision[r].live
  PROVE  /\ RevisionMoves /\ Admission /\ Len(revision') = Len(revision) + 1
         /\ Len(revision) \in Nat
         /\ \A r \in Revisions : revision'[r] = s[r]
         /\ revision'[Len(revision) + 1] = x
  <1>1. /\ revision' \in Seq(Revision) /\ Len(revision') = Len(revision) + 1
        /\ \A r \in Revisions : revision'[r] = s[r]
        /\ revision'[Len(revision) + 1] = x
    BY AppendProperties DEF Revisions
  <1>2. Len(revision) \in Nat
    BY RevisionFields DEF IngestionInv
  <1>3. Len(revision') >= Len(revision)
    BY <1>1, <1>2
  <1>4. RevisionMoves
    BY <1>1, <1>3 DEF RevisionMoves
  <1>5. \A r \in 1..Len(revision') : r \in Revisions \/ r = Len(revision) + 1
    BY <1>1, <1>2 DEF Revisions
  <1>6. Admission
    BY <1>1, <1>5 DEF Admission, SourceGoesOn
  <1> QED
    BY <1>1, <1>2, <1>4, <1>6

\* The document gets the revision that was appended as its draft.
LEMMA NewDraft ==
  ASSUME IngestionInv, Len(revision) \in Nat, Len(revision') = Len(revision) + 1,
         NEW status \in {"DISCOVERED", "NEEDS_REVIEW"},
         document' = [document EXCEPT !.draft = Len(revision) + 1, !.status = status]
  PROVE  DocumentOK'
  <1> DEFINE S == DocumentState
  <1>1. /\ document \in [status : S, draft : Nat, published : Nat] /\ status \in S
        /\ document.published \in Revisions \cup {0}
    BY DEF IngestionInv, DocumentOK
  <1> DEFINE n == Len(revision) + 1
  <1>0. n \in Nat /\ document' = [document EXCEPT !.draft = n, !.status = status]
    OBVIOUS
  <1> HIDE DEF S, n
  <1>2. document' \in [status : S, draft : Nat, published : Nat]
        /\ document'.published = document.published /\ document'.draft = n
    BY <1>0, <1>1
  <1>3. document'.published \in Revisions' \cup {0} /\ document'.draft \in Revisions'
    BY <1>1, <1>2 DEF Revisions, n
  <1> QED
    BY <1>2, <1>3 DEF DocumentOK, S

\* The draft that is superseded is denied, unless it is published.
LEMMA SupersededDrafts ==
  ASSUME IngestionInv
  PROVE  /\ SupersededDraft \in Seq(Revision) /\ Len(SupersededDraft) = Len(revision)
         /\ \A r \in Revisions :
               /\ SupersededDraft[r].fingerprint = revision[r].fingerprint
               /\ SupersededDraft[r].permission = revision[r].permission
               /\ SupersededDraft[r].indexed = revision[r].indexed
               /\ SupersededDraft[r].live => revision[r].live
               /\ r # document.draft \/ document.draft \in {0, document.published} =>
                     SupersededDraft[r].live = revision[r].live
         /\ document.draft \notin {0, document.published} => ~SupersededDraft[document.draft].live
  <1> DEFINE d == document.draft
  <1>1. CASE d \in {0, document.published}
    <2>1. SupersededDraft = revision
      BY <1>1 DEF SupersededDraft
    <2> QED
      BY <1>1, <2>1 DEF IngestionInv, RevisionOK
  <1>2. CASE d \notin {0, document.published}
    <2> DEFINE s == Denied({d})
               state == IF s[d].state \in {"READY", "NEEDS_REVIEW"} THEN "SUPERSEDED" ELSE s[d].state
               x == [s[d] EXCEPT !.state = state]
    <2>1. d \in Revisions
      BY <1>2, DraftIsARevision
    <2>2. /\ s \in Seq(Revision) /\ Len(s) = Len(revision)
          /\ \A r \in Revisions : /\ s[r] \in Revision
                                  /\ s[r].live = (revision[r].live /\ r # d)
                                  /\ s[r].fingerprint = revision[r].fingerprint
                                  /\ s[r].permission = revision[r].permission
                                  /\ s[r].indexed = revision[r].indexed
      BY DeniedRevisions DEF IngestionInv
    <2>3. \A r \in Revisions : revision[r].live \in BOOLEAN
      BY RevisionFields DEF IngestionInv, Revision
    <2>4. SupersededDraft = [s EXCEPT ![d] = x]
      BY <1>2, <2>1, <2>2 DEF SupersededDraft, Revisions
    <2> HIDE DEF s
    <2>5. state \in RevisionState
      BY <2>1, <2>2 DEF Revision, RevisionState
    <2> HIDE DEF state
    <2>6. /\ x \in Revision /\ x.live = s[d].live /\ x.fingerprint = s[d].fingerprint
          /\ x.permission = s[d].permission /\ x.indexed = s[d].indexed
      <3>1. PICK y \in Revision : y = s[d]
        BY <2>1, <2>2
      <3>2. x = [y EXCEPT !.state = state]
        BY <3>1
      <3> HIDE DEF x
      <3> QED
        BY <2>5, <3>1, <3>2, RevisionInState
    <2> HIDE DEF x
    <2>7. /\ SupersededDraft \in Seq(Revision) /\ Len(SupersededDraft) = Len(revision)
          /\ \A r \in Revisions : SupersededDraft[r] = IF r = d THEN x ELSE s[r]
      BY <2>1, <2>2, <2>4, <2>6, OneRevision DEF Revisions
    <2> HIDE DEF d
    <2>8. \A r \in Revisions :
             /\ SupersededDraft[r].fingerprint = revision[r].fingerprint
             /\ SupersededDraft[r].permission = revision[r].permission
             /\ SupersededDraft[r].indexed = revision[r].indexed
             /\ SupersededDraft[r].live => revision[r].live
             /\ r # d => SupersededDraft[r].live = revision[r].live
      <3>1. \A r \in Revisions : /\ s[r].live => revision[r].live
                                 /\ r # d => s[r].live = revision[r].live
        BY <2>2, <2>3
      <3> QED
        BY <2>1, <2>2, <2>6, <2>7, <3>1
    <2>9. ~SupersededDraft[d].live
      BY <2>1, <2>2, <2>6, <2>7
    <2> QED
      BY <1>2, <2>7, <2>8, <2>9 DEF d
  <1> QED
    BY <1>1, <1>2

\* The rows of the superseded draft are added, unless they are there; then it was denied
\* before.
LEMMA SupersededIsListed ==
  ASSUME IngestionInv, NEW w \in Workers, run[w].gen = source.generation, source.status \notin Gone,
         SourceGoesOn, NothingCleaned, ledger' = SupersededRows(w),
         \A r \in Revisions : revision'[r] = SupersededDraft[r]
  PROVE  RowsGoOn /\ OpenRowsGoOn /\ DenialsAreListed
  <1> DEFINE d == document.draft
             g == run[w].gen
  <1>0. OpenRowsGoOn
    <2>1. ledger \subseteq ledger'
      BY DEF SupersededRows
    <2> QED
      BY <2>1, CleanedBefore DEF OpenRowsGoOn
  <1>1. CASE d \in {0, document.published}
    <2>1. ledger' = ledger
      BY <1>1 DEF SupersededRows
    <2>2. \A r \in Revisions : revision'[r].live = revision[r].live
      BY <1>1, SupersededDrafts
    <2> QED
      BY <1>0, <2>1, <2>2, LedgerStays, NothingDenied DEF IngestionInv
  <1>2. CASE d \notin {0, document.published}
    <2>1. d \in Revisions /\ d \in Nat /\ g \in Generations
      BY <1>2, DraftIsARevision, RevisionFields DEF IngestionInv, SourceOK
    <2>2. PICK subs \in SUBSET Deleted : subs = Reconciled
      BY Reconciling
    <2>3. /\ Rows(g, d, subs) \subseteq LedgerRow
          /\ \A l \in Rows(g, d, subs) :
                l.gen = g /\ l.target = d /\ l.sub \in subs /\ l.status = "PENDING"
          /\ \A s \in subs : \E l \in Rows(g, d, subs) : l.sub = s
      BY <2>1, NewRows
    <2>4. /\ ledger' \subseteq ledger \cup Rows(g, d, subs)
          /\ (\A k \in ledger : k.target # d) => Rows(g, d, subs) \subseteq ledger'
      BY <1>2, <2>2, <2>3 DEF SupersededRows
    <2>5. ~revision'[d].live /\ \A r \in Revisions : r # d => revision'[r].live = revision[r].live
      BY <1>2, <2>1, SupersededDrafts
    <2>6. \A s \in subs : s = "VECTOR_INDEX"
      BY <2>2, Reconciling
    <2> HIDE DEF d, g
    <2>7. source'.generation = g /\ source'.status \notin Gone
      BY DEF SourceGoesOn, g
    <2>8. RowsGoOn
      <3>1. LedgerOK'
        BY <2>3, <2>4 DEF IngestionInv, LedgerOK
      <3>2. \A l \in ledger' : \/ l \in ledger
                               \/ /\ l.gen = g /\ l.sub = "VECTOR_INDEX" /\ l.target = d
        BY <2>3, <2>4, <2>6
      <3> QED
        BY <2>1, <2>5, <2>7, <3>1, <3>2 DEF RowsGoOn
    <2>9. DenialsAreListed
      <3> SUFFICES ASSUME NEW r \in points, revision[r].live, ~revision'[r].live
                   PROVE  \E k \in ledger' : /\ k.sub = "VECTOR_INDEX" /\ k.status = "PENDING"
                                             /\ k.target \in {Source, r}
        BY DEF DenialsAreListed
      <3>1. r \in Revisions /\ r = d
        BY <2>5 DEF IngestionInv, PointsAreIndexed
      <3>2. \A k \in ledger : k.target # d
        BY <1>2, <3>1 DEF IngestionInv, RowsAreOfDenied, Source, d
      <3>3. Rows(g, d, subs) \subseteq ledger'
        BY <2>4, <3>2
      <3>4. "VECTOR_INDEX" \in subs
        BY <2>2, Reconciling
      <3> QED
        BY <2>3, <3>1, <3>3, <3>4
    <2> QED
      BY <1>0, <2>8, <2>9
  <1> QED
    BY <1>1, <1>2

\* persistWebsite: the revision is admitted under the fence, and the draft that it supersedes
\* is denied and listed.
LEMMA PersistStep ==
  ASSUME IngestionInv, NEW w \in Workers, Persist(w) PROVE IngestionInv'
  <1>1. run[w].at = "persist" /\ run[w].at # "idle" /\ run[w].at \in Fetching /\ run[w] \in Run
    BY DEF Persist, Fetching, IngestionInv, RunOK
  <1>2. CASE PersistError(w) # "none"
    <2>1. PICK e \in {"stale", "retryable", "terminal"} : e = PersistError(w)
      BY <1>2 DEF PersistError
    <2>2. Raise(w, e) /\ UNCHANGED <<source, document, revision, ledger, faults>>
      BY <1>2, <2>1 DEF Persist
    <2>3. RunsGoOn /\ NothingCleaned
      BY <1>1, <2>2, Raising DEF IngestionInv
    <2> QED
      BY <2>2, <2>3, RunStep DEF Persist, IngestionInv
  <1>3. CASE PersistError(w) = "none"
    <2>0. Fenced(w) /\ source.status \notin Gone
      BY <1>3 DEF PersistError
    <2>1. run[w].gen = source.generation /\ run[w].permission = source.permission
      BY <1>1, <2>0, FetchingIsNotGone DEF Fenced
    <2>2. CASE Unchanged(w)
      <3>1. SettleUnchanged /\ UNCHANGED <<document, revision, ledger, faults>>
        BY <1>3, <2>2 DEF Persist
      <3>2. PICK at \in {"list", "rows", "claim", "complete", "drop", "fail", "failRow"} : GoTo(w, at)
        BY <1>3, <2>2 DEF Persist
      <3>3. RunsGoOn /\ NothingCleaned
        BY <1>1, <3>2, GoingFreely
      <3>4. SourceGoesOn
        BY <2>0, <3>1, SettledGoesOn
      <3> QED
        BY <3>1, <3>3, <3>4, NoJobMoves, QuietStepGoesOn DEF Persist, IngestionInv
    <2>3. CASE ~Unchanged(w)
      <3>1. PICK state \in {"CHUNKING", "NEEDS_REVIEW"} :
                /\ revision' = Append(SupersededDraft,
                       [state |-> state, content |-> run[w].content, key |-> Key(w),
                        fingerprint |-> run[w].permission, permission |-> source.permission,
                        live |-> TRUE, indexed |-> FALSE])
                /\ document' = [document EXCEPT !.draft = Len(revision) + 1,
                                                !.status = DocumentStatus(state)]
                /\ source' = [source EXCEPT !.deferred = FALSE,
                                 !.status = IF state = "CHUNKING" THEN "SYNCING" ELSE "NEEDS_REVIEW"]
        BY <1>3, <2>3 DEF Persist
      <3>2. /\ ledger' = SupersededRows(w)
            /\ \/ GoTo(w, "list") /\ UNCHANGED faults
               \/ Raise(w, "retryable") /\ Fault
            /\ UNCHANGED <<job, points>>
        BY <1>3, <2>3 DEF Persist
      <3>3. RunsGoOn /\ NothingCleaned /\ faults' \in 0..MaxFaults
        <4>1. CASE GoTo(w, "list") /\ UNCHANGED faults
          BY <1>1, <4>1, GoingFreely DEF IngestionInv
        <4>2. CASE Raise(w, "retryable") /\ Fault
          <5>1. PICK e \in {"stale", "retryable", "terminal"} : e = "retryable"
            OBVIOUS
          <5> QED
            BY <1>1, <4>2, <5>1, Raising, FaultIsCounted DEF IngestionInv
        <4> QED
          BY <3>2, <4>1, <4>2
      <3>4. SourceGoesOn
        BY <2>0, <3>1 DEF IngestionInv, SourceOK, SourceGoesOn, SourceStatus, Gone
      <3> DEFINE x == [state |-> state, content |-> run[w].content, key |-> Key(w),
                       fingerprint |-> run[w].permission, permission |-> source.permission,
                       live |-> TRUE, indexed |-> FALSE]
      <3>5. x \in Revision /\ x.fingerprint = source.permission /\ x.permission = source.permission
        <4>1. Key(w) \in Nat \X (Contents \cup {None}) /\ source.permission \in Nat
              /\ run[w].content \in Contents \cup {None}
          BY <1>1 DEF Key, Run, IngestionInv, SourceOK
        <4> QED
          BY <2>1, <4>1 DEF Revision, RevisionState
      <3>6. revision' = Append(SupersededDraft, x)
        BY <3>1
      <3> HIDE DEF x
      <3>7. /\ RevisionMoves /\ Admission /\ Len(revision') = Len(revision) + 1 /\ Len(revision) \in Nat
            /\ \A r \in Revisions : revision'[r] = SupersededDraft[r]
        BY <2>0, <3>4, <3>5, <3>6, SupersededDrafts, RevisionAdded, ZenonT(60)
      <3>8. RowsGoOn /\ OpenRowsGoOn /\ DenialsAreListed
        BY <2>0, <2>1, <3>2, <3>3, <3>4, <3>7, SupersededIsListed
      <3>9. DocumentOK'
        <4>1. DocumentStatus(state) \in {"DISCOVERED", "NEEDS_REVIEW"}
          BY DEF DocumentStatus
        <4> QED
          BY <3>1, <3>7, <4>1, NewDraft
      <3> QED
        BY <2>0, <3>2, <3>3, <3>4, <3>7, <3>8, <3>9, NoJobMoves, ContentStep DEF IngestionInv
    <2> QED
      BY <2>2, <2>3
  <1> QED
    BY <1>2, <1>3

\* Denying what is stale changes nothing: it is denied already.
LEMMA StaleIsDenied ==
  ASSUME IngestionInv, NEW s, s = Denied({r \in Revisions : Stale(r)})
  PROVE  /\ s \in Seq(Revision) /\ Len(s) = Len(revision)
         /\ \A r \in Revisions : /\ s[r] \in Revision
                                 /\ s[r].fingerprint = revision[r].fingerprint
                                 /\ s[r].permission = revision[r].permission
                                 /\ s[r].indexed = revision[r].indexed
                                 /\ s[r].live = revision[r].live
                                 /\ s[r].state = revision[r].state
  <1> DEFINE rs == {r \in Revisions : Stale(r)}
  <1>1. \A r \in Revisions : revision[r].live \in BOOLEAN /\ (revision[r].live => r \notin rs)
    BY RevisionFields DEF IngestionInv, OnlyAdmittedContentIsLive, Stale, Revision
  <1> HIDE DEF rs
  <1>2. /\ s \in Seq(Revision) /\ Len(s) = Len(revision)
        /\ \A r \in Revisions : /\ s[r] \in Revision
                                /\ s[r].live = (revision[r].live /\ r \notin rs)
                                /\ s[r].fingerprint = revision[r].fingerprint
                                /\ s[r].permission = revision[r].permission
                                /\ s[r].indexed = revision[r].indexed
                                /\ s[r].state = revision[r].state
    BY DeniedRevisions DEF IngestionInv, rs
  <1> QED
    BY <1>1, <1>2

\* reconcileSource: what is stale is denied already, and the copy is admitted under the fence.
LEMMA ReconcileStep ==
  ASSUME IngestionInv, NEW w \in Workers, Reconcile(w) PROVE IngestionInv'
  <1>1. run[w].at = "reconcile" /\ run[w].at # "idle"
    BY DEF Reconcile
  <1> DEFINE excluded == job[run[w].gen].excluded
             d == document.draft
             copies == excluded = 0 /\ d # 0 /\ Changed(d)
  <1>0. UNCHANGED <<job, ledger, points, faults>> /\ faults' \in 0..MaxFaults
    BY DEF Reconcile, IngestionInv
  <1>2. CASE ~Fenced(w)
    <2>1. Raise(w, "stale") /\ UNCHANGED <<source, document, revision>>
      BY <1>2 DEF Reconcile
    <2> QED
      BY <1>0, <1>1, <2>1, RaisingStale, RunStep
  <1>3. CASE Fenced(w)
    <2>1. source.status \notin Gone
      BY <1>1, <1>3, FetchingIsNotGone
    <2>2. GoTo(w, "list")
      BY <1>3 DEF Reconcile
    <2>3. /\ RunsGoOn /\ NothingCleaned /\ JobsGoOn /\ RowsGoOn /\ OpenRowsGoOn
      BY <1>0, <1>1, <2>2, GoingFreely, NoJobMoves, LedgerStays, OpenRowsStay DEF IngestionInv
    <2>4. PICK status \in {"NEEDS_REVIEW", "SYNCING"} :
             source' = [source EXCEPT !.deferred = FALSE, !.status = status]
      BY <1>3 DEF Reconcile
    <2>5. SourceGoesOn
      BY <2>1, <2>4 DEF IngestionInv, SourceOK, SourceGoesOn, SourceStatus, Gone
    <2>6. CASE ~copies
      <3>1. (revision' = revision \/ revision' = Denied({r \in Revisions : Stale(r)}))
            /\ UNCHANGED document
        BY <1>3, <2>6 DEF Reconcile
      <3>2. /\ revision' \in Seq(Revision) /\ Len(revision') = Len(revision)
            /\ \A r \in Revisions : /\ revision'[r].fingerprint = revision[r].fingerprint
                                    /\ revision'[r].permission = revision[r].permission
                                    /\ revision'[r].indexed = revision[r].indexed
                                    /\ revision'[r].live = revision[r].live
        BY <3>1, StaleIsDenied DEF IngestionInv, RevisionOK
      <3>3. RevisionMoves
        <4>1. Len(revision') >= Len(revision)
          BY <3>2, RevisionFields DEF IngestionInv
        <4> QED
          BY <3>2, <4>1 DEF RevisionMoves
      <3>4. Admission
        BY <2>1, <2>5, <3>2 DEF Admission, SourceGoesOn, Revisions
      <3>5. DenialsAreListed
        BY <3>2, NothingDenied
      <3> QED
        BY <1>0, <2>1, <2>3, <2>5, <3>1, <3>3, <3>4, <3>5, SameDocument, ContentStep
    <2>7. CASE copies
      <3> DEFINE stale == Denied({r \in Revisions : Stale(r)})
                 left == IF stale[d].state = "PUBLISHED" THEN "PUBLISHED" ELSE "SUPERSEDED"
                 y == [stale[d] EXCEPT !.state = left]
                 old == [stale EXCEPT ![d] = y]
                 state == IF revision[d].state = "NEEDS_REVIEW" THEN "NEEDS_REVIEW" ELSE "CHUNKING"
                 x == [revision[d] EXCEPT !.state = state, !.fingerprint = source.permission,
                          !.permission = source.permission, !.live = TRUE, !.indexed = FALSE]
      <3>1. d \in Revisions /\ revision[d] \in Revision
        BY <2>7, DraftIsARevision
      <3>2. /\ stale \in Seq(Revision) /\ Len(stale) = Len(revision)
            /\ \A r \in Revisions : /\ stale[r] \in Revision
                                    /\ stale[r].fingerprint = revision[r].fingerprint
                                    /\ stale[r].permission = revision[r].permission
                                    /\ stale[r].indexed = revision[r].indexed
                                    /\ stale[r].live = revision[r].live
        BY StaleIsDenied
      <3>3. revision' = Append([stale EXCEPT ![d].state = IF @ = "PUBLISHED" THEN @ ELSE "SUPERSEDED"], x)
        BY <1>3, <2>7 DEF Reconcile, Copied
      <3>4. [stale EXCEPT ![d].state = IF @ = "PUBLISHED" THEN @ ELSE "SUPERSEDED"] = old
        BY <3>1, <3>2 DEF Revisions
      <3>5. revision' = Append(old, x)
        BY <3>3, <3>4
      <3>6. PICK status2 \in {"DISCOVERED", "NEEDS_REVIEW"} :
               document' = [document EXCEPT !.draft = Len(revision) + 1, !.status = status2]
        BY <1>3, <2>7 DEF Reconcile, DocumentStatus
      <3> HIDE DEF stale
      <3>7. state \in RevisionState /\ left \in RevisionState
        BY DEF RevisionState
      <3>8. source.permission \in Nat
        BY DEF IngestionInv, SourceOK
      <3> HIDE DEF state, left, d
      <3>9. x \in Revision /\ x.fingerprint = source.permission /\ x.permission = source.permission
        BY <3>1, <3>7, <3>8 DEF Revision
      <3>10. /\ y \in Revision /\ y.fingerprint = stale[d].fingerprint /\ y.live = stale[d].live
             /\ y.permission = stale[d].permission /\ y.indexed = stale[d].indexed
        BY <3>1, <3>2, <3>7 DEF Revision
      <3> HIDE DEF x, y
      <3>11. /\ old \in Seq(Revision) /\ Len(old) = Len(revision)
             /\ \A r \in Revisions : old[r] = IF r = d THEN y ELSE stale[r]
        BY <3>1, <3>2, <3>10, OneRevision DEF Revisions
      <3> HIDE DEF old
      <3>12. \A r \in Revisions : /\ old[r].fingerprint = revision[r].fingerprint
                                  /\ old[r].permission = revision[r].permission
                                  /\ old[r].indexed = revision[r].indexed
                                  /\ old[r].live = revision[r].live
        BY <3>1, <3>2, <3>10, <3>11
      <3>13. /\ RevisionMoves /\ Admission /\ Len(revision') = Len(revision) + 1 /\ Len(revision) \in Nat
             /\ \A r \in Revisions : revision'[r] = old[r]
        BY <2>1, <2>5, <3>5, <3>9, <3>11, <3>12, RevisionAdded
      <3>14. DenialsAreListed
        BY <3>12, <3>13, NothingDenied
      <3>15. DocumentOK'
        BY <3>6, <3>13, NewDraft
      <3> QED
        BY <1>0, <2>1, <2>3, <2>5, <3>13, <3>14, <3>15, ContentStep
    <2> QED
      BY <2>6, <2>7
  <1> QED
    BY <1>2, <1>3

-----------------------------------------------------------------------------
(* The rows of the ledger.                                                 *)

\* A step of a run that touches the ledger only.
LEMMA LedgerStep ==
  ASSUME IngestionInv, RunsGoOn, NothingCleaned, RowsGoOn, OpenRowsGoOn,
         \A l \in ledger : \E k \in ledger' : k.gen = l.gen /\ k.sub = l.sub,
         \A k \in ledger' : k.status = "COMPLETED" \/ IsCleaned(k)' =>
            \E l \in ledger :
                 l.gen = k.gen /\ l.sub = k.sub /\ (l.status = "COMPLETED" \/ IsCleaned(l)),
         UNCHANGED <<source, job, document, revision, points, faults>>
  PROVE  IngestionInv'
  <1>1. SourceOK' /\ JobOK' /\ JobsFit' /\ SameGeneration
    BY GoingOn, NoJobMoves, NoSourceMoves DEF IngestionInv
  <1>2. RunOK' /\ RunsFit'
    BY <1>1, RunsStayFit DEF IngestionInv
  <1>3. RevisionOK' /\ RevisionMoves /\ DocumentOK'
    BY RevisionsStay DEF IngestionInv, DocumentOK, Revisions
  <1>4. LedgerOK' /\ LedgerFits' /\ RowsAreOfDenied'
    BY <1>1, <1>3, RowsStayFit DEF IngestionInv
  <1>5. OnlyAdmittedContentIsLive' /\ PointsAreIndexed'
    BY DEF IngestionInv, OnlyAdmittedContentIsLive, PointsAreIndexed, Revisions
  <1>6. DeniedIsCovered'
    <2>1. DenialsAreListed
      BY DEF DenialsAreListed
    <2> QED
      BY <2>1, CoverStays DEF IngestionInv
  <1>7. DeletionGoesOn
    BY DEF DeletionGoesOn, Revisions
  <1>8. DeletionIsProven' /\ DeletedIsErased'
    <2>1. source'.status = "DELETED" => NothingIsLeft
      BY DEF IngestionInv, DeletedIsErased, NothingIsLeft
    <2> QED
      BY <1>1, <1>7, <2>1, DeletionStays DEF IngestionInv
  <1> QED
    BY <1>1, <1>2, <1>3, <1>4, <1>5, <1>6, <1>8 DEF IngestionInv

\* The ledger with some rows rewritten.
Rewritten(taken, status, by) ==
    (ledger \ taken) \cup {[l EXCEPT !.status = status, !.by = by] : l \in taken}

\* The rows that are taken get this status and holder and keep what they are about.
RowsBecome(taken, status, by) ==
    /\ RowsGoOn
    /\ \A l \in ledger : l \notin taken => l \in ledger'
    /\ \A l \in taken : \E k \in ledger' : /\ k.gen = l.gen /\ k.sub = l.sub /\ k.target = l.target
                                           /\ k.status = status /\ k.by = by
    /\ \A k \in ledger' : \/ k \in ledger
                          \/ \E l \in taken : /\ k.gen = l.gen /\ k.sub = l.sub
                                              /\ k.target = l.target
                                              /\ k.status = status /\ k.by = by

\* Some rows get another status and holder; they keep what they are about.
LEMMA RowsRewritten ==
  ASSUME IngestionInv, NEW taken \in SUBSET ledger, NEW by \in Workers \cup {None},
         NEW status \in RowStatus,
         ledger' = Rewritten(taken, status, by)
  PROVE  RowsBecome(taken, status, by)
  <1> DEFINE New(l) == [l EXCEPT !.status = status, !.by = by]
  <1>1. \A l \in ledger : l \in LedgerRow
    BY DEF IngestionInv, LedgerOK
  <1>2. \A l \in ledger : /\ New(l) \in LedgerRow /\ New(l).gen = l.gen /\ New(l).sub = l.sub
                          /\ New(l).target = l.target /\ New(l).status = status /\ New(l).by = by
    BY <1>1 DEF LedgerRow
  <1>3. ledger' = (ledger \ taken) \cup {New(l) : l \in taken}
    BY DEF Rewritten
  <1> HIDE DEF New
  <1>4. \A l \in taken : New(l) \in ledger' /\ l \in ledger
    BY <1>3
  <1>5. \A k \in ledger' : k \in ledger \/ \E l \in taken : k = New(l)
    BY <1>3
  <1>6. \A l \in ledger : l \notin taken => l \in ledger'
    BY <1>3
  <1>7. LedgerOK'
    BY <1>1, <1>2, <1>4, <1>5 DEF LedgerOK
  <1>8. \A k \in ledger' : \/ k \in ledger
                           \/ \E l \in taken : /\ k.gen = l.gen /\ k.sub = l.sub
                                               /\ k.target = l.target
                                               /\ k.status = status /\ k.by = by
    <2> SUFFICES ASSUME NEW k \in ledger', k \notin ledger
                 PROVE  \E l \in taken : /\ k.gen = l.gen /\ k.sub = l.sub /\ k.target = l.target
                                         /\ k.status = status /\ k.by = by
      OBVIOUS
    <2>1. PICK l \in taken : k = New(l)
      BY <1>5
    <2> QED
      BY <1>2, <1>4, <2>1
  <1>9. RowsGoOn
    BY <1>4, <1>7, <1>8 DEF RowsGoOn
  <1> QED
    BY <1>2, <1>4, <1>6, <1>8, <1>9 DEF RowsBecome

\* claimDeletionLedger: a claimed row is open, and its work is not done.
LEMMA ClaimRowStep ==
  ASSUME IngestionInv, NEW w \in Workers, ClaimRow(w) PROVE IngestionInv'
  <1> DEFINE rows == {l \in ledger : IsFirst(w, l) /\ l.status # "COMPLETED"}
  <1>1. run[w].at # "idle" /\ run[w] \in Run
    BY DEF ClaimRow, IngestionInv, RunOK
  <1>2. CASE rows = {}
    <2>1. Raise(w, "retryable") /\ UNCHANGED ledger
      BY <1>2 DEF ClaimRow
    <2>2. PICK e \in {"stale", "retryable", "terminal"} : e = "retryable"
      OBVIOUS
    <2>3. RunsGoOn /\ NothingCleaned
      BY <1>1, <2>1, <2>2, Raising DEF IngestionInv
    <2> QED
      BY <2>1, <2>3, RunStep DEF ClaimRow, IngestionInv
  <1>3. CASE rows # {}
    <2>1. ledger' = (ledger \ rows) \cup {[l EXCEPT !.status = "IN_PROGRESS", !.by = w] : l \in rows}
          /\ GoTo(w, "clean")
      BY <1>3 DEF ClaimRow
    <2>2. FirstOf(run[w].rows)[2] # "VECTOR_INDEX" => job[run[w].gen].op = "DELETE"
      <3>1. PICK l \in rows : TRUE
        BY <1>3
      <3>2. l \in ledger /\ l.gen = run[w].gen /\ l.sub = FirstOf(run[w].rows)[2]
        BY <3>1 DEF IsFirst, Mine, First
      <3> QED
        BY <3>2 DEF IngestionInv, LedgerFits
    <2> DEFINE x == [run[w] EXCEPT !.at = "clean"]
    <2>3. "clean" \in Step
      BY DEF Step
    <2>4. x \in Run /\ x.at = "clean" /\ x.gen = run[w].gen /\ x.permission = run[w].permission
          /\ x.rows = run[w].rows
      BY <1>1, <2>3 DEF Run
    <2>5. run' = [run EXCEPT ![w] = x] /\ run \in [Workers -> Run]
      BY <2>1 DEF GoTo, IngestionInv, RunOK
    <2> HIDE DEF x
    <2>6. Continues(x, run[w]) /\ x.at \notin AtCompletion
      BY <1>1, <2>2, <2>4 DEF Continues, Fetching, AtCompletion
    <2>7. RunsGoOn /\ NothingCleaned
      BY <2>4, <2>5, <2>6, OneRunGoesOn DEF IngestionInv
    <2>8. \A k : k.by = w => ~IsCleaned(k)'
      <3>1. run'[w] = x
        BY <2>5
      <3> QED
        BY <2>6, <3>1 DEF IsCleaned, Claims
    <2>9. PICK status \in RowStatus : status = "IN_PROGRESS"
      BY DEF RowStatus
    <2>10. /\ rows \in SUBSET ledger /\ \A l \in rows : l.status # "COMPLETED"
           /\ w \in Workers \cup {None}
           /\ ledger' = Rewritten(rows, status, w)
      BY <2>1, <2>9 DEF Rewritten
    <2> HIDE DEF rows
    <2>11. RowsBecome(rows, status, w)
      BY <2>9, <2>10, RowsRewritten
    <2>12. status # "COMPLETED"
      BY <2>9
    <2>13. OpenRowsGoOn
      <3> SUFFICES ASSUME NEW l \in ledger, l.sub = "VECTOR_INDEX", l.status # "COMPLETED",
                          ~IsCleaned(l)
                   PROVE  \E k \in ledger' : /\ k.sub = "VECTOR_INDEX" /\ k.status # "COMPLETED"
                                             /\ k.target \in {Source, l.target} /\ ~IsCleaned(k)'
        BY DEF OpenRowsGoOn
      <3>1. CASE l \in rows
        BY <2>8, <2>11, <2>12, <3>1 DEF RowsBecome
      <3>2. CASE l \notin rows
        BY <2>7, <2>11, <3>2, CleanedBefore DEF RowsBecome
      <3> QED
        BY <3>1, <3>2
    <2>14. \A l \in ledger : \E k \in ledger' : k.gen = l.gen /\ k.sub = l.sub
      BY <2>11 DEF RowsBecome
    <2>15. \A k \in ledger' : k.status = "COMPLETED" \/ IsCleaned(k)' =>
              \E l \in ledger :
                 l.gen = k.gen /\ l.sub = k.sub /\ (l.status = "COMPLETED" \/ IsCleaned(l))
      BY <2>7, <2>8, <2>11, <2>12, CleanedBefore DEF RowsBecome
    <2> QED
      BY <2>7, <2>11, <2>13, <2>14, <2>15, LedgerStep DEF ClaimRow, RowsBecome
  <1> QED
    BY <1>2, <1>3

\* The claims of a run, and what settling them makes of the ledger.
LEMMA MyClaims ==
  ASSUME NEW w \in Workers
  PROVE  /\ MyClaim(w) \in SUBSET ledger
         /\ \A status : Settled(w, status) = Rewritten(MyClaim(w), status, None)
         /\ run[w].at \in AtCompletion => \A l \in MyClaim(w) : IsCleaned(l)
  <1>1. MyClaim(w) \in SUBSET ledger
    BY DEF MyClaim
  <1>2. \A status : Settled(w, status) = Rewritten(MyClaim(w), status, None)
    BY DEF Settled, Rewritten
  <1>3. run[w].at \in AtCompletion => \A l \in MyClaim(w) : IsCleaned(l)
    BY DEF MyClaim, IsFirst, Mine, First, IsCleaned, Claims
  <1> QED
    BY <1>1, <1>2, <1>3

\* Only the row whose work was done is completed, and by the run that has claimed it.
LEMMA CompleteRowStep ==
  ASSUME IngestionInv, NEW w \in Workers, CompleteRow(w) PROVE IngestionInv'
  <1>1. run[w].at # "idle" /\ run[w].at \in AtCompletion /\ run[w] \in Run
    BY DEF CompleteRow, AtCompletion, IngestionInv, RunOK
  <1>2. CASE MyClaim(w) = {}
    <2>0. PICK e \in {"stale", "retryable", "terminal"} : e = "stale"
      OBVIOUS
    <2>1. run' = [run EXCEPT ![w].at = "failRow", ![w].error = e] /\ UNCHANGED ledger
      BY <1>2, <2>0 DEF CompleteRow
    <2>2. RunsGoOn /\ NothingCleaned
      BY <1>1, <2>1, FailingTheRow DEF IngestionInv
    <2> QED
      BY <2>1, <2>2, RunStep DEF CompleteRow, IngestionInv
  <1>3. CASE MyClaim(w) # {}
    <2> DEFINE rows == run[w].rows \ {First(w)}
               x == [run[w] EXCEPT !.at = "rows", !.rows = rows]
    <2>1. run' = [run EXCEPT ![w] = x] /\ ledger' = Settled(w, "COMPLETED")
      BY <1>3 DEF CompleteRow, IngestionInv, RunOK
    <2>2. "rows" \in Step /\ rows \in SUBSET (Nat \X Deleted)
      BY <1>1 DEF Step, Run
    <2> HIDE DEF rows
    <2>3. x \in Run /\ x.at = "rows" /\ x.gen = run[w].gen /\ x.permission = run[w].permission
      BY <1>1, <2>2 DEF Run
    <2> HIDE DEF x
    <2>4. Continues(x, run[w]) /\ x.at \notin AtCompletion
      BY <1>1, <2>3 DEF Continues, Fetching, AtCompletion
    <2>5. RunsGoOn /\ NothingCleaned
      BY <2>1, <2>3, <2>4, OneRunGoesOn DEF IngestionInv
    <2>6. PICK status \in RowStatus : status = "COMPLETED"
      BY DEF RowStatus
    <2>7. RowsBecome(MyClaim(w), status, None)
      BY <2>1, <2>6, MyClaims, RowsRewritten
    <2>8. \A l \in MyClaim(w) : l \in ledger /\ IsCleaned(l)
      BY <1>1, MyClaims
    <2>9. OpenRowsGoOn
      BY <2>5, <2>7, <2>8, CleanedBefore DEF OpenRowsGoOn, RowsBecome
    <2>10. \A l \in ledger : \E k \in ledger' : k.gen = l.gen /\ k.sub = l.sub
      BY <2>7 DEF RowsBecome
    <2>11. \A k \in ledger' : k.status = "COMPLETED" \/ IsCleaned(k)' =>
              \E l \in ledger :
                 l.gen = k.gen /\ l.sub = k.sub /\ (l.status = "COMPLETED" \/ IsCleaned(l))
      BY <2>5, <2>7, <2>8, CleanedBefore DEF RowsBecome
    <2> QED
      BY <2>5, <2>7, <2>9, <2>10, <2>11, LedgerStep DEF CompleteRow, RowsBecome
  <1> QED
    BY <1>2, <1>3

\* failDeletionLedger: a failed row is open again.
LEMMA FailRowStep ==
  ASSUME IngestionInv, NEW w \in Workers, FailRow(w) PROVE IngestionInv'
  <1>1. run[w].at # "idle" /\ GoTo(w, "fail") /\ ledger' = Settled(w, "FAILED")
    BY DEF FailRow
  <1>2. RunsGoOn /\ NothingCleaned
    BY <1>1, GoingFreely
  <1>3. PICK status \in RowStatus : status = "FAILED"
    BY DEF RowStatus
  <1>4. RowsBecome(MyClaim(w), status, None)
    BY <1>1, <1>3, MyClaims, RowsRewritten
  <1>5. status # "COMPLETED" /\ status # "IN_PROGRESS"
    BY <1>3
  <1>6. OpenRowsGoOn
    <2> SUFFICES ASSUME NEW l \in ledger, l.sub = "VECTOR_INDEX", l.status # "COMPLETED",
                        ~IsCleaned(l)
                 PROVE  \E k \in ledger' : /\ k.sub = "VECTOR_INDEX" /\ k.status # "COMPLETED"
                                           /\ k.target \in {Source, l.target} /\ ~IsCleaned(k)'
      BY DEF OpenRowsGoOn
    <2>1. CASE l \in MyClaim(w)
      BY <1>4, <1>5, <2>1, PendingIsNotCleaned DEF RowsBecome
    <2>2. CASE l \notin MyClaim(w)
      BY <1>2, <1>4, <2>2, CleanedBefore DEF RowsBecome
    <2> QED
      BY <2>1, <2>2
  <1>7. \A l \in ledger : \E k \in ledger' : k.gen = l.gen /\ k.sub = l.sub
    BY <1>4 DEF RowsBecome
  <1>8. \A k \in ledger' : k.status = "COMPLETED" \/ IsCleaned(k)' =>
           \E l \in ledger :
                 l.gen = k.gen /\ l.sub = k.sub /\ (l.status = "COMPLETED" \/ IsCleaned(l))
    BY <1>2, <1>4, <1>5, CleanedBefore, PendingIsNotCleaned DEF RowsBecome
  <1> QED
    BY <1>2, <1>4, <1>6, <1>7, <1>8, LedgerStep DEF FailRow, RowsBecome

\* The source is called deleted when every row of the deletion is completed.
LEMMA FinishDeleteStep ==
  ASSUME IngestionInv, NEW w \in Workers, FinishDelete(w) PROVE IngestionInv'
  <1>1. run[w].at # "idle" /\ run[w].at = "finish"
    BY DEF FinishDelete
  <1> DEFINE done == RowFence(w) /\ \A l \in ledger : Mine(w, l) => l.status = "COMPLETED"
  <1>2. CASE ~done
    <2>1. Raise(w, "stale") /\ UNCHANGED source
      BY <1>2 DEF FinishDelete
    <2> QED
      BY <1>1, <2>1, RaisingStale, RunStep DEF FinishDelete, IngestionInv
  <1>3. CASE done
    <2>1. source' = [source EXCEPT !.status = "DELETED"] /\ GoTo(w, "complete")
      BY <1>3 DEF FinishDelete
    <2>2. run[w].gen = source.generation /\ source.status = "DELETING" /\ source.status \in Gone
      BY <1>1, <1>3 DEF RowFence, Fenced, Deleting, IngestionInv, RunsFit, AttemptFits, Gone
    <2>3. /\ SourceOK' /\ source'.generation = source.generation
          /\ source'.permission = source.permission /\ source'.status = "DELETED"
          /\ source'.status \in Gone
      BY <2>1 DEF IngestionInv, SourceOK, SourceStatus, Gone
    <2>4. JobOK' /\ JobsFit' /\ SameGeneration
      <3>1. UNCHANGED job
        BY DEF FinishDelete
      <3> QED
        BY <2>2, <2>3, <3>1 DEF IngestionInv, JobOK, JobsFit, SameGeneration
    <2>5. \A s \in Deleted : Erased(s)
      BY <1>3, <2>2 DEF IngestionInv, DeletionIsProven, Mine
    <2>6. NothingIsLeft
      <3>1. "VECTOR_INDEX" \in Deleted /\ "POSTGRES_CONTENT" \in Deleted
        BY DEF Deleted
      <3>2. Erased("VECTOR_INDEX") /\ Erased("POSTGRES_CONTENT")
        BY <2>5, <3>1
      <3> QED
        BY <3>2 DEF Erased, NothingIsLeft
    <2>7. RunsGoOn /\ NothingCleaned
      BY <1>1, <2>1, GoingFreely
    <2> QED
      BY <2>3, <2>4, <2>6, <2>7, QuietStep DEF FinishDelete, IngestionInv
  <1> QED
    BY <1>2, <1>3

\* The work of a row is done: what it covers has left the index or the database before
\* anybody may complete it.
LEMMA CleanedStep ==
  ASSUME IngestionInv, NEW w \in Workers, run[w].at = "clean", GoTo(w, "cleaned"),
         NEW sub, sub = FirstOf(run[w].rows)[2],
         points' = IF sub = "VECTOR_INDEX" THEN points \ Acknowledged(w) ELSE points,
         RevisionMoves, Len(revision') = Len(revision), DocumentOK',
         \A r \in Revisions : revision'[r].live = revision[r].live
                              /\ (revision[r].state = "DELETED" => revision'[r].state = "DELETED"),
         sub = "POSTGRES_CONTENT" => \A r \in Revisions : revision'[r].state = "DELETED",
         UNCHANGED <<source, job, ledger, faults>>
  PROVE  IngestionInv'
  <1>1. SourceOK' /\ JobOK' /\ JobsFit' /\ SameGeneration
    BY GoingOn, NoJobMoves, NoSourceMoves DEF IngestionInv
  <1> DEFINE x == [run[w] EXCEPT !.at = "cleaned"]
  <1>2. run[w] \in Run /\ run \in [Workers -> Run] /\ "cleaned" \in Step
    BY DEF IngestionInv, RunOK, Step
  <1>3. x \in Run /\ x.at = "cleaned" /\ x.gen = run[w].gen /\ x.permission = run[w].permission
        /\ x.rows = run[w].rows
    BY <1>2 DEF Run
  <1>4. run' = [run EXCEPT ![w] = x]
    BY <1>2 DEF GoTo
  <1> HIDE DEF x
  <1>5. Continues(x, run[w])
    BY <1>3 DEF Continues, Fetching
  <1>6. RunsGoOn
    BY <1>3, <1>4, <1>5, OneRunGoesOn DEF IngestionInv
  <1>7. RunOK' /\ RunsFit'
    BY <1>1, <1>6, RunsStayFit DEF IngestionInv
  <1>8. RevisionOK' /\ Revisions' = Revisions
    BY DEF RevisionMoves, RevisionOK, Revisions
  <1>9. LedgerOK' /\ LedgerFits' /\ RowsAreOfDenied'
    BY <1>1, LedgerStays, RowsStayFit DEF IngestionInv
  <1>10. OnlyAdmittedContentIsLive' /\ PointsAreIndexed'
    <2>1. points' \subseteq points
      OBVIOUS
    <2>2. OnlyAdmittedContentIsLive'
      BY <1>8 DEF IngestionInv, OnlyAdmittedContentIsLive, RevisionMoves
    <2>3. PointsAreIndexed'
      BY <1>8, <2>1 DEF IngestionInv, PointsAreIndexed, RevisionMoves
    <2> QED
      BY <2>2, <2>3
  \* The row of w is the only one that is newly cleaned.
  <1>11. ASSUME NEW l, IsCleaned(l)', ~IsCleaned(l)
         PROVE  l.gen = run[w].gen /\ l.target = FirstOf(run[w].rows)[1] /\ l.sub = sub
    <2>1. \A v \in Workers : run'[v] = IF v = w THEN x ELSE run[v]
      BY <1>2, <1>4
    <2> QED
      BY <1>3, <1>11, <2>1 DEF IsCleaned, Claims
  <1>12. DeniedIsCovered'
    <2> SUFFICES ASSUME NEW r \in points', ~revision'[r].live
                 PROVE  \E l \in ledger' : Covers(l, r)'
      BY DEF DeniedIsCovered
    <2>1. r \in points /\ r \in Revisions /\ revision[r].indexed /\ ~revision[r].live
      BY DEF IngestionInv, PointsAreIndexed
    <2>2. PICK l \in ledger : Covers(l, r)
      BY <2>1 DEF IngestionInv, DeniedIsCovered
    <2>3. ~IsCleaned(l)'
      <3> SUFFICES ASSUME IsCleaned(l)' PROVE FALSE
        OBVIOUS
      <3>1. l.sub = sub /\ l.target = FirstOf(run[w].rows)[1] /\ sub = "VECTOR_INDEX"
            /\ l.target \in {Source, r}
        BY <1>11, <2>2 DEF Covers
      <3>2. r \in Acknowledged(w)
        BY <2>1, <3>1 DEF Acknowledged, Covered, First
      <3> QED
        BY <3>1, <3>2
    <2> QED
      BY <2>2, <2>3 DEF Covers
  <1>13. source.status \in Gone => DeletionGoesOn
    <2> SUFFICES ASSUME source.status \in Gone PROVE DeletionGoesOn
      OBVIOUS
    <2>1. ASSUME NEW k \in ledger', k.gen = source.generation, IsCleaned(k)', ~IsCleaned(k)
          PROVE  Erased(k.sub)'
      <3>1. k \in ledger /\ k.gen = run[w].gen /\ k.target = FirstOf(run[w].rows)[1] /\ k.sub = sub
        BY <1>11, <2>1
      <3>2. k.target = Source /\ Deleting(w)
        BY <2>1, <3>1 DEF IngestionInv, LedgerFits, JobsFit, Deleting
      <3>3. CASE sub = "VECTOR_INDEX"
        <4>1. \A r \in points : r \in Acknowledged(w)
          BY <3>1, <3>2 DEF IngestionInv, PointsAreIndexed, Acknowledged, Covered, First
        <4>2. points' = {}
          BY <3>3, <4>1
        <4> QED
          BY <3>1, <3>3, <4>2 DEF Erased
      <3>4. CASE sub = "POSTGRES_CONTENT"
        BY <1>8, <3>1, <3>4 DEF Erased
      <3>5. CASE sub \notin {"VECTOR_INDEX", "POSTGRES_CONTENT"}
        BY <3>1, <3>5 DEF Erased
      <3> QED
        BY <3>3, <3>4, <3>5
    <2>2. points' \subseteq points
      OBVIOUS
    <2>3. \A r \in 1..Len(revision') :
             r \in Revisions /\ (revision[r].state = "DELETED" => revision'[r].state = "DELETED")
      BY DEF Revisions
    <2> QED
      BY <2>1, <2>2, <2>3 DEF DeletionGoesOn
  <1>14. DeletionIsProven' /\ DeletedIsErased'
    <2>1. source'.status = "DELETED" => NothingIsLeft
      BY DEF IngestionInv, DeletedIsErased, NothingIsLeft
    <2> QED
      BY <1>1, <1>13, <2>1, DeletionStays DEF IngestionInv
  <1> QED
    BY <1>1, <1>7, <1>8, <1>9, <1>10, <1>12, <1>14 DEF IngestionInv

\* The work of a row (deletePostgresContent, deleteStoredObjects, deleteVectors): after it the
\* row may be completed, because what it stands for is erased.
LEMMA CleanRowStep ==
  ASSUME IngestionInv, NEW w \in Workers, CleanRow(w) PROVE IngestionInv'
  <1> DEFINE sub == First(w)[2]
  <1>1. /\ run[w].at = "clean" /\ run[w].at # "idle"
        /\ points' = IF sub = "VECTOR_INDEX" THEN points \ Acknowledged(w) ELSE points
        /\ UNCHANGED <<source, job, ledger, faults>> /\ sub = FirstOf(run[w].rows)[2]
    BY DEF CleanRow, First
  <1>2. CASE sub \in {"OBJECT_STORAGE", "POSTGRES_CONTENT"} /\ ~RowFence(w)
    <2>0. PICK e \in {"stale", "retryable", "terminal"} : e = "stale"
      OBVIOUS
    <2>1. run' = [run EXCEPT ![w].at = "failRow", ![w].error = e] /\ UNCHANGED <<revision, document>>
      BY <1>2, <2>0 DEF CleanRow
    <2>2. RunsGoOn /\ NothingCleaned
      BY <1>1, <2>1, FailingTheRow DEF IngestionInv
    <2>3. UNCHANGED points /\ faults' \in 0..MaxFaults
      BY <1>1, <1>2 DEF IngestionInv
    <2> QED
      BY <1>1, <2>1, <2>2, <2>3, RunStep
  <1>3. CASE ~(sub \in {"OBJECT_STORAGE", "POSTGRES_CONTENT"} /\ ~RowFence(w))
    <2>1. /\ GoTo(w, "cleaned")
          /\ revision' = IF sub # "POSTGRES_CONTENT" THEN revision
                         ELSE [r \in Revisions |-> [revision[r] EXCEPT !.state = "DELETED", !.live = FALSE]]
          /\ document' = IF sub = "POSTGRES_CONTENT" /\ document.status # "NONE"
                         THEN [document EXCEPT !.status = "DELETED"] ELSE document
      BY <1>3 DEF CleanRow
    <2>2. CASE sub # "POSTGRES_CONTENT"
      <3>1. UNCHANGED <<revision, document>>
        BY <2>1, <2>2
      <3>2. RevisionMoves /\ Len(revision') = Len(revision)
        BY <3>1, RevisionsStay DEF IngestionInv
      <3>3. DocumentOK'
        BY <3>1, <3>2, SameDocument
      <3> HIDE DEF sub
      <3> QED
        BY <1>1, <2>1, <2>2, <3>1, <3>2, <3>3, CleanedStep
    <2>3. CASE sub = "POSTGRES_CONTENT"
      <3>1. RowFence(w)
        BY <1>3, <2>3
      <3>2. source.status \in Gone
        <4>1. job[run[w].gen].op = "DELETE" /\ run[w].gen = source.generation
          BY <1>1, <2>3, <3>1 DEF RowFence, Fenced, IngestionInv, RunsFit, AttemptFits
        <4> QED
          BY <4>1 DEF IngestionInv, JobsFit
      <3> DEFINE New(r) == [revision[r] EXCEPT !.state = "DELETED", !.live = FALSE]
      <3>3. \A r \in Revisions : revision[r] \in Revision /\ revision[r].live = FALSE
        BY <3>2, RevisionFields DEF IngestionInv, OnlyAdmittedContentIsLive, Revision
      <3>4. \A r \in Revisions : /\ New(r) \in Revision /\ New(r).state = "DELETED" /\ New(r).live = FALSE
                                 /\ New(r).fingerprint = revision[r].fingerprint
                                 /\ New(r).permission = revision[r].permission
                                 /\ New(r).indexed = revision[r].indexed
        BY <3>3 DEF Revision, RevisionState
      <3>5. revision' = [r \in Revisions |-> New(r)]
        BY <2>1, <2>3
      <3> HIDE DEF New
      <3>6. \A r \in Revisions : revision'[r] = New(r)
        BY <3>5
      <3>7. revision' \in Seq(Revision) /\ Len(revision') = Len(revision) /\ Len(revision) \in Nat
        BY <3>4, <3>5, SameLength, RevisionFields DEF IngestionInv, RevisionOK, Revisions
      <3>8. RevisionMoves
        <4>1. Len(revision') >= Len(revision)
          BY <3>7
        <4> QED
          BY <3>4, <3>6, <3>7, <4>1 DEF RevisionMoves
      <3>9. DocumentOK'
        <4>1. CASE document.status = "NONE"
          BY <2>1, <3>8, <4>1, SameDocument
        <4>2. CASE document.status # "NONE"
          <5>1. document \in [status : DocumentState,
                              draft : Nat, published : Nat]
            BY DEF IngestionInv, DocumentOK
          <5>2. document' = [document EXCEPT !.status = "DELETED"]
            BY <2>1, <2>3, <4>2
          <5> QED
            BY <3>8, <5>1, <5>2, DocumentStays
        <4> QED
          BY <4>1, <4>2
      <3>10. \A r \in Revisions : revision'[r].live = revision[r].live /\ revision'[r].state = "DELETED"
        BY <3>3, <3>4, <3>6
      <3> HIDE DEF sub
      <3> QED
        BY <1>1, <2>1, <3>7, <3>8, <3>9, <3>10, CleanedStep
    <2> QED
      BY <2>2, <2>3
  <1> QED
    BY <1>2, <1>3

-----------------------------------------------------------------------------
(* The theorems.                                                           *)

\* A source that was created has one job and no content.
LEMMA IngestionInitInv == Init => IngestionInv
  <1> SUFFICES ASSUME Init PROVE IngestionInv
    OBVIOUS
  <1> USE IngestionAssumption
  <1>1. 1 \in Generations
    BY DEF Generations
  <1>2. SourceOK
    BY <1>1 DEF Init, SourceOK, SourceStatus
  <1>3. /\ Queued("IMPORT", 0) \in Job /\ NoJob \in Job
        /\ Queued("IMPORT", 0).op = "IMPORT" /\ Queued("IMPORT", 0).status = "QUEUED"
        /\ Queued("IMPORT", 0).fresh = FALSE
        /\ NoJob.op = "NONE" /\ NoJob.status = "NONE" /\ NoJob.fresh = FALSE
    BY DEF Queued, NoJob, Job, JobStatus
  <1>4. \A g \in Generations : job[g] = IF g = 1 THEN Queued("IMPORT", 0) ELSE NoJob
    BY DEF Init
  <1>5. JobOK
    BY <1>3, <1>4 DEF Init, JobOK
  <1>6. JobsFit
    <2>1. source.generation = 1 /\ source.status = "CONNECTING" /\ source.status \notin Gone
      BY DEF Init, Gone
    <2>2. \A g \in Generations : g > 1 => g # 1
      BY DEF Generations
    <2> QED
      BY <1>1, <1>3, <1>4, <2>1, <2>2 DEF JobsFit
  <1>7. DocumentOK
    BY DEF Init, DocumentOK
  <1>8. RevisionOK /\ Revisions = {}
    BY EmptySeq DEF Init, RevisionOK, Revisions
  <1>9. RunOK /\ RunsFit
    <2>1. NoRun \in Run /\ NoRun.at = "idle"
      BY DEF NoRun, Run, Step
    <2> QED
      BY <2>1 DEF Init, RunOK, RunsFit, AttemptFits
  <1>10. /\ LedgerOK /\ LedgerFits /\ RowsAreOfDenied /\ PointsAreIndexed /\ DeniedIsCovered
    BY DEF Init, LedgerOK, LedgerFits, RowsAreOfDenied, PointsAreIndexed, DeniedIsCovered
  <1>11. OnlyAdmittedContentIsLive
    BY <1>8 DEF OnlyAdmittedContentIsLive
  <1>12. DeletionIsProven /\ DeletedIsErased
    BY DEF Init, DeletionIsProven, DeletedIsErased, Gone
  <1>13. faults \in 0..MaxFaults
    BY DEF Init
  <1> QED
    BY <1>2, <1>5, <1>6, <1>7, <1>8, <1>9, <1>10, <1>11, <1>12, <1>13 DEF IngestionInv

\* Every request, every step of an attempt and every fault keeps the invariant.
LEMMA IngestionStepInv == IngestionInv /\ [Next]_vars => IngestionInv'
  <1> SUFFICES ASSUME IngestionInv, [Next]_vars PROVE IngestionInv'
    OBVIOUS
  <1>1. CASE UNCHANGED vars
    BY <1>1, NoRunMoves, RunStep DEF vars, IngestionInv
  <1>2. CASE Request
    BY <1>2, UpdateStep, VerifyPermissionStep, PauseStep, SyncStep, ResumeStep, DeleteSourceStep,
       ExcludeRevisionStep DEF Request
  <1>3. CASE Upsert \/ Index \/ Publish \/ \E x \in upserted : Compensate(x)
    BY <1>3, UnacknowledgedStep, IndexStep, PublishStep
  <1>4. ASSUME NEW w \in Workers, Work(w) PROVE IngestionInv'
    BY <1>4, PrepareStep, CompareStep, FencePutStep, PutStep, PersistStep, DropStep, ReconcileStep,
       ListRowsStep, NextRowStep, ClaimRowStep, CleanRowStep, FenceCleanedStep, CompleteRowStep,
       FailRowStep, FinishDeleteStep, CompleteStep, FailStep DEF Work
  <1>5. ASSUME NEW w \in Workers, Throw(w) \/ Crash(w) \/ TimeOut(w) PROVE IngestionInv'
    BY <1>5, ThrowStep, CrashStep, TimeOutStep
  <1>6. ASSUME NEW w \in Workers, NEW g \in Generations,
               Begin(w, g) \/ BeginRefused(w, g) \/ BeginStale(w, g)
        PROVE  IngestionInv'
    BY <1>6, BeginStep, BeginRefusedStep, BeginStaleStep
  <1>7. ASSUME NEW g \in Generations, DeadLetter(g) \/ HeartbeatAges(g) PROVE IngestionInv'
    BY <1>7, DeadLetterStep, HeartbeatStep
  <1> QED
    BY <1>1, <1>2, <1>3, <1>4, <1>5, <1>6, <1>7 DEF Next

\* Unacknowledged points are of a generation and of a revision's number.
UpsertsOK == upserted \subseteq Generations \X Nat

\* Only the preparers move them.
LEMMA UpsertsStay == IngestionInv /\ UpsertsOK /\ [Next]_vars => UpsertsOK'
  <1> SUFFICES ASSUME IngestionInv, UpsertsOK, [Next]_vars PROVE UpsertsOK'
    OBVIOUS
  <1>1. CASE Upsert
    BY <1>1 DEF Upsert, UpsertsOK, IngestionInv, SourceOK, DocumentOK
  <1>2. CASE Index
    BY <1>2 DEF Index, UpsertsOK
  <1>3. CASE \E x \in upserted : Compensate(x)
    BY <1>3 DEF Compensate, UpsertsOK
  <1>4. CASE Request \/ Publish \/ UNCHANGED vars
    BY <1>4 DEF Request, Update, VerifyPermission, Pause, Sync, Resume, DeleteSource,
       ExcludeRevision, Publish, vars, UpsertsOK
  <1>5. ASSUME NEW w \in Workers, Work(w) PROVE UpsertsOK'
    <2>1. UNCHANGED upserted
      BY <1>5 DEF Work, Prepare, Compare, FencePut, Put, Persist, Drop, Reconcile, ListRows, NextRow,
         ClaimRow, CleanRow, FenceCleaned, CompleteRow, FailRow, FinishDelete, Complete, Fail
    <2> QED
      BY <2>1 DEF UpsertsOK
  <1>6. ASSUME NEW w \in Workers, Throw(w) \/ Crash(w) \/ TimeOut(w) PROVE UpsertsOK'
    BY <1>6 DEF Throw, Crash, TimeOut, UpsertsOK
  <1>7. ASSUME NEW w \in Workers, NEW g \in Generations,
               Begin(w, g) \/ BeginRefused(w, g) \/ BeginStale(w, g)
        PROVE  UpsertsOK'
    BY <1>7 DEF Begin, BeginRefused, BeginStale, UpsertsOK
  <1>8. ASSUME NEW g \in Generations, DeadLetter(g) \/ HeartbeatAges(g) PROVE UpsertsOK'
    BY <1>8 DEF DeadLetter, HeartbeatAges, UpsertsOK
  <1> QED
    BY <1>1, <1>2, <1>3, <1>4, <1>5, <1>6, <1>7, <1>8 DEF Next

\* The invariant holds throughout.
LEMMA IngestionInvHolds == Spec => []IngestionInv
  BY IngestionInitInv, IngestionStepInv, PTL DEF Spec

\* No late attempt, timeout, dead letter, validation or publication brings back a source
\* whose deletion was asked for, and only content scanned under the source's current
\* permissions can be retrieved, and none of a source that is being deleted
\* (persistWebsite, reconcileSource, failAttempt, fenceTimedOutKnowledgeJob).
THEOREM SourceSafety == Spec => []SourceInvariant
  <1>1. IngestionInv /\ UpsertsOK => SourceInvariant
    <2> SUFFICES ASSUME IngestionInv, UpsertsOK PROVE SourceInvariant
      OBVIOUS
    <2>1. SourceTypeOK
      <3>1. source.status \in SourceStatus /\ source.generation \in Generations
        BY DEF IngestionInv, SourceOK
      <3>2. \A g \in Generations : /\ job[g].status \in JobStatus
                                   /\ job[g].fresh => job[g].status = "RUNNING"
        BY DEF IngestionInv, JobOK, Job
      <3>3. /\ {document.draft, document.published} \subseteq Revisions \cup {0}
            /\ points \subseteq Revisions /\ faults \in 0..MaxFaults
        BY DEF IngestionInv, DocumentOK, PointsAreIndexed
      <3> QED
        BY <3>1, <3>2, <3>3 DEF SourceTypeOK, SourceStatus, JobStatus, UpsertsOK
    <2>2. DeletionHolds
      BY DEF IngestionInv, SourceOK, JobsFit, DeletionHolds
    <2> QED
      BY <2>1, <2>2 DEF IngestionInv, SourceInvariant
  <1>2. Init => UpsertsOK
    BY DEF Init, UpsertsOK
  <1> QED
    BY <1>1, <1>2, IngestionInvHolds, UpsertsStay, PTL DEF Spec

\* Points that commitReadySnapshot has acknowledged are, once their chunks are denied, in the
\* index only while an open row of the ledger says so, and a deleted source has neither
\* content nor such points (processReconciliationLedgers, ensureReconciliationLedgers,
\* deleteSource).  Of the points of preparations that did not commit nothing is claimed.
THEOREM CleanupSafety == Spec => []CleanupIsProven
  <1>1. IngestionInv => CleanupIsProven
    BY DEF IngestionInv, DeniedIsCovered, Covers, CleanupIsProven
  <1> QED
    BY <1>1, IngestionInvHolds, PTL

=============================================================================
