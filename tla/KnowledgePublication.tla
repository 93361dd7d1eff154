------------------------- MODULE KnowledgePublication -------------------------
(***************************************************************************)
(* Publishing and rolling back a workspace's knowledge: the requests       *)
(* (KnowledgePublication rows with their KnowledgeJob, KnowledgeOutbox     *)
(* and KnowledgeInbox rows), the active pointer, and the dispatchers of    *)
(* the API processes that lease an event and activate its publication.     *)
(*                                                                         *)
(* A publication was active before (Before) and an older one can be        *)
(* rolled back to.  A request is PUBLISHING only inside the transaction    *)
(* that activates it.  Manifests, policies, capabilities and the draft are *)
(* reduced to whether they changed since the request was made.  Clocks are *)
(* choices: a back-off may have elapsed, a deadline may have passed.       *)
(***************************************************************************)
EXTENDS Naturals, FiniteSets

CONSTANTS
    Publications,   \* the requests of this instance
    Dispatchers,    \* processes that drain the outbox
    MaxAttempts,    \* maxAttempts
    MaxFaults,      \* bound on errors, deaths and leases that run out under a dispatcher
    MaxEdits,       \* bound on changes of draft, policy and test cases
    Before, NoDispatcher

ASSUME PublicationAssumption ==
    /\ Before \notin Publications
    /\ NoDispatcher \notin Dispatchers
    /\ MaxAttempts \in Nat \ {0} /\ MaxFaults \in Nat /\ MaxEdits \in Nat

VARIABLES
    operation, base, status,         \* the KnowledgePublication row
    changed,                         \* what changed since the request: nothing, the draft, a policy
    evaluation,                      \* of the request's candidate
    active,                          \* ActiveKnowledgePublication.publicationId
    event, lock, stale, attempts,    \* the KnowledgeOutbox row
    job, jobAttempts,                \* the KnowledgeJob row
    inbox,                           \* status of the KnowledgeInbox row
    pc, at, listed,                  \* the dispatcher: step, its event, the rest of its list
    spent, lost, code,               \* its attempts were used up when read; leaseLost; its error
    faults, edits

request == <<operation, base, status>>
row == <<event, lock, stale, attempts>>
records == <<job, jobAttempts, inbox>>
world == <<changed, evaluation, edits>>
local == <<pc, at, listed, spent, lost, code>>
vars == <<request, active, row, records, world, local, faults>>

Activated == {"ACTIVE", "SUPERSEDED", "ROLLED_BACK"}
PublicationStatus == Activated \cup {"NONE", "VALIDATING", "READY", "FAILED"}
Settled == {"PUBLISHED", "DEAD_LETTER"}
EventStatus == Settled \cup {"NONE", "PENDING", "PUBLISHING", "FAILED"}
JobStatus == {"NONE", "QUEUED", "RUNNING", "RETRY_SCHEDULED", "SUCCEEDED", "DEAD_LETTER"}
InboxStatus == {"NONE", "PROCESSING", "SUCCEEDED", "FAILED"}
DispatcherStep == {"idle", "reconcile", "evaluate", "giveUp", "claim", "start", "inbox",
                   "prepare", "activate", "complete", "caught", "failing"}

Init ==
    /\ operation = [p \in Publications |-> "PUBLISH"]
    /\ base = [p \in Publications |-> Before]
    /\ status = [p \in Publications |-> "NONE"]
    /\ changed = [p \in Publications |-> "nothing"]
    /\ evaluation = [p \in Publications |-> "PENDING"]
    /\ active = Before
    /\ event = [p \in Publications |-> "NONE"]
    /\ lock = [p \in Publications |-> NoDispatcher]
    /\ stale = [p \in Publications |-> FALSE]
    /\ attempts = [p \in Publications |-> 0]
    /\ job = [p \in Publications |-> "NONE"]
    /\ jobAttempts = [p \in Publications |-> 0]
    /\ inbox = [p \in Publications |-> "NONE"]
    /\ pc = [d \in Dispatchers |-> "idle"]
    /\ at = [d \in Dispatchers |-> Before]
    /\ listed = [d \in Dispatchers |-> {}]
    /\ spent = [d \in Dispatchers |-> FALSE]
    /\ lost = [d \in Dispatchers |-> FALSE]
    /\ code = [d \in Dispatchers |-> "transient"]
    /\ faults = 0 /\ edits = 0

GoTo(d, step) == pc' = [pc EXCEPT ![d] = step]

\* dispatch returns: what it knew of its event is gone.
Return(d) ==
    /\ GoTo(d, "idle")
    /\ at' = [at EXCEPT ![d] = Before]
    /\ spent' = [spent EXCEPT ![d] = FALSE]
    /\ lost' = [lost EXCEPT ![d] = FALSE]
    /\ code' = [code EXCEPT ![d] = "transient"]

Open(p) == event[p] \notin Settled \cup {"NONE"}
Holds(d, p) == event[p] = "PUBLISHING" /\ lock[p] = d

-----------------------------------------------------------------------------
(* Requests, and what happens to them from outside.                        *)

\* publishPublication and rollbackPublication, createActivationRequest: a rollback
\* to documents has no index snapshot yet.
Request(p, op) ==
    /\ status[p] = "NONE"
    /\ operation' = [operation EXCEPT ![p] = op]
    /\ base' = [base EXCEPT ![p] = active]
    /\ \E first \in IF op = "ROLLBACK" THEN {"READY", "VALIDATING"} ELSE {"READY"} :
          status' = [status EXCEPT ![p] = first]
    /\ event' = [event EXCEPT ![p] = "PENDING"]
    /\ job' = [job EXCEPT ![p] = "QUEUED"]
    /\ UNCHANGED <<active, lock, stale, attempts, jobAttempts, inbox, world, local, faults>>

\* The evaluation run of the request's candidate ends.
EvaluationEnds(p) ==
    /\ Open(p) /\ evaluation[p] = "PENDING"
    /\ \E verdict \in {"PASSED", "FAILED"} : evaluation' = [evaluation EXCEPT ![p] = verdict]
    /\ UNCHANGED <<request, active, row, records, changed, edits, local, faults>>

\* The draft, or the evidence of a rollback, is edited; or a policy, a capability
\* or a permission is, or a validation expires.
Edit(what) ==
    /\ edits < MaxEdits
    /\ edits' = edits + 1
    /\ changed' = [p \in Publications |->
                      IF ~Open(p) \/ changed[p] = "policy" THEN changed[p] ELSE what]
    /\ UNCHANGED <<request, active, row, records, evaluation, local, faults>>

\* A critical test case is added: no run of the candidate covers it yet.
EditTestCases ==
    /\ edits < MaxEdits
    /\ edits' = edits + 1
    /\ evaluation' = [p \in Publications |-> IF Open(p) THEN "PENDING" ELSE evaluation[p]]
    /\ UNCHANGED <<request, active, row, records, changed, local, faults>>

-----------------------------------------------------------------------------
(* The dispatcher, up to its claim.                                        *)

\* Mutant: an event whose dispatcher died is not listed again.
ListableIfUnlocked(p) == event[p] \in {"PENDING", "FAILED"}

\* The condition of drain, and of the claim itself.
Listable(p) ==
    event[p] \in {"PENDING", "FAILED"} \/ (event[p] = "PUBLISHING" /\ stale[p])

\* drain: the list is read once and dispatched one by one, so that an entry can be
\* out of date when its turn comes.
Drain(d) ==
    /\ pc[d] = "idle" /\ listed[d] = {}
    /\ \E p \in Publications : Listable(p)
    /\ listed' = [listed EXCEPT ![d] = {p \in Publications : Listable(p)}]
    /\ UNCHANGED <<request, active, row, records, world, pc, at, spent, lost, code, faults>>

\* dispatch reads the event; a published one is answered from its inbox row.
Dispatch(d, p) ==
    /\ pc[d] = "idle" /\ p \in listed[d]
    /\ listed' = [listed EXCEPT ![d] = @ \ {p}]
    /\ IF event[p] = "PUBLISHED"
         THEN UNCHANGED <<pc, at, spent>>
         ELSE /\ at' = [at EXCEPT ![d] = p]
              /\ spent' = [spent EXCEPT ![d] = event[p] = "DEAD_LETTER" \/ attempts[p] >= MaxAttempts]
              /\ GoTo(d, "reconcile")
    /\ UNCHANGED <<request, active, row, records, world, lost, code, faults>>

\* Mutant: any publication that can be activated counts as activated.
CommittedIfReady(p) == status[p] \in Activated \cup {"READY"}

Committed(p) == status[p] \in Activated

\* reconcileCommittedActivation: whoever has the lock, the event of an activated
\* publication is completed.
Reconcile(d) ==
    /\ pc[d] = "reconcile"
    /\ LET p == at[d] IN
         IF Committed(p)
           THEN /\ event' = [event EXCEPT ![p] = "PUBLISHED"]
                /\ lock' = [lock EXCEPT ![p] = NoDispatcher]
                /\ stale' = [stale EXCEPT ![p] = FALSE]
                /\ inbox' = [inbox EXCEPT ![p] = "SUCCEEDED"]
                /\ job' = [job EXCEPT ![p] = "SUCCEEDED"]
                /\ Return(d)
           ELSE /\ GoTo(d, "evaluate")
                /\ UNCHANGED <<event, lock, stale, inbox, job, at, spent, lost, code>>
    /\ UNCHANGED <<request, active, attempts, jobAttempts, world, listed, faults>>

\* activationEvaluationState, which may put the event off (deferForEvaluation); then
\* the attempts as they were read, and the deadline, which may have passed.
CheckEvaluation(d) ==
    /\ pc[d] = "evaluate"
    /\ LET p == at[d] IN
         \/ evaluation[p] = "PENDING" /\ Return(d)
         \/ /\ evaluation[p] = "FAILED" \/ evaluation[p] = "PASSED"
            /\ GoTo(d, "giveUp") /\ UNCHANGED <<at, spent, lost, code>>
         \/ /\ evaluation[p] = "PASSED" /\ ~spent[d]
            /\ GoTo(d, "claim") /\ UNCHANGED <<at, spent, lost, code>>
    /\ UNCHANGED <<request, active, row, records, world, listed, faults>>

\* The publication of an event that is given up; one that waits for its index
\* snapshot is left alone.
FailedUnlessElsewhere(p) == [status EXCEPT ![p] = IF @ = "READY" THEN "FAILED" ELSE @]

\* failWithoutClaim does not look at the lock.
GiveUp(d) ==
    /\ pc[d] = "giveUp"
    /\ LET p == at[d] IN
         IF event[p] \notin Settled
           THEN /\ event' = [event EXCEPT ![p] = "DEAD_LETTER"]
                /\ lock' = [lock EXCEPT ![p] = NoDispatcher]
                /\ stale' = [stale EXCEPT ![p] = FALSE]
                /\ job' = [job EXCEPT ![p] = "DEAD_LETTER"]
                /\ status' = FailedUnlessElsewhere(p)
           ELSE UNCHANGED <<event, lock, stale, job, status>>
    /\ Return(d)
    /\ UNCHANGED <<operation, base, active, attempts, jobAttempts, inbox, world, listed, faults>>

Claim(d) ==
    /\ pc[d] = "claim"
    /\ LET p == at[d] IN
         IF Listable(p)
           THEN /\ event' = [event EXCEPT ![p] = "PUBLISHING"]
                /\ lock' = [lock EXCEPT ![p] = d]
                /\ stale' = [stale EXCEPT ![p] = FALSE]
                /\ attempts' = [attempts EXCEPT ![p] = @ + 1]
                /\ GoTo(d, "start")
                /\ UNCHANGED <<at, spent, lost, code>>
           ELSE Return(d) /\ UNCHANGED <<event, lock, stale, attempts>>
    /\ UNCHANGED <<request, active, records, world, listed, faults>>

-----------------------------------------------------------------------------
(* The activation.                                                         *)

Startable(p) == job[p] \in {"QUEUED", "RETRY_SCHEDULED", "RUNNING"}

\* The job is set running; one that has ended fails the event for good.
StartJob(d) ==
    /\ pc[d] = "start"
    /\ LET p == at[d] IN
         IF Startable(p)
           THEN /\ job' = [job EXCEPT ![p] = "RUNNING"]
                /\ jobAttempts' = [jobAttempts EXCEPT ![p] = @ + 1]
                /\ spent' = [spent EXCEPT ![d] = jobAttempts[p] + 1 >= MaxAttempts]
                /\ GoTo(d, "inbox")
                /\ UNCHANGED code
           ELSE /\ code' = [code EXCEPT ![d] = "terminal"]
                /\ GoTo(d, "failing")
                /\ UNCHANGED <<job, jobAttempts, spent>>
    /\ UNCHANGED <<request, active, row, inbox, world, at, listed, lost, faults>>

\* The inbox row is written without a look at the lock.
StartInbox(d) ==
    /\ pc[d] = "inbox"
    /\ inbox' = [inbox EXCEPT ![at[d]] = "PROCESSING"]
    /\ GoTo(d, "prepare")
    /\ UNCHANGED <<request, active, row, job, jobAttempts, world, at, listed, spent, lost, code, faults>>

Fail(d, c) == GoTo(d, "caught") /\ code' = [code EXCEPT ![d] = c]

\* Mutant: the index snapshot is attached to a publication in any state.
PreparableAlways(p) == TRUE

Preparable(p) == status[p] \in {"VALIDATING", "READY", "ACTIVE"}

\* preparePublication and its commitReadySnapshot, which makes a waiting rollback
\* ready.  Documents whose permissions or revisions changed are refused.
Prepare(d) ==
    /\ pc[d] = "prepare"
    /\ LET p == at[d] IN
         \/ /\ Preparable(p)
            /\ status' = [status EXCEPT ![p] = IF @ = "ACTIVE" THEN @ ELSE "READY"]
            /\ GoTo(d, "activate")
            /\ UNCHANGED code
         \/ /\ ~Preparable(p)
            /\ Fail(d, "transient") /\ UNCHANGED status
         \/ /\ Preparable(p) /\ changed[p] # "nothing"
            /\ \E c \in {"terminal", "transient"} : Fail(d, c)
            /\ UNCHANGED status
    /\ UNCHANGED <<operation, base, active, row, records, world, at, listed, spent, lost, faults>>

\* Mutant: the base is not compared.
RefusalWhateverTheBase(p) ==
    IF changed[p] = "policy" THEN "terminal"
    ELSE IF status[p] # "READY" THEN "transient"
    ELSE IF changed[p] = "draft" \/ evaluation[p] # "PASSED" THEN "terminal"
    ELSE "none"

\* The checks of activatePublication in their order, as the class of the error:
\* terminalError, or one that is tried again (STATE_INVALID).
Refusal(p) ==
    IF changed[p] = "policy" THEN "terminal"
    ELSE IF status[p] # "READY" THEN "transient"
    ELSE IF base[p] # active \/ changed[p] = "draft" \/ evaluation[p] # "PASSED" THEN "terminal"
    ELSE "none"

\* Mutant: the publication that was active keeps its status.
SwitchedAndKept(p) == [status EXCEPT ![p] = "ACTIVE"]

Switched(p) ==
    [q \in Publications |->
        IF q = p THEN "ACTIVE"
        ELSE IF q = active /\ status[q] = "ACTIVE"
          THEN IF operation[p] = "ROLLBACK" THEN "ROLLED_BACK" ELSE "SUPERSEDED"
        ELSE status[q]]

\* activatePublication: one transaction under the locks of corpus and target.  Its
\* commit may be reported as an error.
Activate(d) ==
    /\ pc[d] = "activate"
    /\ LET p == at[d] IN
         \/ /\ status[p] = "ACTIVE" /\ active = p
            /\ GoTo(d, "complete")
            /\ UNCHANGED <<status, active, code, faults>>
         \/ /\ active # p /\ Refusal(p) # "none"
            /\ Fail(d, Refusal(p))
            /\ UNCHANGED <<status, active, faults>>
         \/ /\ active # p /\ Refusal(p) = "none"
            /\ status' = Switched(p)
            /\ active' = p
            /\ \/ GoTo(d, "complete") /\ UNCHANGED <<code, faults>>
               \/ faults < MaxFaults /\ faults' = faults + 1 /\ Fail(d, "transient")
    /\ UNCHANGED <<operation, base, row, records, world, at, listed, spent, lost>>

\* The completion, unless a renewal has found the lease lost.
Complete(d) ==
    /\ pc[d] = "complete"
    /\ LET p == at[d] IN
         IF Holds(d, p) /\ ~lost[d]
           THEN /\ event' = [event EXCEPT ![p] = "PUBLISHED"]
                /\ lock' = [lock EXCEPT ![p] = NoDispatcher]
                /\ stale' = [stale EXCEPT ![p] = FALSE]
                /\ inbox' = [inbox EXCEPT ![p] = "SUCCEEDED"]
                /\ job' = [job EXCEPT ![p] = "SUCCEEDED"]
                /\ Return(d)
           ELSE /\ Fail(d, "transient")
                /\ UNCHANGED <<event, lock, stale, inbox, job, at, spent, lost>>
    /\ UNCHANGED <<request, active, attempts, jobAttempts, world, listed, faults>>

\* The catch clause: the failure is settled, unless the lease is known to be lost
\* or the publication is the active one.
Catch(d) ==
    /\ pc[d] = "caught"
    /\ IF lost[d] \/ active = at[d]
         THEN Return(d)
         ELSE GoTo(d, "failing") /\ UNCHANGED <<at, spent, lost, code>>
    /\ UNCHANGED <<request, active, row, records, world, listed, faults>>

\* completeFailure
CompleteFailure(d) ==
    /\ pc[d] = "failing"
    /\ LET p == at[d]
           terminal == code[d] = "terminal" \/ spent[d]
       IN IF Holds(d, p)
            THEN /\ event' = [event EXCEPT ![p] = IF terminal THEN "DEAD_LETTER" ELSE "FAILED"]
                 /\ lock' = [lock EXCEPT ![p] = NoDispatcher]
                 /\ stale' = [stale EXCEPT ![p] = FALSE]
                 /\ inbox' = [inbox EXCEPT ![p] = IF @ = "NONE" THEN @ ELSE "FAILED"]
                 /\ job' = [job EXCEPT ![p] = IF terminal THEN "DEAD_LETTER" ELSE "RETRY_SCHEDULED"]
                 /\ status' = IF terminal THEN FailedUnlessElsewhere(p) ELSE status
            ELSE UNCHANGED <<event, lock, stale, inbox, job, status>>
    /\ Return(d)
    /\ UNCHANGED <<operation, base, active, attempts, jobAttempts, world, listed, faults>>

-----------------------------------------------------------------------------
(* Leases, errors and deaths.                                              *)

Activating(d) == pc[d] \in {"prepare", "activate", "complete"}

\* The renewal timer: keeps the lease of its own claim, or finds it lost.
Renew(d) ==
    /\ Activating(d) /\ ~lost[d]
    /\ IF Holds(d, at[d])
         THEN stale[at[d]] /\ stale' = [stale EXCEPT ![at[d]] = FALSE] /\ UNCHANGED lost
         ELSE lost' = [lost EXCEPT ![d] = TRUE] /\ UNCHANGED stale
    /\ UNCHANGED <<request, active, event, lock, attempts, records, world, pc, at, listed,
                   spent, code, faults>>

\* The lock of the event is the lock of a dispatch that is still under way.
OwnerAtWork(p) == \E d \in Dispatchers : lock[p] = d /\ at[d] = p /\ pc[d] # "idle"

LeaseRunsOut(p) ==
    /\ event[p] = "PUBLISHING" /\ ~stale[p]
    /\ stale' = [stale EXCEPT ![p] = TRUE]
    /\ IF OwnerAtWork(p) THEN faults < MaxFaults /\ faults' = faults + 1 ELSE UNCHANGED faults
    /\ UNCHANGED <<request, active, event, lock, attempts, records, world, local>>

\* The index, the provider or the database fails the activation.
Throw(d) ==
    /\ pc[d] \in {"prepare", "activate"}
    /\ faults < MaxFaults
    /\ faults' = faults + 1
    /\ Fail(d, "transient")
    /\ UNCHANGED <<request, active, row, records, world, at, listed, spent, lost>>

Crash(d) ==
    /\ pc[d] # "idle"
    /\ faults < MaxFaults
    /\ faults' = faults + 1
    /\ Return(d)
    /\ listed' = [listed EXCEPT ![d] = {}]
    /\ UNCHANGED <<request, active, row, records, world>>

-----------------------------------------------------------------------------

Work(d) ==
    \/ Drain(d) \/ (\E p \in Publications : Dispatch(d, p))
    \/ Reconcile(d) \/ CheckEvaluation(d) \/ GiveUp(d) \/ Claim(d)
    \/ StartJob(d) \/ StartInbox(d) \/ Prepare(d) \/ Activate(d) \/ Complete(d)
    \/ Catch(d) \/ CompleteFailure(d)

Next ==
    \/ \E p \in Publications :
          \/ \E op \in {"PUBLISH", "ROLLBACK"} : Request(p, op)
          \/ EvaluationEnds(p) \/ LeaseRunsOut(p)
    \/ \E what \in {"draft", "policy"} : Edit(what)
    \/ EditTestCases
    \/ \E d \in Dispatchers : Work(d) \/ Renew(d) \/ Throw(d) \/ Crash(d)

Spec == Init /\ [][Next]_vars

\* Every process drains every five seconds and goes on with its dispatch; the
\* lease of a dispatch that is gone runs out.
LiveSpec ==
    /\ Spec
    /\ \A d \in Dispatchers : WF_vars(Work(d))
    /\ \A p \in Publications :
          WF_vars(~OwnerAtWork(p) /\ LeaseRunsOut(p))

-----------------------------------------------------------------------------
(* Properties.                                                             *)

\* Type invariant of the requests, their records and the dispatchers.
PublicationTypeOK ==
    /\ operation \in [Publications -> {"PUBLISH", "ROLLBACK"}]
    /\ base \in [Publications -> Publications \cup {Before}]
    /\ status \in [Publications -> PublicationStatus]
    /\ changed \in [Publications -> {"nothing", "draft", "policy"}]
    /\ evaluation \in [Publications -> {"PENDING", "PASSED", "FAILED"}]
    /\ active \in Publications \cup {Before}
    /\ event \in [Publications -> EventStatus]
    /\ lock \in [Publications -> Dispatchers \cup {NoDispatcher}]
    /\ stale \in [Publications -> BOOLEAN]
    /\ attempts \in [Publications -> Nat]
    /\ job \in [Publications -> JobStatus]
    /\ jobAttempts \in [Publications -> Nat]
    /\ inbox \in [Publications -> InboxStatus]
    /\ pc \in [Dispatchers -> DispatcherStep]
    /\ at \in [Dispatchers -> Publications \cup {Before}]
    /\ listed \in [Dispatchers -> SUBSET Publications]
    /\ spent \in [Dispatchers -> BOOLEAN]
    /\ lost \in [Dispatchers -> BOOLEAN]
    /\ code \in [Dispatchers -> {"terminal", "transient"}]
    /\ faults \in 0 .. MaxFaults /\ edits \in 0 .. MaxEdits

\* However requests, dispatchers and late activations interleave, the publication
\* the pointer names is the one and only ACTIVE one.
PointerIsTheActiveOne ==
    \A p \in Publications : status[p] = "ACTIVE" <=> active = p

\* Activation is a compare-and-swap: of the requests made over the same active
\* publication at most one is ever activated, so no publication is replaced by
\* one that was not validated against it.
OneSuccessorPerBase ==
    \A p, q \in Publications :
        p # q /\ status[p] \in Activated /\ status[q] \in Activated => base[p] # base[q]

\* An event is PUBLISHED only when its publication has been activated, whichever
\* dispatcher completed or reconciled it.
PublishedWasActivated ==
    \A p \in Publications : event[p] = "PUBLISHED" => status[p] \in Activated

\* The event and its job end together, with the same result, also when several
\* dispatchers settle the event.
JobEndsWithItsEvent ==
    \A p \in Publications :
        /\ event[p] = "PUBLISHED" <=> job[p] = "SUCCEEDED"
        /\ event[p] = "DEAD_LETTER" <=> job[p] = "DEAD_LETTER"

\* The records are well typed, and the event and its job tell what became of
\* the publication.
PublicationInvariant == PublicationTypeOK /\ PublishedWasActivated /\ JobEndsWithItsEvent

\* A publication that failed is never activated afterwards, and one that was
\* activated never fails or comes back: the late dispatcher of a request that
\* was given up finds it FAILED, a late failure finds it ACTIVE.
FateIsFinal ==
    [][\A p \in Publications :
          /\ status[p] = "FAILED" => status'[p] = "FAILED"
          /\ status[p] \in Activated => status'[p] \in Activated
          /\ status[p] \in {"SUPERSEDED", "ROLLED_BACK"} => status'[p] = status[p]]_vars

\* A request whose evaluation has ended is settled in the end, whichever
\* dispatchers fail, die or lose their leases.
RequestIsSettled ==
    \A p \in Publications :
        <>[](status[p] # "NONE" /\ evaluation[p] # "PENDING") => <>(event[p] \in Settled)

-----------------------------------------------------------------------------
(* What the repository says of the publication and the code does not do.   *)

\* Telemetry "records failure only on the first durable DEAD_LETTER transition"
\* (docs/DECISION_LOG.md): an event that was given up has not activated its
\* publication.  failWithoutClaim gives up an event that another dispatcher is
\* activating.
GivenUpWasNotActivated ==
    \A p \in Publications : event[p] = "DEAD_LETTER" => status[p] \notin Activated

=============================================================================
