------------------------- MODULE IdempotentMutation -------------------------
(***************************************************************************)
(* KnowledgeV2IdempotencyService.executePrepared for one tenant, endpoint  *)
(* and Idempotency-Key: the claim of the key's record, the preparation     *)
(* with its renewed lease, the transaction that performs the mutation and  *)
(* stores its outcome, and the ends of the lease and of the retention.     *)
(*                                                                         *)
(* Every knowledge, business-profile and operator mutation of the API goes *)
(* through it.  An execution is one call; it creates at most one record,   *)
(* so the call stands for the record's id.  A transaction holds the key's  *)
(* advisory lock and is one step.  Time is a choice: a lease or a          *)
(* retention may end at any moment, whatever renewals were meant to come.  *)
(***************************************************************************)
CONSTANTS
    Executions,  \* the calls made with the key
    Requests,    \* the requests (hashes) they are made with
    None         \* no execution, no request

ASSUME NoneAssumption == None \notin Executions /\ None \notin Requests

VARIABLES
    record,     \* the key's KnowledgeV2IdempotencyRecord; ABSENT if it has none
    request,    \* request[e]: the request of call e
    pc,         \* where each call is
    leaseLost,  \* leaseLost[e]: a renewal of e has failed
    effects,    \* the executions whose mutation was committed
    told        \* told[e]: the execution whose stored outcome e was answered

vars == <<record, request, pc, leaseLost, effects, told>>

Absent == [id |-> None, request |-> None, status |-> "ABSENT", live |-> FALSE]

Settled == {"SUCCEEDED", "FAILED"}

Init ==
    /\ record = Absent
    /\ request \in [Executions -> Requests]
    /\ pc = [e \in Executions |-> "start"]
    /\ leaseLost = [e \in Executions |-> FALSE]
    /\ effects = {}
    /\ told = [e \in Executions |-> None]

GoTo(e, at) == pc' = [pc EXCEPT ![e] = at]

-----------------------------------------------------------------------------
(* The claim: one transaction under the key's advisory lock.               *)

Create(e) ==
    record' = [id |-> e, request |-> request[e], status |-> "IN_PROGRESS", live |-> TRUE]

\* Mutant: only a missing record can be claimed; the claim of a call that
\* died is respected for ever.
UsableIfAbsent == record.status = "ABSENT"

\* There is no record, or its time is over and it is deleted.
Usable == ~record.live

Claim(e) ==
    /\ pc[e] = "start"
    /\ Usable
    /\ Create(e)
    /\ GoTo(e, "preparing")
    /\ UNCHANGED <<request, leaseLost, effects, told>>

\* Mutant: the hash of the request is not compared.
IsReplayOfAny(e) == record.live

IsReplay(e) == record.live /\ record.request = request[e]

\* IDEMPOTENCY_KEY_REUSED
RefuseReuse(e) ==
    /\ pc[e] = "start"
    /\ record.live
    /\ ~IsReplay(e)
    /\ GoTo(e, "done")
    /\ UNCHANGED <<record, request, leaseLost, effects, told>>

\* The stored response is returned, the stored error is thrown.
Replay(e) ==
    /\ pc[e] = "start"
    /\ IsReplay(e)
    /\ record.status \in Settled
    /\ told' = [told EXCEPT ![e] = record.id]
    /\ GoTo(e, "done")
    /\ UNCHANGED <<record, request, leaseLost, effects>>

\* KNOWLEDGE_CONFLICT_IDEMPOTENCY_IN_PROGRESS, retryable
Busy(e) ==
    /\ pc[e] = "start"
    /\ IsReplay(e)
    /\ record.status = "IN_PROGRESS"
    /\ GoTo(e, "busy")
    /\ UNCHANGED <<record, request, leaseLost, effects, told>>

\* A client repeats a call that was refused as retryable.
Retry(e) ==
    /\ pc[e] = "busy"
    /\ GoTo(e, "start")
    /\ UNCHANGED <<record, request, leaseLost, effects, told>>

\* The claim of another key deletes up to 32 records whose time is over.
PurgeExpired ==
    /\ record.status # "ABSENT"
    /\ ~record.live
    /\ record' = Absent
    /\ UNCHANGED <<request, pc, leaseLost, effects, told>>

-----------------------------------------------------------------------------
(* The preparation, outside any transaction, with a timer that renews the  *)
(* lease.                                                                  *)

\* Mutant: the key's record is written, whoever has claimed it by now.
HoldsTheKey(e) == record.status # "ABSENT"

\* The row that a write by the call's record id and IN_PROGRESS finds.  Its
\* time may be over: only its deletion ends the claim.
Holds(e) == record.id = e /\ record.status = "IN_PROGRESS"

RenewLease(e) ==
    /\ pc[e] = "preparing"
    /\ \/ /\ Holds(e)
          /\ record' = [record EXCEPT !.live = TRUE]
          /\ UNCHANGED leaseLost
       \/ /\ leaseLost' = [leaseLost EXCEPT ![e] = TRUE]  \* not found, or an error
          /\ UNCHANGED record
    /\ UNCHANGED <<request, pc, effects, told>>

\* prepare() returns; or throws an error the client should not repeat, or
\* one it may.  A lost lease only matters when it returned.
Prepare(e) ==
    /\ pc[e] = "preparing"
    /\ \/ GoTo(e, IF leaseLost[e] THEN "release" ELSE "prepared")
       \/ GoTo(e, "rejected")
       \/ GoTo(e, "failed")
    /\ leaseLost' = [leaseLost EXCEPT ![e] = FALSE]  \* not read again
    /\ UNCHANGED <<record, request, effects, told>>

\* The outcome that stays for the retention.
Store(e, status) ==
    record' = [id |-> e, request |-> request[e], status |-> status, live |-> TRUE]

Delete(e) == record' = IF Holds(e) THEN Absent ELSE record

\* finishPreparationFailure: a deterministic error is stored, if the record
\* is still there; after any other the key is free again.  A database error
\* is thrown in place of the preparation's and leaves the record.
FinishPreparationFailure(e) ==
    /\ \/ pc[e] = "rejected" /\ Holds(e)
          /\ Store(e, "FAILED")
          /\ told' = [told EXCEPT ![e] = e]
       \/ pc[e] = "rejected" /\ ~Holds(e)
          /\ UNCHANGED <<record, told>>
       \/ pc[e] = "failed"
          /\ Delete(e)
          /\ UNCHANGED told
       \/ pc[e] \in {"rejected", "failed"}
          /\ UNCHANGED <<record, told>>
    /\ GoTo(e, "done")
    /\ UNCHANGED <<request, leaseLost, effects>>

-----------------------------------------------------------------------------
(* The mutation: one transaction under the same advisory lock, which first *)
(* renews the claim.                                                       *)

\* The commit's answer reaches the call, which returns; or it is lost, and
\* the call goes on as after a rollback.
Committed(e) ==
    \/ GoTo(e, "done") /\ told' = [told EXCEPT ![e] = e]
    \/ GoTo(e, "release") /\ UNCHANGED told

\* The mutation returns a response; a few return a client error, and keep
\* what they wrote.
Perform(e) ==
    /\ \E status \in Settled : Store(e, status)
    /\ effects' = effects \cup {e}
    /\ Committed(e)

\* The mutation throws a deterministic client error: back to the savepoint.
Reject(e) ==
    /\ Store(e, "FAILED")
    /\ UNCHANGED effects
    /\ Committed(e)

Mutate(e) ==
    /\ pc[e] = "prepared"
    /\ Holds(e)
    /\ Perform(e) \/ Reject(e)
    /\ UNCHANGED <<request, leaseLost>>

\* The claim is gone, the mutation threw another error, or the transaction
\* timed out: nothing is written.
Abort(e) ==
    /\ pc[e] = "prepared"
    /\ GoTo(e, "release")
    /\ UNCHANGED <<record, request, leaseLost, effects, told>>

\* The claim is given back, if that is what is there; an error is ignored.
Release(e) ==
    /\ pc[e] = "release"
    /\ Delete(e) \/ UNCHANGED record
    /\ GoTo(e, "done")
    /\ UNCHANGED <<request, leaseLost, effects, told>>

-----------------------------------------------------------------------------
\* The process dies, or loses the answer to its claim.
Crash(e) ==
    /\ pc[e] \notin {"start", "busy", "done"}
    /\ GoTo(e, "done")
    /\ leaseLost' = [leaseLost EXCEPT ![e] = FALSE]
    /\ UNCHANGED <<record, request, effects, told>>

\* Two minutes without a renewal, or the retention, have passed.
Expire ==
    /\ record.live
    /\ record' = [record EXCEPT !.live = FALSE]
    /\ UNCHANGED <<request, pc, leaseLost, effects, told>>

Start(e) == Claim(e) \/ RefuseReuse(e) \/ Replay(e) \/ Busy(e)

Work(e) == Prepare(e) \/ FinishPreparationFailure(e) \/ Mutate(e) \/ Abort(e) \/ Release(e)

Next ==
    \/ PurgeExpired \/ Expire
    \/ \E e \in Executions : Start(e) \/ Retry(e) \/ RenewLease(e) \/ Work(e) \/ Crash(e)

\* A call goes on and a client repeats a retryable refusal; a lease that
\* nobody renews ends.
Fairness ==
    /\ WF_vars(Expire /\ record.status = "IN_PROGRESS")
    /\ \A e \in Executions : WF_vars(Start(e)) /\ WF_vars(Retry(e)) /\ WF_vars(Work(e))

Spec == Init /\ [][Next]_vars /\ Fairness

-----------------------------------------------------------------------------
(* Properties.                                                             *)

\* The record is absent, or it belongs to a call and keeps that call's
\* request.
MutationTypeOK ==
    /\ record \in {Absent} \cup
         [id : Executions, request : Requests,
          status : {"IN_PROGRESS"} \cup Settled, live : BOOLEAN]
    /\ request \in [Executions -> Requests]
    /\ pc \in [Executions -> {"start", "busy", "preparing", "prepared",
                              "rejected", "failed", "release", "done"}]
    /\ leaseLost \in [Executions -> BOOLEAN]
    /\ effects \subseteq Executions
    /\ told \in [Executions -> Executions \cup {None}]

\* Whatever a call is answered is the outcome of a call that made the same
\* request (executePrepared: requestHash), through any number of claims
\* that ran out in between.
ToldOfTheSameRequest ==
    \A e \in Executions : told[e] # None => request[told[e]] = request[e]

\* The record is well typed and answers only its own request.
MutationInvariant == MutationTypeOK /\ ToldOfTheSameRequest

\* executePrepared implements the promise of an idempotency key: while an
\* outcome is kept no second mutation is committed, a mutation commits
\* together with its outcome, and replays answer the outcome that is kept.
\* This is for calls that overtake each other's leases, and for answers of
\* commits that are lost.
Once == INSTANCE OncePerKey WITH
    kept <- IF record.status \in Settled /\ record.live THEN record.id ELSE None

ImplementsOncePerKey == Once!OnceSpec

\* Every call is answered in the end, even when the call that claimed the
\* key died: the claim runs out and a repeated call takes the key over.
EveryCallIsAnswered == \A e \in Executions : <>(pc[e] = "done")
=============================================================================
