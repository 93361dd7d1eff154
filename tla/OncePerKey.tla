----------------------------- MODULE OncePerKey -----------------------------
(***************************************************************************)
(* What an idempotency key promises, without records, leases or locks: as  *)
(* long as an outcome is kept for the key no other execution has an        *)
(* effect, an effect and its outcome come into being together, and a call  *)
(* that is told of an outcome is told of the one that is kept.             *)
(***************************************************************************)
CONSTANTS Executions, None

VARIABLES kept,     \* the execution whose outcome is kept, or None
          effects,  \* the executions that had an effect
          told      \* the execution whose outcome each call was told, or None

onceVars == <<kept, effects, told>>

OnceInit ==
    /\ kept = None
    /\ effects = {}
    /\ told = [e \in Executions |-> None]

\* Execution e settles the key, with an effect or with a refusal that has
\* none; its caller learns the outcome or loses the answer.
Settle(e) ==
    /\ kept = None
    /\ kept' = e
    /\ effects' \in {effects, effects \cup {e}}
    /\ told' \in {told, [told EXCEPT ![e] = e]}

Tell(e) ==
    /\ kept # None
    /\ told' = [told EXCEPT ![e] = kept]
    /\ UNCHANGED <<kept, effects>>

\* The time for which outcomes are kept is over.
Forget ==
    /\ kept # None
    /\ kept' = None
    /\ UNCHANGED <<effects, told>>

OnceNext == Forget \/ \E e \in Executions : Settle(e) \/ Tell(e)

OnceSpec == OnceInit /\ [][OnceNext]_onceVars
=============================================================================
