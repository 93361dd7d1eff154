---------------------------- MODULE EventDelivery ----------------------------
(***************************************************************************)
(* What the transactional outbox promises, without leases, attempts or     *)
(* dispatchers: a requested event is handed to the queue at least once and *)
(* then delivered, or it is abandoned together with the business object it *)
(* is about.  RuntimeOutbox implements this.                               *)
(***************************************************************************)
CONSTANTS Events, Cascading

VARIABLES
    state,    \* none, requested, delivered or abandoned
    handed,   \* has the queue ever taken the event
    open      \* is the business object still waiting for the event

deliveryVars == <<state, handed, open>>

Init ==
    /\ state = [e \in Events |-> "none"]
    /\ handed = [e \in Events |-> FALSE]
    /\ open = [e \in Events |-> TRUE]

Request(e) ==
    /\ state[e] = "none"
    /\ state' = [state EXCEPT ![e] = "requested"]
    /\ UNCHANGED <<handed, open>>

\* At least once: also again, and also after the event was settled by another
\* dispatcher while this one was talking to the queue.
HandOver(e) ==
    /\ state[e] # "none"
    /\ handed' = [handed EXCEPT ![e] = TRUE]
    /\ UNCHANGED <<state, open>>

Deliver(e) ==
    /\ state[e] = "requested"
    /\ handed[e]
    /\ state' = [state EXCEPT ![e] = "delivered"]
    /\ UNCHANGED <<handed, open>>

Abandon(e) ==
    /\ state[e] = "requested"
    /\ state' = [state EXCEPT ![e] = "abandoned"]
    /\ open' = IF e \in Cascading THEN [open EXCEPT ![e] = FALSE] ELSE open
    /\ UNCHANGED handed

\* The consumer of a handed event closes the business object, for good.
Close(e) ==
    /\ handed[e]
    /\ open' = [open EXCEPT ![e] = FALSE]
    /\ UNCHANGED <<state, handed>>

Next == \E e \in Events :
            Request(e) \/ HandOver(e) \/ Deliver(e) \/ Abandon(e) \/ Close(e)

Spec == Init /\ [][Next]_deliveryVars
=============================================================================
