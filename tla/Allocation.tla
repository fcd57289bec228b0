----------------------------- MODULE Allocation -----------------------------
(***************************************************************************)
(* What the ticket office promises, without databases, caches or queues:   *)
(* an order holds its admissions and its seats from the moment it is taken *)
(* until it is released, no ticket is sold beyond its total, no seat is    *)
(* held by two orders, and an order that was released never comes back.    *)
(***************************************************************************)
EXTENDS OrderRequests

VARIABLE order   \* [Requests -> {"none", "held", "paid", "released"}]

Holding == {r \in Requests : order[r] \in {"held", "paid"}}

AllocationInit == order = [r \in Requests |-> "none"]

Take(r) ==
    /\ order[r] = "none"
    /\ Cardinality(Units(Holding, TicketOf[r])) + Qty[r] <= Total[TicketOf[r]]
    /\ \A q \in Holding : SeatsOf[q] \cap SeatsOf[r] = {}
    /\ order' = [order EXCEPT ![r] = "held"]

Pay(r) ==
    /\ order[r] = "held"
    /\ order' = [order EXCEPT ![r] = "paid"]

\* One order that is cancelled, or the batch of one expiry.
Release(R) ==
    /\ R # {} /\ R \subseteq Holding
    /\ order' = [r \in Requests |-> IF r \in R THEN "released" ELSE order[r]]

AllocationNext ==
    \/ \E r \in Requests : Take(r) \/ Pay(r)
    \/ \E R \in SUBSET Requests : Release(R)

AllocationSpec == AllocationInit /\ [][AllocationNext]_order
=============================================================================
