------------------------------ MODULE Purchase ------------------------------
(***************************************************************************)
(* What the payment service promises, without provider, leases or retries: *)
(* an order is paid only together with one of its payments, cancelling a   *)
(* paid order turns that payment into a debt in the same step, and a       *)
(* payment that cannot be kept is a debt from the start.  Two things take  *)
(* a slip each: a second payment for an order, and the cancellation of a   *)
(* paid order that leaves its payment kept.                                *)
(***************************************************************************)
EXTENDS Allocation

CONSTANT Payments

VARIABLES
    money,   \* [Payments -> {"none", "asked", "kept", "owed", "returned", "void"}]
    for,     \* [Payments -> Requests \cup {NoRequest}], the order of a payment
    slips    \* the slips to come

purchaseVars == <<order, money, for, slips>>

With(r, state) == {p \in Payments : for[p] = r /\ money[p] = state}
Becomes(p, state) == money' = [money EXCEPT ![p] = state]

PurchaseInit ==
    /\ AllocationInit
    /\ money = [p \in Payments |-> "none"]
    /\ for = [p \in Payments |-> NoRequest]
    /\ slips \in Nat

\* Slips only become fewer; those that change nothing are not seen here.
SlipsLast == slips' \in 0 .. slips
Slip == slips' \in 0 .. slips - 1

\* One payment at a time for an order that waits for its money.
Ask(p, r) ==
    /\ money[p] = "none" /\ order[r] = "held"
    /\ With(r, "asked") = {} \/ Slip
    /\ Becomes(p, "asked")
    /\ for' = [for EXCEPT ![p] = r]
    /\ UNCHANGED order

\* The money is there in time: order and payment change together.
Keep(p) ==
    /\ money[p] = "asked" /\ Becomes(p, "kept")
    /\ Pay(for[p])
    /\ UNCHANGED for

\* The money is there, but it cannot be kept.
Owe(p) ==
    /\ money[p] = "asked" /\ Becomes(p, "owed")
    /\ UNCHANGED <<order, for>>

Void(p) ==
    /\ money[p] = "asked" /\ Becomes(p, "void")
    /\ UNCHANGED <<order, for>>

GiveMoneyBack(p) ==
    /\ money[p] = "owed" /\ Becomes(p, "returned")
    /\ UNCHANGED <<order, for>>

\* A paid order is cancelled.
Withdraw(r) ==
    /\ order[r] = "paid" /\ Release({r})
    /\ (\E p \in With(r, "kept") : Becomes(p, "owed")) \/ (Slip /\ UNCHANGED money)
    /\ UNCHANGED for

\* Orders without money are cancelled or expire.
Lapse(R) ==
    /\ \A r \in R : order[r] = "held"
    /\ Release(R)
    /\ UNCHANGED <<money, for>>

PurchaseStep ==
    \/ \E r \in Requests : Take(r) /\ UNCHANGED <<money, for>>
    \/ \E R \in SUBSET Requests : Lapse(R)
    \/ \E r \in Requests : Withdraw(r)
    \/ \E p \in Payments, r \in Requests : Ask(p, r)
    \/ \E p \in Payments : Keep(p) \/ Owe(p) \/ Void(p) \/ GiveMoneyBack(p)

PurchaseNext ==
    /\ PurchaseStep \/ UNCHANGED <<order, money, for>>
    /\ SlipsLast

PurchaseSpec == PurchaseInit /\ [][PurchaseNext]_purchaseVars
=============================================================================
