----------------------------- MODULE MCPayments -----------------------------
(* One order of one ticket that is paid with up to two idempotency keys,   *)
(* settled by two servers.                                                 *)
EXTENDS Payments, TLC

CONSTANTS r1, t1, k1, k2, s1, s2

OneTicketOf == [r \in Requests |-> t1]
OneQty      == [r \in Requests |-> 1]
NoSeatsOf   == [r \in Requests |-> {}]
NoSeats     == [x \in Seats |-> t1]
OneTotal    == [t \in Tickets |-> 1]

\* One fault of each kind.
MCFaults == "db" :> 1 @@ "provider" :> 1 @@ "crash" :> 1 @@ "slow" :> 1 @@ "statement" :> 1

\* A statement that fails unnoticed meets a failed transaction and an exception
\* of the provider, but neither a crash nor a slow call.
UnnoticedApart == NothingOverlooked \/ (budget["crash"] = 1 /\ budget["slow"] = 1)

Alike == Permutations({k1, k2}) \cup Permutations({s1, s2})

\* Enough refusals to give a refund up.
LiveFaults ==
    "db" :> 1 @@ "provider" :> 2 @@ "crash" :> 1 @@ "slow" :> 0 @@ "statement" :> 1
=============================================================================
