---------------------------- MODULE TicketStore ----------------------------
(***************************************************************************)
(* The MySQL side of an order: the tables tickets, reservations and seats  *)
(* and the transactions that write them.  Every transaction locks the rows *)
(* it decides on (SELECT ... FOR UPDATE, or the row an UPDATE changes)     *)
(* before it reads them and holds the locks until COMMIT, so a committed   *)
(* transaction is one step; one that rolls back is no step of this module. *)
(***************************************************************************)
EXTENDS OrderRequests

CONSTANT ExpireLimit   \* orders one expiry transaction locks (LIMIT 100)

ASSUME ExpireLimitAssumption == ExpireLimit \in Nat \ {0}

VARIABLES
    avail,      \* tickets.available_seats
    shelf,      \* tickets.status, "absent" before the row is inserted
    resv,       \* reservations.status by request_id, "NONE" without a row
    due,        \* expire_at <= NOW()
    numbered,   \* order_no IS NOT NULL
    seatOf      \* seats.reservation_id by seat, as the request of that row

storeVars == <<avail, shelf, resv, due, numbered, seatOf>>

Active == {r \in Requests : resv[r] \in {"PENDING", "CONFIRMED"}}

StoreInit ==
    /\ avail = Total
    /\ shelf \in [Tickets -> {"absent", "onsale"}]
    /\ resv = [r \in Requests |-> "NONE"]
    /\ due = [r \in Requests |-> FALSE]
    /\ numbered = [r \in Requests |-> FALSE]
    /\ seatOf = [x \in Seats |-> NoRequest]
-----------------------------------------------------------------------------
\* Mutant: the seat is not looked at before it is sold.
SeatsExist(r) == \A x \in SeatsOf[r] : SeatTicket[x] = TicketOf[r]

SeatsFree(r) ==
    \A x \in SeatsOf[r] : SeatTicket[x] = TicketOf[r] /\ seatOf[x] = NoRequest

\* Mutant: available_seats is not compared with the quantity.
OutcomeUncounted(r) ==
    CASE shelf[TicketOf[r]] = "absent"  -> "TICKET_NOT_FOUND"
      [] shelf[TicketOf[r]] = "offline" -> "TICKET_OFFLINE"
      [] OTHER -> IF resv[r] = "NONE" /\ SeatsFree(r) THEN "OK" ELSE "SEAT_TAKEN"

\* What the order transaction finds, in the order in which it looks.
Outcome(r) ==
    CASE shelf[TicketOf[r]] = "absent"  -> "TICKET_NOT_FOUND"
      [] shelf[TicketOf[r]] = "offline" -> "TICKET_OFFLINE"
      [] shelf[TicketOf[r]] = "onsale" /\ avail[TicketOf[r]] < Qty[r] -> "NO_TICKET"
      [] OTHER -> IF resv[r] # "NONE" THEN "DB_INSERT"   \* uq_resv_request_id
                  ELSE IF SeatsFree(r) THEN "OK" ELSE "SEAT_TAKEN"

\* The transaction of processQueuedOrders, committed.
Reserve(r) ==
    /\ Outcome(r) = "OK"
    /\ avail' = [avail EXCEPT ![TicketOf[r]] = @ - Qty[r]]
    /\ resv' = [resv EXCEPT ![r] = "PENDING"]
    /\ seatOf' = [x \in Seats |-> IF x \in SeatsOf[r] THEN r ELSE seatOf[x]]
    /\ UNCHANGED <<shelf, due, numbered>>

\* setOrderNo, a statement of its own after the COMMIT.
Number(r) ==
    /\ resv[r] # "NONE"
    /\ numbered' = [numbered EXCEPT ![r] = TRUE]
    /\ UNCHANGED <<avail, shelf, resv, due, seatOf>>

\* adjustSeats(+quantity) and releaseByReservation for every order of R.
GiveBack(R, state) ==
    /\ resv' = [r \in Requests |-> IF r \in R THEN state ELSE resv[r]]
    /\ avail' = [t \in Tickets |-> avail[t] + Cardinality(Units(R, t))]
    /\ seatOf' = [x \in Seats |-> IF seatOf[x] \in R THEN NoRequest ELSE seatOf[x]]
    /\ UNCHANGED <<shelf, due, numbered>>

\* Mutant: an order can be cancelled in any state.
CancelAny(r) == resv[r] # "NONE" /\ GiveBack({r}, "CANCELLED")

\* The transaction of cancelTicket.
Cancel(r) ==
    /\ resv[r] \in {"PENDING", "CONFIRMED"}
    /\ GiveBack({r}, "CANCELLED")

Overdue == {r \in Requests : resv[r] = "PENDING" /\ due[r]}

\* Mutant: off by one at the limit.
ExpireBelowLimit(R) ==
    /\ R # {} /\ R \subseteq Overdue /\ Cardinality(R) < ExpireLimit
    /\ GiveBack(R, "EXPIRED")

\* The transaction of expirePendingOrders: all overdue orders up to the limit.
Expire(R) ==
    /\ R # {} /\ R \subseteq Overdue
    /\ Cardinality(R) <= ExpireLimit
    /\ R = Overdue \/ Cardinality(R) = ExpireLimit
    /\ GiveBack(R, "EXPIRED")

\* Mutant: the UPDATE does not ask for the state of the order.
ConfirmAny(r) ==
    /\ resv[r] # "NONE" /\ ~due[r]
    /\ resv' = [resv EXCEPT ![r] = "CONFIRMED"]
    /\ UNCHANGED <<avail, shelf, due, numbered, seatOf>>

\* ReservationRepository::pay, run by the settlement of a payment.
Confirm(r) ==
    /\ resv[r] = "PENDING" /\ ~due[r]
    /\ resv' = [resv EXCEPT ![r] = "CONFIRMED"]
    /\ UNCHANGED <<avail, shelf, due, numbered, seatOf>>

\* The 15 minutes of a reservation run out.
Deadline(r) ==
    /\ resv[r] = "PENDING" /\ ~due[r]
    /\ due' = [due EXCEPT ![r] = TRUE]
    /\ UNCHANGED <<avail, shelf, resv, numbered, seatOf>>

\* The INSERT of adminAddTicket.
AddTicket(t) ==
    /\ shelf[t] = "absent"
    /\ shelf' = [shelf EXCEPT ![t] = "onsale"]
    /\ UNCHANGED <<avail, resv, due, numbered, seatOf>>

\* setOffline of adminDeleteTicket (one ticket), offlineExpired (any number).
TakeOffline(T) ==
    /\ \A t \in T : shelf[t] # "absent"
    /\ shelf' = [t \in Tickets |-> IF t \in T THEN "offline" ELSE shelf[t]]
    /\ UNCHANGED <<avail, resv, due, numbered, seatOf>>

StoreNext ==
    \/ \E r \in Requests :
          Reserve(r) \/ Number(r) \/ Cancel(r) \/ Confirm(r) \/ Deadline(r)
    \/ \E R \in SUBSET Requests : Expire(R)
    \/ \E t \in Tickets : AddTicket(t)
    \/ \E T \in SUBSET Tickets : TakeOffline(T)

StoreSpec == StoreInit /\ [][StoreNext]_storeVars
-----------------------------------------------------------------------------
\* The rows keep the types of their columns; in particular
\* CHECK (available_seats >= 0) of db/init.sql never rejects a write.
StoreTypeOK ==
    /\ avail \in [Tickets -> Nat]
    /\ shelf \in [Tickets -> {"absent", "onsale", "offline"}]
    /\ resv \in [Requests -> {"NONE", "PENDING", "CONFIRMED", "CANCELLED", "EXPIRED"}]
    /\ due \in [Requests -> BOOLEAN]
    /\ numbered \in [Requests -> BOOLEAN]
    /\ seatOf \in [Seats -> Requests \cup {NoRequest}]

\* No admission is lost or sold twice: what a ticket has left and what its
\* live orders hold always add up to its total (adjustSeats against insert,
\* setCancelled and setExpired, whatever the order of the transactions).
Conservation ==
    \A t \in Tickets : avail[t] + Cardinality(Units(Active, t)) = Total[t]

\* A seat row is SOLD exactly for the live order that asked for it: no two
\* live orders share a seat, and every released seat can be sold again
\* (lockAndSell against releaseByReservation).
SeatsMatch ==
    /\ \A r \in Requests : r \in Active => \A x \in SeatsOf[r] : seatOf[x] = r
    /\ \A x \in Seats : seatOf[x] # NoRequest =>
          seatOf[x] \in Active /\ x \in SeatsOf[seatOf[x]]

\* The abstract allocation that the three tables implement.
OrderState(s) ==
    CASE s = "NONE" -> "none" [] s = "PENDING" -> "held" [] s = "CONFIRMED" -> "paid"
      [] OTHER -> "released"

Office == INSTANCE Allocation WITH order <- [r \in Requests |-> OrderState(resv[r])]

\* The tables implement the promise of Allocation: nothing is oversold, no
\* seat is held twice, a released order stays released.
ImplementsAllocation == Office!AllocationSpec
=============================================================================
