--------------------------- MODULE OrderRequests ---------------------------
(***************************************************************************)
(* The purchase requests a run considers.  A request is what orderTicket   *)
(* accepts after validation and puts into the stream: a request_id, a      *)
(* ticket, a quantity of 1..6 and, for a seated purchase, as many distinct *)
(* seat ids.  Which ticket a seat belongs to is data of the seats table: a *)
(* request may name a seat of another ticket, the code only notices when   *)
(* it locks the seat.                                                      *)
(***************************************************************************)
EXTENDS Integers, FiniteSets

CONSTANTS
    Requests,    \* request ids, one user each
    Tickets,
    Seats,
    TicketOf,    \* [Requests -> Tickets]
    Qty,         \* [Requests -> 1 .. MaxPerOrder]
    SeatsOf,     \* [Requests -> SUBSET Seats], {} for an unseated purchase
    SeatTicket,  \* [Seats -> Tickets]
    Total,       \* [Tickets -> Nat], tickets.total_seats
    NoRequest    \* seats.reservation_id IS NULL

\* The limit of tickets in one order.
MaxPerOrder == 6

\* What the validation of orderTicket guarantees of an accepted request.
ValidRequest(r) ==
    /\ TicketOf[r] \in Tickets
    /\ Qty[r] \in 1 .. MaxPerOrder
    /\ SeatsOf[r] \subseteq Seats
    /\ SeatsOf[r] = {} \/ Cardinality(SeatsOf[r]) = Qty[r]

ASSUME RequestsAssumption ==
    /\ IsFiniteSet(Requests)
    /\ NoRequest \notin Requests
    /\ TicketOf \in [Requests -> Tickets]
    /\ Qty \in [Requests -> 1 .. MaxPerOrder]
    /\ SeatsOf \in [Requests -> SUBSET Seats]
    /\ SeatTicket \in [Seats -> Tickets]
    /\ Total \in [Tickets -> Nat]
    /\ \A r \in Requests : ValidRequest(r)

\* The admissions to ticket t that the orders R stand for, one pair each.
Units(R, t) ==
    {u \in R \X (1 .. MaxPerOrder) : TicketOf[u[1]] = t /\ u[2] <= Qty[u[1]]}
=============================================================================
