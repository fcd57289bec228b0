--------------------------- MODULE MCTicketStore ---------------------------
(* Tickets of three admissions and of one, four orders that compete for    *)
(* them: two for the same seat, one for a seat of the wrong ticket.        *)
EXTENDS TicketStore, TLC

CONSTANTS r1, r2, r3, r4, t1, t2, x1, x2

MCTicketOf   == r1 :> t1 @@ r2 :> t1 @@ r3 :> t1 @@ r4 :> t2
MCQty        == r1 :> 1  @@ r2 :> 2  @@ r3 :> 2  @@ r4 :> 1
MCSeatsOf    == r1 :> {x1} @@ r2 :> {x1, x2} @@ r3 :> {} @@ r4 :> {x2}
MCSeatTicket == x1 :> t1 @@ x2 :> t1
MCTotal      == t1 :> 3 @@ t2 :> 1
=============================================================================
