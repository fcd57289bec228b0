-------------------------- MODULE MCOrderPipeline --------------------------
(* Small instances of the order pipeline: two orders of one ticket,          *)
(* one or two servers with a worker thread each.                            *)
EXTENDS OrderPipeline, TLC

CONSTANTS r1, r2, r3, t1, x1, x2, s1, s2, w1, w2

\* One ticket with two admissions; r1 and r2 want the same seat.
SeatTicketOf   == [r \in Requests |-> t1]
SeatQty        == [r \in Requests |-> 1]
SeatSeatsOf    == [r \in Requests |-> IF r = r3 THEN {} ELSE {x1}]
SeatTotal      == [t \in Tickets |-> 2]

\* One ticket with three admissions; r1 wants two seats, r2 one of them.
PairQty        == [r \in Requests |-> IF r = r1 THEN 2 ELSE 1]
PairSeatsOf    == [r \in Requests |-> IF r = r1 THEN {x1, x2} ELSE {x1}]
PairTotal      == [t \in Tickets |-> 3]

\* One ticket without seats: orders of one and of two admissions.
FloorTicketOf  == [r \in Requests |-> t1]
FloorQty       == [r \in Requests |-> IF r = r2 THEN 2 ELSE 1]
FloorSeatsOf   == [r \in Requests |-> {}]
FloorTotal     == [t \in Tickets |-> 2]

AllSeatTicket  == [x \in Seats |-> t1]

OneHost        == [w \in Workers |-> s1]

NoFaults       == [k \in {"db", "redis", "crash", "ttl"} |-> 0]
TwoDb          == [NoFaults EXCEPT !["db"] = 2]
DbAndTtl       == [NoFaults EXCEPT !["db"] = 1, !["ttl"] = 1]
OneCrash       == [NoFaults EXCEPT !["crash"] = 1]
CrashAndRedis  == [OneCrash EXCEPT !["redis"] = 1]
CrashAndDb     == [OneCrash EXCEPT !["db"] = 1]
=============================================================================
