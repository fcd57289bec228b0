CONSTANTS
    r1 = r1
    r2 = r2
    r3 = r3
    r4 = r4
    t1 = t1
    t2 = t2
    x1 = x1
    x2 = x2
    NoRequest = NoRequest
    Requests = {r1, r2, r3, r4}
    Tickets = {t1, t2}
    Seats = {x1, x2}
    TicketOf <- MCTicketOf
    Qty <- MCQty
    SeatsOf <- MCSeatsOf
    SeatTicket <- MCSeatTicket
    Total <- MCTotal
    ExpireLimit = 1
SPECIFICATION StoreSpec
CHECK_DEADLOCK FALSE
INVARIANTS StoreTypeOK Conservation SeatsMatch
PROPERTIES ImplementsAllocation
